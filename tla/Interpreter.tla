---------------------------- MODULE Interpreter ----------------------------
(***************************************************************************)
(* The restricted Python interpreter of lib/python_executor: evaluate_ast  *)
(* and the handlers it dispatches to, as operators over syntax trees.      *)
(*                                                                         *)
(* A node is a record whose field k is its kind.  A handler takes a node   *)
(* n, the context c it runs in and the store s, and returns a result: how  *)
(* it ended (sig: "ok", or the class of the exception on its way out), a   *)
(* value (what it returned, or what a ReturnException or                   *)
(* FinalAnswerException carries) and the store it leaves.                  *)
(*                                                                         *)
(* A context is the number of one of the dicts that serve as state in the  *)
(* source: 1 is the executor's own, the others are the copies the calls    *)
(* and comprehensions work on.  A dict refers to the counter and the       *)
(* PrintContainer of the call of the executor it comes from: its run.      *)
(*                                                                         *)
(* Values are numbers, lists, classes and their objects (shared through a  *)
(* heap), exceptions, functions, coroutines, modules, tools and context    *)
(* managers.  What a tool, a module or a context manager does is up to the *)
(* host, and what an object does is up to Python: the handlers call it.    *)
(***************************************************************************)
EXTENDS Integers, Sequences, SequencesExt

CONSTANTS
    MaxWhile,       \* MAX_WHILE_ITERATIONS
    Authorized,     \* the authorized imports, each the sequence of its parts
    Similar         \* <<a, b>>: difflib takes b for a misspelt a

-----------------------------------------------------------------------------
\* Values.

None == [t |-> "none"]
Num(x) == [t |-> "num", n |-> x]
Class(cls) == [t |-> "class", cls |-> cls]
Tool(id) == [t |-> "tool", id |-> id]
Builtin(id) == [t |-> "builtin", id |-> id]
Text == [t |-> "str"]

\* The tools the host registers, under the names the programs use: some of
\* BASE_PYTHON_TOOLS, and final_answer, wrapped by FinalAnswerTool.
StaticTools == {"print", "probe", "stream", "open_cm", "nap", "hang", "block",
                "final_answer"}

\* Of the builtin functions that are no tools, those in DANGEROUS_FUNCTIONS.
Dangerous == {"eval"}

\* The names that begin and end with two underscores, and of the methods of
\* such a name those in ALLOWED_DUNDER_METHODS.
Dunders == {"__init__", "__len__", "__class__"}
AllowedDunders == {"__init__"}

\* Exceptions `except Exception` does not see.  A timeout reaches the code as
\* the CancelledError that asyncio.wait_for throws into it.
BaseOnly == {"FinalAnswer", "Cancelled"}

\* ERRORS: the exception classes a program may name, and the class above one
\* that is not directly below Exception.
Errors == {"BaseException", "Exception", "ValueError", "AssertionError", "TypeError",
           "NameError", "LookupError", "IndexError", "AttributeError", "RuntimeError",
           "ImportError"}
Above == [InterpreterError |-> "ValueError", UnboundLocalError |-> "NameError",
          IndexError |-> "LookupError", ModuleNotFoundError |-> "ImportError"]

RECURSIVE Root(_), IsSubclass(_, _)

\* The class a class of the program comes from in the end, or None.
Root(cls) == IF cls.t = "type" THEN Root(cls.base) ELSE cls
IsException(cls) == Root(cls).t = "class"

IsSubclass(a, b) ==
    \/ a = b
    \/ a.t = "type" /\ IsSubclass(a.base, b)
    \/ a.t = "class" /\ b.t = "class" /\
            \/ b.cls = "BaseException"
            \/ b.cls = "Exception" /\ a.cls \notin BaseOnly
            \/ a.cls \in DOMAIN Above /\ Above[a.cls] = b.cls

TypeOf(v) == CASE v.t = "obj" -> v.cls
               [] v.t = "exc" -> Class(v.cls)
               [] OTHER -> [t |-> "native", of |-> v.t]

-----------------------------------------------------------------------------
\* Results and stores.

Ok(v, s) == [sig |-> "ok", val |-> v, st |-> s]
Raise(cls, s) == [sig |-> cls, val |-> None, st |-> s]
Refuse(s) == Raise("InterpreterError", s)

\* The exception on its way out of r: an object of a class of the program is
\* carried along, any other is its class.
Control == {"Return", "Break", "Continue"}
Exception(r) == IF r.val.t = "obj" /\ r.sig \notin Control THEN r.val
                ELSE [t |-> "exc", cls |-> r.sig]

\* Goes on with F when r ended well, and passes its exception on otherwise.
Then(r, F(_, _)) == IF r.sig = "ok" THEN F(r.val, r.st) ELSE r

Vars(c, s) == s.envs[c].vars
Bind(c, id, v, s) == [s EXCEPT !.envs[c].vars = (id :> v) @@ @]
Unbind(c, id, s) ==
    [s EXCEPT !.envs[c].vars = [x \in DOMAIN @ \ {id} |-> @[x]]]
Happens(e, s) == [s EXCEPT !.world = Append(@, e)]
Overrun(s) == IF s.limit = "ahead" THEN [s EXCEPT !.limit = "over"] ELSE s

\* EvaluationContext.with_state on a new dict; the shared counter and print
\* container come along with the copied entries.
WithState(vars, c, s) ==
    [s EXCEPT !.envs = Append(@, [vars |-> vars, run |-> @[c].run])]
Newest(s) == Len(s.envs)

\* run_coroutine_sync: F runs in a thread with an event loop of its own, which
\* the code it is called from waits for.
RunCoroutineSync(F(_), s) ==
    LET r == F([s EXCEPT !.threads = @ + 1])
    IN  [r EXCEPT !.st.threads = s.threads]

NewList(items, s) ==
    Ok([t |-> "list", at |-> Len(s.heap) + 1], [s EXCEPT !.heap = Append(@, items)])
Items(v, s) == s.heap[v.at]
HasIndex(v, i, s) ==
    v.t = "list" /\ i.t = "num" /\ i.n \in 0 .. Len(Items(v, s)) - 1
BadIndex(v, i) == IF v.t = "list" /\ i.t = "num" THEN "IndexError" ELSE "TypeError"
SetItem(v, i, x, s) ==
    IF HasIndex(v, i, s) THEN Ok(None, [s EXCEPT !.heap[v.at][i.n + 1] = x])
    ELSE Raise(BadIndex(v, i), s)
Truthy(v, s) == CASE v.t = "none" -> FALSE
                  [] v.t = "num" -> v.n # 0
                  [] v.t = "list" -> Items(v, s) # <<>>
                  [] OTHER -> TRUE

Match(names, values) ==
    [x \in {names[i] : i \in 1 .. Len(names) \cap 1 .. Len(values)} |->
        values[CHOOSE i \in 1 .. Len(names) : names[i] = x]]

\* build_import_tree and the walk down it: a part is found under the parts
\* before it when some authorized path goes there.
CheckImportAuthorized(path) ==
    \A i \in 1 .. Len(path) :
        \/ \E j \in 0 .. i - 1 : \E a \in Authorized :
              /\ Len(a) > j
              /\ SubSeq(a, 1, j) = SubSeq(path, 1, j)
              /\ a[j + 1] = "*"
        \/ \E a \in Authorized : Len(a) >= i /\ SubSeq(a, 1, i) = SubSeq(path, 1, i)

\* check_safer_result: neither a module that is not authorized nor a dangerous
\* function.  (No value of the model is the dict of a module.)
Forbidden(v) == \/ v.t = "mod" /\ ~CheckImportAuthorized(v.path)
                \/ v.t = "builtin" /\ v.id \in Dangerous
CheckSaferResult(r) == IF r.sig = "ok" /\ Forbidden(r.val) THEN Refuse(r.st) ELSE r

-----------------------------------------------------------------------------
\* The host: the tools, the modules and the context managers they hand out.
\* A manager of kind 1 swallows every exception, one of kind 2 cannot be
\* entered and one of kind 3 cannot be left.

Modules == {<<"math">>, <<"collections">>, <<"collections", "abc">>, <<"os">>}
Members(path) ==
    {"pi"} \cup {m[Len(m)] : m \in {m \in Modules : Front(m) = path}}
           \cup (IF path = <<"math">> THEN {"vars", "eval"} ELSE {})
Member(path, name) ==
    CASE Append(path, name) \in Modules -> [t |-> "mod", path |-> Append(path, name)]
      [] name \in {"vars", "eval"} -> Builtin(name)
      [] OTHER -> Num(3)

\* What a tool does, and the time it takes: nap and hang are awaited, block is
\* not; hang and block outlast the time limit.
NewCoroutine(v, s) ==
    Ok(("at" :> Len(s.heap) + 1) @@ v, [s EXCEPT !.heap = Append(@, <<>>)])
Awaited(v, s) == [s EXCEPT !.heap[v.at] = <<None>>]
CallTool(id, args, s) ==
    CASE id = "print" -> Ok(None, s)
      [] id = "block" -> Ok(None, Overrun(s))
      [] id = "probe" -> Ok(args[1], Happens([e |-> "probe", v |-> args], s))
      [] id = "stream" -> IF args[1].t = "list" THEN Ok([args[1] EXCEPT !.t = "alist"], s)
                          ELSE Raise("TypeError", s)
      [] id = "open_cm" -> Ok([t |-> "cm", kind |-> args[1].n], s)
      [] id \in {"nap", "hang"} -> NewCoroutine([t |-> "pending", id |-> id], s)
      [] id = "final_answer" -> [Raise("FinalAnswer", s) EXCEPT !.val = args[1]]

\* asyncio.wait_for cancels the code once, where it next waits after the time
\* is up.  It cannot reach a wait in the thread of run_coroutine_sync.
AwaitTool(id, s) ==
    LET s1 == IF id = "hang" THEN Overrun(s) ELSE s
    IN  IF s1.limit = "over" /\ s1.threads = 0
        THEN Raise("Cancelled", [s1 EXCEPT !.limit = "told"]) ELSE Ok(None, s1)

EnterManager(m, s) ==
    IF m.kind = 2 THEN Raise("ValueError", Happens([e |-> "refused", kind |-> 2], s))
    ELSE Ok(Num(m.kind), Happens([e |-> "enter", kind |-> m.kind], s))

\* What __exit__ answers for an exception sig, or "ok" for none.
ExitManager(m, sig, s) ==
    LET left == Happens([e |-> "exit", kind |-> m.kind, of |-> sig], s)
    IN  IF m.kind = 3 THEN Raise("ValueError", left)
        ELSE Ok(Num(IF m.kind = 1 THEN 1 ELSE 0), left)

\* History: the managers ms stay open, for good.
Lose(ms, r) ==
    [r EXCEPT !.st.world = @ \o
        [i \in 1 .. Len(ms) |-> [e |-> "lost", kind |-> ms[Len(ms) + 1 - i].kind]]]

-----------------------------------------------------------------------------
\* Python's own objects.  A class has at most one class above it (base); what
\* every object has from `object` is left out, but for __init__.

\* <<v>> if the class or one above it has the member, else <<>>.
RECURSIVE ClassMember(_, _, _)
ClassMember(cls, name, s) ==
    CASE cls.t = "type" /\ name \in DOMAIN s.heap[cls.at] -> << s.heap[cls.at][name] >>
      [] cls.t = "type" /\ name \notin DOMAIN s.heap[cls.at] -> ClassMember(cls.base, name, s)
      [] OTHER -> <<>>

\* A function found in the class of an object is called with the object.
IsFunction(v) == v.t \in {"fun", "lambda"} \/ (v.t = "tool" /\ v.id # "final_answer")
ObjectMember(self, cls, name, s) ==
    LET found == ClassMember(cls, name, s)
    IN  IF found = <<>> /\ name = "__init__" THEN << [t |-> "init", cls |-> cls] >>
        ELSE [i \in DOMAIN found |-> IF IsFunction(found[i]) /\ self.t = "obj"
                                     THEN [t |-> "bound", fun |-> found[i], self |-> self]
                                     ELSE found[i]]
GetMember(v, name, s) ==
    CASE v.t = "mod" /\ name \in Members(v.path) -> << Member(v.path, name) >>
      [] v.t = "type" -> ClassMember(v, name, s)
      [] v.t = "obj" -> IF name \in DOMAIN s.heap[v.at] THEN << s.heap[v.at][name] >>
                        ELSE ObjectMember(v, v.cls, name, s)
      [] v.t = "super" -> IF v.cls.t = "type" /\ v.self # None THEN ObjectMember(v.self, v.cls.base, name, s)
                          ELSE <<>>
      [] OTHER -> <<>>
GetAttr(v, name, s) ==
    LET found == GetMember(v, name, s)
    IN  IF found = <<>> THEN Raise("AttributeError", s) ELSE Ok(found[1], s)
SetAttr(v, name, x, s) ==
    CASE v.t \in {"obj", "type"} -> Ok(None, [s EXCEPT !.heap[v.at] = (name :> x) @@ @])
      [] v.t = "class" -> Raise("TypeError", s)
      [] OTHER -> Raise("AttributeError", s)

\* A class is called: a new object, given to its __init__.
Construct(cls, args, kwargs, s, Call(_, _, _, _)) ==
    LET o == [t |-> "obj", at |-> Len(s.heap) + 1, cls |-> cls]
        s1 == [s EXCEPT !.heap = Append(@, <<>>)]
    IN  Then(Call(ObjectMember(o, cls, "__init__", s1)[1], args, kwargs, s1), LAMBDA v, s2 :
            IF v = None THEN Ok(o, s2) ELSE Raise("TypeError", s2))
CallInit(f, args, kwargs, s) ==
    IF (args = <<>> \/ IsException(f.cls)) /\ DOMAIN kwargs = {} THEN Ok(None, s)
    ELSE Raise("TypeError", s)

Super(cls, self, s) ==
    IF IsSubclass(TypeOf(self), cls) \/ (self.t = "type" /\ IsSubclass(self, cls))
    THEN Ok([t |-> "super", cls |-> cls, self |-> self], s) ELSE Raise("TypeError", s)

\* raise v from cause
RaiseValue(v, cause, s, Call(_, _, _, _)) ==
    IF cause # None /\ ~IsException(IF cause.t \in {"class", "type"} THEN cause ELSE TypeOf(cause))
    THEN Raise("TypeError", s) ELSE
    CASE v.t \in {"exc", "class"} -> Raise(v.cls, s)
      [] v.t = "obj" /\ IsException(v.cls) -> [Raise(Root(v.cls).cls, s) EXCEPT !.val = v]
      [] v.t = "type" /\ IsException(v) ->
            Then(Construct(v, <<>>, <<>>, s, Call), LAMBDA o, s1 :
                [Raise(Root(v).cls, s1) EXCEPT !.val = o])
      [] OTHER -> Raise("TypeError", s)

-----------------------------------------------------------------------------
RECURSIVE Eval(_, _, _), Each(_, _, _), Lines(_, _, _, _), Statements(_, _, _, _),
          SetValue(_, _, _, _), SetEach(_, _, _, _), EvaluateBoolOp(_, _, _),
          Chain(_, _, _, _), Filters(_, _, _), Comprehensions(_, _, _, _),
          Rounds(_, _, _, _, _, _), ForEach(_, _, _, _, _, _), WhileRound(_, _, _, _),
          Handlers(_, _, _, _), Enter(_, _, _, _), ExitOnError(_, _), ExitAll(_, _),
          Arguments(_, _, _), Invoke(_, _, _, _), ClassTargets(_, _, _, _, _),
          ClassBody(_, _, _, _, _), ImportNames(_, _, _), ImportMembers(_, _, _, _),
          EvaluateDelete(_, _, _)

\* The values of nodes, evaluated from left to right.
Each(nodes, c, s) ==
    IF nodes = <<>> THEN Ok(<<>>, s)
    ELSE Then(Eval(Head(nodes), c, s), LAMBDA v, s1 :
         Then(Each(Tail(nodes), c, s1), LAMBDA vs, s2 : Ok(<<v>> \o vs, s2)))

\* The lines of an if or a for: the last result that is not None, which a
\* break or continue leaves with the loop.
Lines(body, c, s, result) ==
    IF body = <<>> THEN Ok(result, s)
    ELSE LET r == Eval(Head(body), c, s)
         IN  IF r.sig \in {"Break", "Continue"} THEN [r EXCEPT !.val = result]
             ELSE Then(r, LAMBDA v, s1 :
                    Lines(Tail(body), c, s1, IF v = None THEN result ELSE v))

\* Any other body: the result of its last statement.
Statements(body, c, s, result) ==
    IF body = <<>> THEN Ok(result, s)
    ELSE Then(Eval(Head(body), c, s), LAMBDA v, s1 :
            Statements(Tail(body), c, s1, v))

\* A node that may be missing.
Optional(n, c, s) == IF n = None THEN Ok(None, s) ELSE Eval(n, c, s)

-----------------------------------------------------------------------------
\* Expressions.

EvaluateName(n, c, s) ==
    LET vars == Vars(c, s)
        close == {x \in DOMAIN vars : <<n.id, x>> \in Similar}
    IN  CASE n.id \in DOMAIN vars -> Ok(vars[n.id], s)
          [] n.id \notin DOMAIN vars /\ n.id \in StaticTools -> Ok(Tool(n.id), s)
          [] n.id \notin DOMAIN vars \cup StaticTools /\ n.id \in DOMAIN s.tools ->
                Ok(s.tools[n.id], s)
          [] n.id \notin DOMAIN vars \cup StaticTools \cup DOMAIN s.tools
                /\ n.id \in Errors -> Ok(Class(n.id), s)
          [] OTHER -> IF close # {} THEN Ok(vars[CHOOSE x \in close : TRUE], s)
                      ELSE Refuse(s)

EvaluateConstant(n, c, s) == Ok(n.v, s)

EvaluateList(n, c, s) == Then(Each(n.elts, c, s), LAMBDA vs, s1 : NewList(vs, s1))

EvaluateIfExp(n, c, s) ==
    Then(Eval(n.test, c, s), LAMBDA v, s1 :
        Eval(IF Truthy(v, s1) THEN n.body ELSE n.orelse, c, s1))

\* The values of an `or`, up to the first that is true, or of an `and`.
EvaluateBoolOp(n, c, s) ==
    Then(Eval(Head(n.values), c, s), LAMBDA v, s1 :
        IF Len(n.values) = 1 \/ Truthy(v, s1) = (n.op = "or") THEN Ok(v, s1)
        ELSE EvaluateBoolOp([n EXCEPT !.values = Tail(@)], c, s1))

Add(a, b, s) ==
    CASE a.t = "num" /\ b.t = "num" -> Ok(Num(a.n + b.n), s)
      [] a.t = "list" /\ b.t = "list" -> NewList(Items(a, s) \o Items(b, s), s)
      [] OTHER -> Raise("TypeError", s)

EvaluateBinOp(n, c, s) ==
    Then(Eval(n.left, c, s), LAMBDA a, s1 :
    Then(Eval(n.right, c, s1), LAMBDA b, s2 : Add(a, b, s2)))

\* A chain of comparisons evaluates its operands until one comparison fails;
\* < stands for the operators, which are Python's.
EvaluateCondition(n, c, s) ==
    Then(Eval(n.left, c, s), LAMBDA v, s1 : Chain(n.rest, v, c, s1))
Chain(rest, left, c, s) ==
    IF rest = <<>> THEN Ok(Num(1), s)
    ELSE Then(Eval(rest[1].right, c, s), LAMBDA right, s1 :
        CASE {left.t, right.t} # {"num"} -> Raise("TypeError", s1)
          [] {left.t, right.t} = {"num"} /\ left.n >= right.n -> Ok(Num(0), s1)
          [] OTHER -> Chain(Tail(rest), right, c, s1))

\* The index is evaluated before what it indexes.
EvaluateSubscript(n, c, s) ==
    Then(Eval(n.slice, c, s), LAMBDA i, s1 :
    Then(Eval(n.value, c, s1), LAMBDA v, s2 :
        IF HasIndex(v, i, s2) THEN Ok(Items(v, s2)[i.n + 1], s2) ELSE Refuse(s2)))

EvaluateAttribute(n, c, s) ==
    IF n.attr \in Dunders THEN Refuse(s)
    ELSE Then(Eval(n.value, c, s), LAMBDA v, s1 : GetAttr(v, n.attr, s1))

EvaluateLambda(n, c, s) == Ok([t |-> "lambda", def |-> n, ctx |-> c], s)

\* A lambda takes its arguments by position only.
CallLambda(f, args, kwargs, s) ==
    IF DOMAIN kwargs # {} THEN Raise("TypeError", s) ELSE
    LET s1 == WithState(Match(f.def.params, args) @@ Vars(f.ctx, s), f.ctx, s)
    IN  RunCoroutineSync(LAMBDA s2 : Eval(f.def.body, Newest(s2), s2), s1)

\* What a for or a comprehension iterates over; lists and their asynchronous
\* counterparts stay shared while they are iterated.
Iterable(v, async) == v.t = IF async THEN "alist" ELSE "list"
NotIterable(async, s) == IF async THEN Refuse(s) ELSE Raise("TypeError", s)

Filters(ifs, c, s) ==
    IF ifs = <<>> THEN Ok(TRUE, s)
    ELSE Then(Eval(Head(ifs), c, s), LAMBDA v, s1 :
            IF Truthy(v, s1) THEN Filters(Tail(ifs), c, s1) ELSE Ok(FALSE, s1))

\* The elements a comprehension yields; every round works on a copy.
Comprehensions(gens, elt, c, s) ==
    IF gens = <<>> THEN Then(Eval(elt, c, s), LAMBDA v, s1 : Ok(<<v>>, s1))
    ELSE Then(Eval(Head(gens).iter, c, s), LAMBDA v, s1 :
            IF Iterable(v, Head(gens).async) THEN Rounds(gens, elt, v, 1, c, s1)
            ELSE NotIterable(Head(gens).async, s1))
Rounds(gens, elt, v, i, c, s) ==
    LET copy == WithState(Vars(c, s), c, s)
        inner == Newest(copy)
    IN  IF i > Len(Items(v, s)) THEN Ok(<<>>, s)
        ELSE Then(SetValue(Head(gens).target, Items(v, s)[i], inner, copy), LAMBDA x, s1 :
             Then(Filters(Head(gens).ifs, inner, s1), LAMBDA pass, s2 :
             Then(IF pass THEN Comprehensions(Tail(gens), elt, inner, s2)
                  ELSE Ok(<<>>, s2), LAMBDA vs, s3 :
             Then(Rounds(gens, elt, v, i + 1, c, s3), LAMBDA rest, s4 :
                Ok(vs \o rest, s4)))))

EvaluateComp(n, c, s) ==
    Then(Comprehensions(n.gens, n.elt, c, s), LAMBDA vs, s1 : NewList(vs, s1))

-----------------------------------------------------------------------------
\* Functions and calls.

\* What a function starts from: a copy of the dict it was defined in, with its
\* arguments.
Frame(def, c, args, kwargs, s) == kwargs @@ Match(def.params, args) @@ Vars(c, s)

\* Defaults are evaluated at the call, and fill only the names the copy does
\* not have.  A first parameter called self also tells the class.
ExecuteFunctionBody(def, c, args, kwargs, s) ==
    Then(Each(def.defaults, c, s), LAMBDA ds, s1 :
        LET last == SubSeq(def.params, Len(def.params) - Len(ds) + 1, Len(def.params))
            self == IF args # <<>> /\ def.params # <<>> /\ Head(def.params) = "self"
                    THEN [self |-> args[1], __class__ |-> TypeOf(args[1])] ELSE <<>>
            s2 == WithState(self @@ Frame(def, c, args, kwargs, s) @@ Match(last, ds), c, s1)
            r == Statements(def.body, Newest(s2), s2, None)
        IN  CASE r.sig \notin {"ok", "Return"} -> r
              [] r.sig \in {"ok", "Return"} ->
                    Ok(IF def.name = "__init__" THEN None ELSE r.val, r.st))

\* A call of an async function runs nothing before it is awaited.
CallFunction(f, args, kwargs, s) ==
    IF f.def.k = "asyncdef"
    THEN NewCoroutine([t |-> "coro", def |-> f.def, ctx |-> f.ctx, args |-> args,
                       kwargs |-> kwargs], s)
    ELSE RunCoroutineSync(LAMBDA s1 : ExecuteFunctionBody(f.def, f.ctx, args, kwargs, s1), s)

\* A coroutine can be awaited once.
EvaluateAwait(n, c, s) ==
    Then(Eval(n.value, c, s), LAMBDA v, s1 :
        CASE v.t \notin {"coro", "pending"} -> Refuse(s1)
          [] v.t \in {"coro", "pending"} /\ Items(v, s1) # <<>> -> Raise("RuntimeError", s1)
          [] v.t = "pending" /\ Items(v, s1) = <<>> -> AwaitTool(v.id, Awaited(v, s1))
          [] OTHER -> ExecuteFunctionBody(v.def, v.ctx, v.args, v.kwargs, Awaited(v, s1)))

\* func(*args, **kwargs)
Invoke(f, args, kwargs, s) ==
    CASE f.t = "fun" -> CallFunction(f, args, kwargs, s)
      [] f.t = "lambda" -> CallLambda(f, args, kwargs, s)
      [] f.t = "bound" -> Invoke(f.fun, <<f.self>> \o args, kwargs, s)
      [] f.t = "type" -> Construct(f, args, kwargs, s, Invoke)
      [] f.t = "init" -> CallInit(f, args, kwargs, s)
      [] f.t = "tool" /\ DOMAIN kwargs = {} -> CallTool(f.id, args, s)
      [] f.t = "class" /\ DOMAIN kwargs = {} -> Ok([t |-> "exc", cls |-> f.cls], s)
      [] OTHER -> Raise("TypeError", s)
Callable(v) ==
    v.t \in {"fun", "lambda", "bound", "type", "init", "tool", "class", "builtin"}

CalleeByName(id, c, s) ==
    CASE id = "super" -> Ok(Builtin("super"), s)
      [] id # "super" /\ id \in DOMAIN Vars(c, s) -> Ok(Vars(c, s)[id], s)
      [] id \notin DOMAIN Vars(c, s) \cup {"super"} /\ id \in StaticTools -> Ok(Tool(id), s)
      [] id \notin DOMAIN Vars(c, s) \cup {"super"} \cup StaticTools /\ id \in DOMAIN s.tools ->
            Ok(s.tools[id], s)
      [] id \notin DOMAIN Vars(c, s) \cup {"super"} \cup StaticTools \cup DOMAIN s.tools
            /\ id \in Errors -> Ok(Class(id), s)
      [] OTHER -> Refuse(s)

Callee(f, c, s) ==
    CASE f.k = "name" -> CalleeByName(f.id, c, s)
      [] f.k = "attribute" ->
            Then(Eval(f.value, c, s), LAMBDA v, s1 :
                LET found == GetMember(v, f.attr, s1)
                IN  IF found = <<>> THEN Refuse(s1) ELSE CheckSaferResult(Ok(found[1], s1)))
      [] f.k \in {"call", "lambda"} -> Eval(f, c, s)
      [] f.k = "subscript" -> Then(Eval(f, c, s), LAMBDA v, s1 :
                                 IF Callable(v) THEN Ok(v, s1) ELSE Refuse(s1))
      [] OTHER -> Refuse(s)
CalleeName(f) == CASE f.k = "name" -> f.id
                   [] f.k = "attribute" -> f.attr
                   [] OTHER -> ""

\* The arguments, with the elements of those that are starred.
Arguments(nodes, c, s) ==
    IF nodes = <<>> THEN Ok(<<>>, s)
    ELSE LET n == Head(nodes)
             r == IF n.k # "starred" THEN Then(Eval(n, c, s), LAMBDA v, s1 : Ok(<<v>>, s1))
                  ELSE Then(Eval(n.value, c, s), LAMBDA v, s1 :
                        IF v.t = "list" THEN Ok(Items(v, s1), s1) ELSE Raise("TypeError", s1))
         IN  Then(r, LAMBDA vs, s1 :
             Then(Arguments(Tail(nodes), c, s1), LAMBDA rest, s2 : Ok(vs \o rest, s2)))

\* Without arguments, super is told the class of self, whichever class the
\* method stands in.
EvaluateSuper(args, c, s) ==
    CASE args = <<>> -> IF {"self", "__class__"} \subseteq DOMAIN Vars(c, s)
                        THEN Super(Vars(c, s)["__class__"], Vars(c, s)["self"], s)
                        ELSE Refuse(s)
      [] args # <<>> /\ args[1].t \in {"type", "class"} /\ Len(args) = 1 ->
            Ok([t |-> "super", cls |-> args[1], self |-> None], s)
      [] args # <<>> /\ args[1].t \in {"type", "class"} /\ Len(args) = 2 ->
            Super(args[1], args[2], s)
      [] OTHER -> Refuse(s)

\* Neither a builtin function that is no tool nor a method with a reserved name.
Unsafe(f) ==
    LET g == IF f.t = "bound" THEN f.fun ELSE f
    IN  g.t = "builtin" \/ (g.t = "fun" /\ g.def.name \in Dunders \ AllowedDunders)

\* super and print are told by the name they are called by: print has no
\* effect by another.
EvaluateCall(n, c, s) ==
    Then(Callee(n.func, c, s), LAMBDA f, s1 :
    Then(Arguments(n.args, c, s1), LAMBDA args, s2 :
    Then(Each([i \in DOMAIN n.keywords |-> n.keywords[i].value], c, s2), LAMBDA vs, s3 :
        LET name == CalleeName(n.func)
        IN  CASE name = "super" -> EvaluateSuper(args, c, s3)
              [] name = "print" ->
                    Ok(None, Happens([e |-> "print", v |-> args, out |-> s3.envs[c].run], s3))
              [] name \notin {"super", "print"} /\ Unsafe(f) -> Refuse(s3)
              [] OTHER -> Invoke(f, args,
                    Match([i \in DOMAIN n.keywords |-> n.keywords[i].arg], vs), s3))))

-----------------------------------------------------------------------------
\* Assignments.

SetValue(target, v, c, s) ==
    CASE target.k = "name" ->
            IF target.id \in StaticTools THEN Refuse(s) ELSE Ok(None, Bind(c, target.id, v, s))
      [] target.k = "list" ->
            IF v.t = "list" /\ Len(target.elts) = Len(Items(v, s))
            THEN SetEach(target.elts, Items(v, s), c, s) ELSE Refuse(s)
      [] target.k = "subscript" ->
            Then(Eval(target.value, c, s), LAMBDA obj, s1 :
            Then(Eval(target.slice, c, s1), LAMBDA i, s2 : SetItem(obj, i, v, s2)))
      [] target.k = "attribute" ->
            Then(Eval(target.value, c, s), LAMBDA obj, s1 : SetAttr(obj, target.attr, v, s1))
      [] OTHER -> Refuse(s)
SetEach(targets, vs, c, s) ==
    IF targets = <<>> THEN Ok(None, s)
    ELSE Then(SetValue(Head(targets), Head(vs), c, s), LAMBDA x, s1 :
            SetEach(Tail(targets), Tail(vs), c, s1))

EvaluateAssign(n, c, s) ==
    Then(Eval(n.value, c, s), LAMBDA v, s1 :
    Then(SetEach(n.targets, [i \in DOMAIN n.targets |-> v], c, s1), LAMBDA x, s2 :
        Ok(v, s2)))

EvaluateAnnAssign(n, c, s) ==
    IF n.value = None THEN Ok(None, s)
    ELSE Then(Eval(n.value, c, s), LAMBDA v, s1 :
         Then(SetValue(n.target, v, c, s1), LAMBDA x, s2 : Ok(v, s2)))

CurrentValue(target, c, s) ==
    CASE target.k = "name" ->
            Ok(IF target.id \in DOMAIN Vars(c, s) THEN Vars(c, s)[target.id] ELSE Num(0), s)
      [] target.k = "subscript" ->
            Then(Eval(target.value, c, s), LAMBDA obj, s1 :
            Then(Eval(target.slice, c, s1), LAMBDA i, s2 :
                IF HasIndex(obj, i, s2) THEN Ok(Items(obj, s2)[i.n + 1], s2)
                ELSE Raise(BadIndex(obj, i), s2)))
      [] target.k = "attribute" ->
            Then(Eval(target.value, c, s), LAMBDA obj, s1 : GetAttr(obj, target.attr, s1))
      [] OTHER -> Refuse(s)

\* `+=`: a list is extended in place; the target is evaluated a second time
\* to store the result.
EvaluateAugAssign(n, c, s) ==
    Then(CurrentValue(n.target, c, s), LAMBDA old, s1 :
    Then(Eval(n.value, c, s1), LAMBDA v, s2 :
    Then(CASE old.t = "list" /\ v.t = "list" ->
                Ok(old, [s2 EXCEPT !.heap[old.at] = @ \o Items(v, s2)])
           [] old.t = "list" /\ v.t # "list" -> Refuse(s2)
           [] OTHER -> Add(old, v, s2), LAMBDA new, s3 :
    Then(SetValue(n.target, new, c, s3), LAMBDA x, s4 : Ok(new, s4)))))

EvaluateDelete(targets, c, s) ==
    IF targets = <<>> THEN Ok(None, s)
    ELSE Then(LET t == Head(targets) IN
              CASE t.k = "name" -> IF t.id \in DOMAIN Vars(c, s) THEN Ok(None, Unbind(c, t.id, s))
                                   ELSE Refuse(s)
                [] t.k = "subscript" ->
                      Then(Eval(t.value, c, s), LAMBDA obj, s1 :
                      Then(Eval(t.slice, c, s1), LAMBDA i, s2 :
                        IF HasIndex(obj, i, s2)
                        THEN Ok(None, [s2 EXCEPT !.heap[obj.at] = RemoveAt(@, i.n + 1)])
                        ELSE Refuse(s2)))
                [] OTHER -> Refuse(s),
              LAMBDA x, s1 : EvaluateDelete(Tail(targets), c, s1))

-----------------------------------------------------------------------------
\* Control.

EvaluateIf(n, c, s) ==
    Then(Eval(n.test, c, s), LAMBDA v, s1 :
        Lines(IF Truthy(v, s1) THEN n.body ELSE n.orelse, c, s1, None))

EvaluateFor(n, c, s) ==
    Then(Eval(n.iter, c, s), LAMBDA v, s1 :
        IF Iterable(v, n.k = "asyncfor") THEN ForEach(n, v, 1, c, s1, None)
        ELSE NotIterable(n.k = "asyncfor", s1))
ForEach(n, v, i, c, s, result) ==
    IF i > Len(Items(v, s)) THEN Ok(result, s)
    ELSE Then(SetValue(n.target, Items(v, s)[i], c, s), LAMBDA x, s1 :
        LET r == Lines(n.body, c, s1, result)
        IN  CASE r.sig = "Break" -> Ok(r.val, r.st)
              [] r.sig \in {"ok", "Continue"} -> ForEach(n, v, i + 1, c, r.st, r.val)
              [] OTHER -> r)

\* The bound is tested after a round.
EvaluateWhile(n, c, s) == WhileRound(n, 1, c, s)
WhileRound(n, i, c, s) ==
    Then(Eval(n.test, c, s), LAMBDA v, s1 :
        LET r == Statements(n.body, c, s1, None)
        IN  CASE ~Truthy(v, s1) -> Ok(None, s1)
              [] Truthy(v, s1) /\ r.sig = "Break" -> Ok(None, r.st)
              [] Truthy(v, s1) /\ r.sig \in {"ok", "Continue"} ->
                    IF i > MaxWhile THEN Refuse(r.st) ELSE WhileRound(n, i + 1, c, r.st)
              [] OTHER -> r)

EvaluateReturn(n, c, s) ==
    Then(Optional(n.value, c, s), LAMBDA v, s1 : [Raise("Return", s1) EXCEPT !.val = v])

\* The first handler that names no class or one the exception is an instance
\* of; r is the exception.
Handlers(hs, r, c, s) ==
    IF hs = <<>> THEN [r EXCEPT !.st = s]
    ELSE Then(Optional(Head(hs).type, c, s), LAMBDA ty, s1 :
            IF ty.t \notin {"none", "class", "type"} THEN Raise("TypeError", s1)
            ELSE IF ty = None \/ IsSubclass(TypeOf(Exception(r)), ty)
            THEN Statements(Head(hs).body, c,
                    IF Head(hs).name = "" THEN s1
                    ELSE Bind(c, Head(hs).name, Exception(r), s1), None)
            ELSE Handlers(Tail(hs), r, c, s1))


EvaluateTry(n, c, s) ==
    LET body == Statements(n.body, c, s, None)
        tried == CASE body.sig = "ok" -> Statements(n.orelse, c, body.st, None)
                   [] body.sig \in BaseOnly -> body
                   [] OTHER -> Handlers(n.handlers, body, c, body.st)
    IN  Then(Statements(n.finalbody, c, tried.st, None), LAMBDA v, s1 :
            IF tried.sig = "ok" THEN Ok(None, s1) ELSE [tried EXCEPT !.st = s1])

EvaluateRaise(n, c, s) ==
    Then(Optional(n.exc, c, s), LAMBDA v, s1 :
    Then(Optional(n.cause, c, s1), LAMBDA cause, s2 :
        CASE v = None -> Refuse(s2)
          [] OTHER -> RaiseValue(v, cause, s2, Invoke)))

EvaluateAssert(n, c, s) ==
    Then(Eval(n.test, c, s), LAMBDA v, s1 :
        IF Truthy(v, s1) THEN Ok(None, s1)
        ELSE Then(Optional(n.msg, c, s1), LAMBDA m, s2 : Raise("AssertionError", s2)))

\* The managers of a with statement, entered one after the other; ms are those
\* entered so far.
Enter(n, ms, c, s) ==
    IF Len(ms) = Len(n.items) THEN Ok(ms, s)
    ELSE LET item == n.items[Len(ms) + 1]
             m == Eval(item.expr, c, s)
             v == Then(m, LAMBDA x, s1 :
                    IF x.t = "cm" THEN EnterManager(x, s1)
                    ELSE Raise(IF n.k = "with" THEN "AttributeError" ELSE "InterpreterError", s1))
             set == Then(v, LAMBDA x, s1 :
                    IF item.as = None THEN Ok(None, s1) ELSE SetValue(item.as, x, c, s1))
         IN  CASE v.sig # "ok" -> Lose(ms, v)
               [] v.sig = "ok" /\ set.sig # "ok" -> Lose(Append(ms, m.val), set)
               [] OTHER -> Enter(n, Append(ms, m.val), c, set.st)

\* The exits on an exception, the last manager first: one may swallow it or
\* replace it by its own.
ExitOnError(ms, r) ==
    IF ms = <<>> THEN r
    ELSE LET x == ExitManager(Last(ms), r.sig, r.st)
         IN  ExitOnError(Front(ms),
                IF x.sig # "ok" THEN x
                ELSE IF x.val = Num(1) THEN Ok(None, x.st) ELSE [r EXCEPT !.st = x.st])

ExitAll(ms, s) ==
    IF ms = <<>> THEN Ok(None, s)
    ELSE LET r == ExitManager(Last(ms), "ok", s)
         IN  IF r.sig = "ok" THEN ExitAll(Front(ms), r.st) ELSE Lose(Front(ms), r)


EvaluateWith(n, c, s) ==
    Then(Enter(n, <<>>, c, s), LAMBDA ms, s1 :
        LET r == Statements(n.body, c, s1, None)
        IN  CASE r.sig = "ok" -> ExitAll(ms, r.st)
              [] r.sig \in BaseOnly -> Lose(ms, r)
              [] OTHER -> ExitOnError(ms, r))

-----------------------------------------------------------------------------
\* Definitions and imports.

\* A function goes to the executor's custom_tools, whatever the context.
EvaluateFunctionDef(n, c, s) ==
    LET f == [t |-> "fun", def |-> n, ctx |-> c]
    IN  Ok(f, [s EXCEPT !.tools = (n.name :> f) @@ @])

\* Expressions in a class body are evaluated over what it has bound so far.
ClassEval(e, dict, c, s) ==
    LET s1 == WithState(dict @@ Vars(c, s), c, s) IN Eval(e, Newest(s1), s1)

ClassTargets(targets, v, dict, c, s) ==
    IF targets = <<>> THEN Ok(dict, s)
    ELSE LET t == Head(targets)
         IN  CASE t.k = "name" -> ClassTargets(Tail(targets), v, (t.id :> v) @@ dict, c, s)
               [] t.k = "attribute" ->
                    Then(ClassEval(t.value, dict, c, s), LAMBDA obj, s1 :
                    Then(SetAttr(obj, t.attr, v, s1), LAMBDA x, s2 :
                        ClassTargets(Tail(targets), v, dict, c, s2)))
               [] OTHER -> Refuse(s)

\* An annotation without value binds nothing; its parts are evaluated.
ClassAnnotation(n, v, dict, c, s) ==
    LET t == n.target
    IN  CASE t.k = "name" ->
                Then(ClassEval(n.annotation, dict, c, s), LAMBDA a, s1 :
                    Ok((IF n.value = None THEN <<>> ELSE t.id :> v)
                       @@ ("__annotations__" :> Text) @@ dict, s1))
          [] t.k = "attribute" ->
                Then(ClassEval(t.value, dict, c, s), LAMBDA obj, s1 :
                Then(IF n.value = None THEN Ok(None, s1) ELSE SetAttr(obj, t.attr, v, s1),
                     LAMBDA x, s2 : Ok(dict, s2)))
          [] t.k = "subscript" ->
                Then(ClassEval(t.value, dict, c, s), LAMBDA obj, s1 :
                Then(ClassEval(t.slice, dict, c, s1), LAMBDA i, s2 :
                Then(IF n.value = None THEN Ok(None, s2) ELSE SetItem(obj, i, v, s2),
                     LAMBDA x, s3 : Ok(dict, s3))))

\* A class body is a list of definitions and assignments, headed by a docstring.
ClassBody(body, i, dict, c, s) ==
    IF i > Len(body) THEN Ok(dict, s)
    ELSE LET n == body[i]
             bound ==
                CASE n.k \in {"def", "asyncdef"} ->
                        Then(EvaluateFunctionDef(n, c, s), LAMBDA f, s1 :
                            Ok((n.name :> f) @@ dict, s1))
                  [] n.k = "annassign" ->
                        Then(IF n.value = None THEN Ok(None, s)
                             ELSE ClassEval(n.value, dict, c, s), LAMBDA v, s1 :
                            ClassAnnotation(n, v, dict, c, s1))
                  [] n.k = "assign" ->
                        Then(ClassEval(n.value, dict, c, s), LAMBDA v, s1 :
                            ClassTargets(n.targets, v, dict, c, s1))
                  [] n.k = "pass" -> Ok(dict, s)
                  [] n.k = "expr" /\ i = 1 /\ n.value = [k |-> "constant", v |-> Text] ->
                        Ok(("__doc__" :> Text) @@ dict, s)
                  [] OTHER -> Refuse(s)
         IN  Then(bound, LAMBDA d, s1 : ClassBody(body, i + 1, d, c, s1))

\* type(name, bases, dict), or what the class of a base that is no class makes
\* of these arguments.
NewClass(bases, dict, s) ==
    IF \E i \in DOMAIN bases : bases[i].t \notin {"type", "class"} THEN Raise("TypeError", s)
    ELSE Ok([t |-> "type", at |-> Len(s.heap) + 1,
             base |-> IF bases = <<>> THEN None ELSE bases[1]],
            [s EXCEPT !.heap = Append(@, dict)])

EvaluateClassDef(n, c, s) ==
    Then(Each(n.bases, c, s), LAMBDA bases, s1 :
    Then(ClassBody(n.body, 1, <<>>, c, s1), LAMBDA dict, s2 :
    Then(NewClass(bases, dict, s2), LAMBDA v, s3 : Ok(v, Bind(c, n.name, v, s3)))))

\* `import a.b` binds the alias or, without one, the dotted name.
ImportNames(names, c, s) ==
    IF names = <<>> THEN Ok(None, s)
    ELSE IF ~CheckImportAuthorized(Head(names).path) THEN Refuse(s)
    ELSE IF Head(names).path \notin Modules THEN Raise("ModuleNotFoundError", s)
    ELSE ImportNames(Tail(names), c,
            Bind(c, IF Head(names).as = "" THEN Head(names).dotted ELSE Head(names).as,
                 [t |-> "mod", path |-> Head(names).path], s))

\* `from a import *` and `from a import b as c`: the names before one that is
\* missing stay bound.
ImportMembers(names, path, c, s) ==
    IF names = <<>> THEN Ok(None, s)
    ELSE IF Head(names).name \notin Members(path) THEN Refuse(s)
    ELSE ImportMembers(Tail(names), path, c,
            Bind(c, Head(names).as, Member(path, Head(names).name), s))

EvaluateImport(n, c, s) ==
    CASE n.k = "import" -> ImportNames(n.names, c, s)
      [] n.k = "importfrom" /\ (n.level # 0 \/ ~CheckImportAuthorized(n.path)) -> Refuse(s)
      [] n.k = "importfrom" /\ n.level = 0 /\ CheckImportAuthorized(n.path)
            /\ n.path \notin Modules -> Raise("ModuleNotFoundError", s)
      [] OTHER -> ImportMembers(
            IF n.star THEN SetToSeq({[name |-> x, as |-> x] : x \in Members(n.path)})
            ELSE n.names, n.path, c, s)

-----------------------------------------------------------------------------
\* evaluate_ast and the executor.

Handler(n, c, s) ==
    CASE n.k = "constant" -> EvaluateConstant(n, c, s)
      [] n.k = "name" -> EvaluateName(n, c, s)
      [] n.k = "list" -> EvaluateList(n, c, s)
      [] n.k = "ifexp" -> EvaluateIfExp(n, c, s)
      [] n.k = "boolop" -> EvaluateBoolOp(n, c, s)
      [] n.k = "binop" -> EvaluateBinOp(n, c, s)
      [] n.k = "compare" -> EvaluateCondition(n, c, s)
      [] n.k = "subscript" -> EvaluateSubscript(n, c, s)
      [] n.k = "attribute" -> EvaluateAttribute(n, c, s)
      [] n.k = "lambda" -> EvaluateLambda(n, c, s)
      [] n.k = "comp" -> EvaluateComp(n, c, s)
      [] n.k = "call" -> EvaluateCall(n, c, s)
      [] n.k = "await" -> EvaluateAwait(n, c, s)
      [] n.k = "expr" -> Eval(n.value, c, s)
      [] n.k = "pass" -> Ok(None, s)
      [] n.k = "assign" -> EvaluateAssign(n, c, s)
      [] n.k = "annassign" -> EvaluateAnnAssign(n, c, s)
      [] n.k = "augassign" -> EvaluateAugAssign(n, c, s)
      [] n.k = "delete" -> EvaluateDelete(n.targets, c, s)
      [] n.k = "if" -> EvaluateIf(n, c, s)
      [] n.k \in {"for", "asyncfor"} -> EvaluateFor(n, c, s)
      [] n.k = "while" -> EvaluateWhile(n, c, s)
      [] n.k = "return" -> EvaluateReturn(n, c, s)
      [] n.k = "break" -> Raise("Break", s)
      [] n.k = "continue" -> Raise("Continue", s)
      [] n.k = "try" -> EvaluateTry(n, c, s)
      [] n.k = "raise" -> EvaluateRaise(n, c, s)
      [] n.k = "assert" -> EvaluateAssert(n, c, s)
      [] n.k \in {"with", "asyncwith"} -> EvaluateWith(n, c, s)
      [] n.k \in {"def", "asyncdef"} -> EvaluateFunctionDef(n, c, s)
      [] n.k = "classdef" -> EvaluateClassDef(n, c, s)
      [] n.k \in {"import", "importfrom"} -> EvaluateImport(n, c, s)
      [] OTHER -> Refuse(s)

\* Variant: the budget is refused when it is met, and not after.
EvalOnce(n, c, s) ==
    LET run == s.envs[c].run
        s1 == [s EXCEPT !.ops[run] = @ + 1]
    IN  IF s.ops[run] = s.budget THEN Refuse(s1)
        ELSE CheckSaferResult(Handler(n, c, s1))

\* increment_operations, on the counter the dict of the context refers to.
Eval(n, c, s) ==
    LET run == s.envs[c].run
    IN  IF s.ops[run] >= s.budget THEN Refuse(s)
        ELSE CheckSaferResult(Handler(n, c, [s EXCEPT !.ops[run] = @ + 1]))

\* The state of a new LocalPythonExecutor; budget is MAX_OPERATIONS.
NewExecutor(budget) ==
    [envs |-> << [vars |-> <<>>, run |-> 0] >>, heap |-> <<>>, tools |-> <<>>,
     ops |-> <<>>, budget |-> budget, world |-> <<>>, threads |-> 0, limit |-> "ahead"]

\* How a call ends: once the time limit has passed, whatever the code did, with
\* an ExecutionTimeoutError, raised when its thread is done.
Ended(r) ==
    [sig |-> CASE r.st.limit # "ahead" -> "ExecutionTimeoutError"
               [] r.st.limit = "ahead" /\ r.sig = "ok" -> "ok"
               [] r.st.limit = "ahead" /\ r.sig = "FinalAnswer" -> "final_answer"
               [] OTHER -> "InterpreterError",
     cause |-> r.sig, val |-> r.val, st |-> r.st]

\* Variants: the first PrintContainer is kept; the counter goes on counting.
EvaluatePythonCodeSamePrints(code, s) ==
    Ended(Statements(code, 1, [s EXCEPT !.ops = Append(@, 0), !.envs[1].run = 1], None))
EvaluatePythonCodeSameCounter(code, s) ==
    Ended(Statements(code, 1, [s EXCEPT !.ops = Append(@, IF @ = <<>> THEN 0 ELSE Last(@)),
                                        !.envs[1].run = Len(s.ops) + 1], None))

\* evaluate_python_code: code that does not parse is refused; else a new counter
\* and a new PrintContainer in the executor's dict, then the statements.
Unparsable == << [k |-> "syntax error"] >>
EvaluatePythonCode(code, s) ==
    IF code = Unparsable THEN Ended(Refuse([s EXCEPT !.limit = "ahead"]))
    ELSE Ended(Statements(code, 1, [s EXCEPT !.ops = Append(@, 0),
                                             !.envs[1].run = Len(s.ops) + 1,
                                             !.limit = "ahead"], None))

\* LocalPythonExecutor.send_variables
SendVariables(vars, s) == [s EXCEPT !.envs[1].vars = vars @@ @]
=============================================================================
