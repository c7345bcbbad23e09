-------------------------- MODULE PythonReference --------------------------
(***************************************************************************)
(* What Python itself does with the programs the interpreter accepts: the  *)
(* reference its handlers are compared with.  Scopes are chained and never *)
(* copied, control flow is not an exception, a with of several managers is *)
(* nested, functions are bound like any other name and their defaults are  *)
(* evaluated once.  Python is the one the project asks for, 3.14, with     *)
(* await at the top level, and imports that are not authorized fail.  The  *)
(* values, the objects, the host and the notation for results are          *)
(* Interpreter's; an operator here has the name of the one it is the       *)
(* reference for, with the prefix Py.                                      *)
(*                                                                         *)
(* The interpreter is known to depart from Python in the situations named  *)
(* in Departures.  The reference notes in the store which of them a        *)
(* program runs into; a program that runs into none is to have the same    *)
(* outcome in both.  Where the interpreter raises an error of another      *)
(* class than Python, the result tells both (Instead): that is a departure *)
(* once the program can see it.                                            *)
(***************************************************************************)
EXTENDS Interpreter

CONSTANT MaxScopes  \* bound: the scopes a program may open; deeper recursion is not compared

Departures == {
    "error_class",      \* an error of the interpreter's own class is handled, or a manager is
                        \* told of it, as Python's would not be
    "control_handler",  \* return, break or continue leaves a try that handles Exception
    "control_with",     \* ... or a with, whose managers are told an exception
    "base_with",        \* final_answer or the timeout leaves a with: nothing is exited
    "base_handler",     \* ... or a try with a bare except, which Python would run
    "enter_failed",     \* the managers entered before an item fails are not exited
    "exit_failed",      \* the managers outside one that fails to exit are not exited
    "catch_plain",      \* except with None or a class that is no exception
    "bare_raise",       \* raise without an exception does not re-raise
    "handler_name",     \* the name of a handled exception outlives its handler
    "loop_else",        \* the else of a loop is not run
    "while_bound",      \* a loop runs longer than the bound
    "default_late",     \* a default is evaluated at the call, or is hidden by a variable, and
                        \* that of a lambda is ignored
    "arity",            \* superfluous arguments are dropped, missing ones not reported, and a
                        \* lambda takes none by name
    "implicit_result",  \* a function that ends without return returns its last result
    "init_result",      \* __init__ may return a value
    "super_class",      \* super() starts from the class of self, not from the method's
    "def_hidden",       \* a variable or tool of the same name hides a function
    "def_leaks",        \* a function of an inner scope or a class is visible everywhere
    "unbound_local",    \* a local that is not bound yet is read from outside
    "undefined_aug",    \* += on an undefined name starts at 0
    "aug_twice",        \* += evaluates the parts of its target twice
    "tool_name",        \* the name of a tool cannot be assigned to
    "similar_name",     \* a misspelt name is read as a similar one
    "comp_closure",     \* a closure made in a comprehension keeps its round
    "class_scope",      \* a lambda or comprehension in a class body sees the body's names
    "class_body",       \* only definitions and assignments may stand in a class body
    "annotation",       \* an annotation in a class body is evaluated, and the target of one
                        \* without value is not
    "delete_kind",      \* only names and elements can be deleted
    "subscript_order",  \* an index is evaluated before what it indexes
    "call_order",       \* an element that cannot be called is refused before the arguments
    "callee_kind",      \* what is called must be a name, attribute, element, call or lambda
    "special_name",     \* print prints, and super is super, by this name and no other; print
                        \* ignores arguments by name
    "forbidden",        \* reserved attributes, builtin functions that are no tools and
                        \* modules that are not authorized are refused
    "dotted_import",    \* import a.b binds "a.b", not a
    "not_python",       \* code Python does not compile: return outside a function, break
                        \* outside a loop, await in a function that is not async
    "deep"}             \* none: recursion beyond the bound of the reference

Note(d, s) == [s EXCEPT !.notes = @ \cup {d}]
NoteIf(cond, d, s) == IF cond THEN Note(d, s) ELSE s

\* Python raises cls, the interpreter own.
Instead(cls, own, s) == [Raise(cls, s) EXCEPT !.val = [t |-> "own", cls |-> own]]
Refused(cls, s) == Instead(cls, "InterpreterError", s)
OwnClass(r) == IF r.val.t = "own" /\ r.sig \notin Control THEN r.val.cls ELSE r.sig

\* The scopes: vars, the names the scope binds somewhere, the scope around, of a
\* function its parameters and of a class, once it is made, the class.
PyScope(vars, locals, up, kind, s) ==
    [s EXCEPT !.envs = Append(@, [vars |-> vars, locals |-> locals, up |-> up, kind |-> kind,
                                  params |-> <<>>, cls |-> None, run |-> 1]),
              !.assigned = @ \cup DOMAIN vars]
PyNew(vars) ==
         [envs |-> << [vars |-> vars, locals |-> {}, up |-> 0, kind |-> "module",
                       params |-> <<>>, cls |-> None, run |-> 1] >>,
          heap |-> <<>>, world |-> <<>>, threads |-> 0, limit |-> "ahead", active |-> "",
          assigned |-> DOMAIN vars,     \* the names bound so far by anything but a def
          latest |-> <<>>,              \* the last function of each name, wherever defined
          notes |-> {}]
PyBind(c, id, v, s) == [Bind(c, id, v, s) EXCEPT !.assigned = @ \cup {id}]

RECURSIVE Targets(_), Binds(_), PyLookup(_, _, _), PyEval(_, _, _), PyEach(_, _, _),
          PyArguments(_, _, _), PyApply(_, _, _, _), PyBody(_, _, _), PySet(_, _, _, _),
          PySetEach(_, _, _, _), PyBoolOp(_, _, _), PyChain(_, _, _, _), PyComp(_, _, _, _),
          PyRounds(_, _, _, _, _, _), PyFilters(_, _, _), PyFor(_, _, _, _, _),
          PyWhile(_, _, _, _), PyHandlers(_, _, _, _), PyWith(_, _, _, _),
          PyImport(_, _, _), PyDelete(_, _, _)

\* The names a target or a body binds in its own scope.
Targets(t) == CASE t.k = "name" -> {t.id}
                [] t.k = "list" -> UNION {Targets(t.elts[i]) : i \in DOMAIN t.elts}
                [] OTHER -> {}
Imported(a) == IF a.as # "" THEN a.as ELSE a.path[1]
Binds(body) == UNION {
    LET n == body[i] IN
    CASE n.k = "assign" -> UNION {Targets(n.targets[j]) : j \in DOMAIN n.targets}
      [] n.k = "delete" -> UNION {Targets(n.targets[j]) : j \in DOMAIN n.targets}
      [] n.k \in {"annassign", "augassign"} -> Targets(n.target)
      [] n.k \in {"def", "asyncdef", "classdef"} -> {n.name}
      [] n.k = "import" -> {Imported(n.names[j]) : j \in DOMAIN n.names}
      [] n.k = "importfrom" -> {n.names[j].as : j \in DOMAIN n.names}
      [] n.k \in {"if", "while"} -> Binds(n.body) \cup Binds(n.orelse)
      [] n.k \in {"for", "asyncfor"} -> Targets(n.target) \cup Binds(n.body) \cup Binds(n.orelse)
      [] n.k \in {"with", "asyncwith"} ->
            Binds(n.body) \cup UNION {Targets(n.items[j].as) :
                                        j \in {j \in DOMAIN n.items : n.items[j].as # None}}
      [] n.k = "try" -> Binds(n.body) \cup Binds(n.orelse) \cup Binds(n.finalbody)
                        \cup UNION {Binds(n.handlers[j].body) \cup {n.handlers[j].name} :
                                        j \in DOMAIN n.handlers}
      [] OTHER -> {} : i \in DOMAIN body}

\* The scope a name is found in, or 0.  A class is skipped from inside.
Up(c, s) == LET up == s.envs[c].up
            IN  IF up # 0 /\ s.envs[up].kind = "class" THEN s.envs[up].up ELSE up
Owns(c, id, s) == id \in DOMAIN Vars(c, s) \cup s.envs[c].locals
PyLookup(id, c, s) == IF c = 0 \/ Owns(c, id, s) THEN c ELSE PyLookup(id, Up(c, s), s)

PyName(id, c, s) ==
    LET at == PyLookup(id, c, s)
        bound == at # 0 /\ id \in DOMAIN Vars(at, s)
        leaks(v) == NoteIf(id \in DOMAIN s.latest /\
                        (v = None \/ (v.t = "fun" /\ v.def.name = id /\ v # s.latest[id])),
                        "def_leaks", s)
    IN  CASE bound -> Ok(Vars(at, s)[id], leaks(Vars(at, s)[id]))
          [] at # 0 /\ ~bound -> Refused(IF at = c THEN "UnboundLocalError" ELSE "NameError",
                                        Note("unbound_local", s))
          [] at = 0 /\ id \in StaticTools -> Ok(Tool(id), s)
          [] at = 0 /\ id \in Errors -> Ok(Class(id), leaks(None))
          [] OTHER -> Refused("NameError",
                        NoteIf(\E p \in Similar : p[1] = id, "similar_name", leaks(None)))

PyEach(nodes, c, s) ==
    IF nodes = <<>> THEN Ok(<<>>, s)
    ELSE Then(PyEval(Head(nodes), c, s), LAMBDA v, s1 :
         Then(PyEach(Tail(nodes), c, s1), LAMBDA vs, s2 : Ok(<<v>> \o vs, s2)))

\* The value is that of the last statement, if that is an expression.
PyBody(body, c, s) ==
    IF body = <<>> THEN Ok(None, s)
    ELSE Then(PyEval(Head(body), c, s), LAMBDA v, s1 :
            IF Len(body) = 1 THEN Ok(v, s1) ELSE PyBody(Tail(body), c, s1))

PyOptional(n, c, s) == IF n = None THEN Ok(None, s) ELSE PyEval(n, c, s)

PyBoolOp(n, c, s) ==
    Then(PyEval(Head(n.values), c, s), LAMBDA v, s1 :
        IF Len(n.values) > 1 /\ (IF n.op = "or" THEN ~Truthy(v, s1) ELSE Truthy(v, s1))
        THEN PyBoolOp([n EXCEPT !.values = Tail(@)], c, s1) ELSE Ok(v, s1))

\* a < b < c means a < b and b < c, b evaluated once.
PyChain(rest, left, c, s) ==
    IF rest = <<>> THEN Ok(Num(1), s)
    ELSE Then(PyEval(rest[1].right, c, s), LAMBDA right, s1 :
        IF ~(left.t = "num" /\ right.t = "num") THEN Raise("TypeError", s1)
        ELSE IF left.n < right.n THEN PyChain(Tail(rest), right, c, s1) ELSE Ok(Num(0), s1))

PyIndex(v, i, s) ==
    IF HasIndex(v, i, s) THEN Ok(Items(v, s)[i.n + 1], s) ELSE Raise(BadIndex(v, i), s)

PyFilters(ifs, c, s) ==
    IF ifs = <<>> THEN Ok(TRUE, s)
    ELSE Then(PyEval(ifs[1], c, s), LAMBDA v, s1 :
            IF Truthy(v, s1) THEN PyFilters(Tail(ifs), c, s1) ELSE Ok(FALSE, s1))

PyIterable(v, async, s) == IF Iterable(v, async) THEN Ok(v, s)
                           ELSE IF async THEN Refused("TypeError", s) ELSE Raise("TypeError", s)

\* A comprehension has one scope of its own for all its rounds; what it iterates
\* over first is evaluated outside.
PyComp(gens, elt, c, s) ==
    IF gens = <<>> THEN Then(PyEval(elt, c, s), LAMBDA v, s1 : Ok(<<v>>, s1))
    ELSE Then(PyEval(gens[1].iter, c, s), LAMBDA v, s1 :
         Then(PyIterable(v, gens[1].async, s1), LAMBDA w, s2 : PyRounds(gens, elt, v, 1, c, s2)))
PyRounds(gens, elt, v, i, c, s) ==
    IF i > Len(Items(v, s)) THEN Ok(<<>>, s)
    ELSE Then(PySet(gens[1].target, Items(v, s)[i], c, s), LAMBDA x, s1 :
         Then(PyFilters(gens[1].ifs, c, s1), LAMBDA pass, s2 :
         Then(IF pass THEN PyComp(Tail(gens), elt, c, s2) ELSE Ok(<<>>, s2), LAMBDA vs, s3 :
         Then(PyRounds(gens, elt, v, i + 1, c, s3), LAMBDA rest, s4 : Ok(vs \o rest, s4)))))
PyCompIn(n, c, s) ==
    LET inner(s1) == PyScope(<<>>, {}, c, "comp", NoteIf(s.envs[c].kind = "class", "class_scope", s1))
    IN  Then(PyEval(n.gens[1].iter, c, s), LAMBDA v, s1 :
        Then(PyIterable(v, n.gens[1].async, s1), LAMBDA w, s2 :
        Then(PyRounds(n.gens, n.elt, v, 1, Len(s2.envs) + 1, inner(s2)), LAMBDA vs, s3 :
            NewList(vs, s3))))

\* The value of each parameter: given by position or by name, or its default.
PyBound(f, args, kwargs, s) ==
    LET params == f.def.params
        first == Len(params) - Len(f.defaults)
    IN  [x \in Range(params) |->
            LET i == CHOOSE i \in DOMAIN params : params[i] = x
            IN  CASE x \in DOMAIN kwargs -> kwargs[x]
                  [] x \notin DOMAIN kwargs /\ i <= Len(args) -> args[i]
                  [] x \notin DOMAIN kwargs /\ i > Len(args) /\ i > first -> f.defaults[i - first]
                  [] OTHER -> None]

\* The statements that give no value, in the interpreter either.
Silent == {"pass", "while", "try", "with", "asyncwith", "delete", "assert", "import", "importfrom"}

PyReturned(f, r) ==
    LET last == Last(f.def.body)
    IN  CASE r.sig = "Return" ->
                Ok(r.val, NoteIf(f.def.name = "__init__" /\ r.val # None, "init_result", r.st))
          [] r.sig = "ok" ->
                Ok(None, NoteIf(/\ f.def.name # "__init__"
                                /\ last.k \notin Silent /\ (last.k # "expr" \/ r.val # None),
                                "implicit_result", r.st))
          [] r.sig \in {"Break", "Continue"} -> [r EXCEPT !.st = Note("not_python", @)]
          [] OTHER -> r

PyCall(f, args, kwargs, s) ==
    LET params == f.def.params
        missing == {i \in DOMAIN params : i > Len(args) /\ params[i] \notin DOMAIN kwargs}
        wrong == \/ Len(args) > Len(params)
                 \/ \E i \in missing : i <= Len(params) - Len(f.defaults)
                 \/ \E x \in DOMAIN kwargs :
                        x \notin {params[i] : i \in DOMAIN params \ DOMAIN args}
        s1 == NoteIf(wrong \/ (f.t = "lambda" /\ DOMAIN kwargs # {}), "arity",
              NoteIf(\E i \in missing : PyLookup(params[i], f.ctx, s) # 0, "default_late", s))
        locals == Range(params) \cup (IF f.t = "lambda" THEN {} ELSE Binds(f.def.body))
        kind == CASE f.t = "lambda" -> "lambda"
                  [] f.t = "fun" /\ f.def.k = "asyncdef" -> "coroutine"
                  [] OTHER -> "function"
        inner == Len(s.envs) + 1
        s2 == [PyScope(PyBound(f, args, kwargs, s), locals, f.ctx, kind, s1)
               EXCEPT !.envs[inner].params = params]
    IN  IF inner > MaxScopes THEN Refuse(Note("deep", s1))
        ELSE IF wrong THEN Raise("TypeError", s1)
        ELSE IF f.t = "lambda" THEN PyEval(f.def.body, inner, s2)
        ELSE PyReturned(f, PyBody(f.def.body, inner, s2))

PyApply(f, args, kwargs, s) ==
    CASE f = Tool("print") ->
            Ok(None, Happens([e |-> "print", v |-> args, out |-> 1],
                        NoteIf(DOMAIN kwargs # {}, "special_name", s)))
      [] f.t = "fun" /\ f.def.k = "asyncdef" ->
            NewCoroutine([t |-> "coro", fun |-> f, args |-> args, kwargs |-> kwargs], s)
      [] f.t = "lambda" \/ (f.t = "fun" /\ f.def.k = "def") -> PyCall(f, args, kwargs, s)
      [] f.t = "bound" -> PyApply(f.fun, <<f.self>> \o args, kwargs, s)
      [] f.t = "type" -> Construct(f, args, kwargs, s, PyApply)
      [] f.t = "init" -> CallInit(f, args, kwargs, s)
      [] f.t = "tool" /\ f # Tool("print") /\ DOMAIN kwargs = {} -> CallTool(f.id, args, s)
      [] f.t = "class" /\ DOMAIN kwargs = {} -> Ok([t |-> "exc", cls |-> f.cls], s)
      [] OTHER -> Raise("TypeError", s)

\* super() belongs to the class the method stands in, and to its first argument.
PySuper(args, c, s) ==
    LET env == s.envs[c]
        cell == IF env.up = 0 THEN None ELSE s.envs[env.up].cls
        method == env.kind = "function" /\ cell # None /\ env.params # <<>>
        self == env.vars[env.params[1]]
    IN  CASE args = <<>> /\ method ->
                Super(cell, self, NoteIf(env.params[1] # "self" \/ TypeOf(self) # cell,
                                         "super_class", s))
          [] args = <<>> /\ ~method ->
                Refused("RuntimeError", NoteIf(PyLookup("self", c, s) # 0, "super_class", s))
          [] args # <<>> /\ args[1].t \in {"type", "class"} /\ Len(args) = 1 ->
                Ok([t |-> "super", cls |-> args[1], self |-> None], s)
          [] args # <<>> /\ args[1].t \in {"type", "class"} /\ Len(args) = 2 ->
                Super(args[1], args[2], s)
          [] OTHER -> Refused("TypeError", s)

PySet(target, v, c, s) ==
    CASE target.k = "name" ->
            Ok(None, PyBind(c, target.id, v, NoteIf(target.id \in StaticTools, "tool_name", s)))
      [] target.k = "list" ->
            IF v.t # "list" THEN Refused("TypeError", s)
            ELSE IF Len(target.elts) # Len(Items(v, s)) THEN Refused("ValueError", s)
            ELSE PySetEach(target.elts, Items(v, s), c, s)
      [] target.k = "subscript" ->
            Then(PyEval(target.value, c, s), LAMBDA obj, s1 :
            Then(PyEval(target.slice, c, s1), LAMBDA i, s2 : SetItem(obj, i, v, s2)))
      [] target.k = "attribute" ->
            Then(PyEval(target.value, c, s), LAMBDA obj, s1 : SetAttr(obj, target.attr, v, s1))
PySetEach(targets, vs, c, s) ==
    IF targets = <<>> THEN Ok(None, s)
    ELSE Then(PySet(targets[1], vs[1], c, s), LAMBDA x, s1 :
            PySetEach(Tail(targets), Tail(vs), c, s1))

Simple(n) == n.k \in {"name", "constant"}

PyPlus(old, v, s) ==
    CASE old.t = "list" /\ v.t = "list" -> Ok(old, [s EXCEPT !.heap[old.at] = @ \o Items(v, s)])
      [] old.t = "list" /\ v.t # "list" -> Refused("TypeError", s)
      [] OTHER -> Add(old, v, s)

PyAug(n, c, s) ==
    LET t == n.target
        plus(old, s1) == Then(PyEval(n.value, c, s1), LAMBDA v, s2 : PyPlus(old, v, s2))
    IN  CASE t.k = "name" ->
                Then(IF t.id \in DOMAIN Vars(c, s) THEN Ok(Vars(c, s)[t.id], s)
                     ELSE Refused("NameError", Note("undefined_aug", s)), LAMBDA old, s1 :
                Then(plus(old, NoteIf(t.id \in DOMAIN s1.latest, "def_hidden", s1)),
                     LAMBDA new, s2 : PySet(t, new, c, s2)))
          [] t.k = "subscript" ->
                Then(PyEach(<<t.value, t.slice>>, c,
                        NoteIf(~Simple(t.value) \/ ~Simple(t.slice), "aug_twice", s)), LAMBDA vs, s1 :
                Then(PyIndex(vs[1], vs[2], s1), LAMBDA old, s2 :
                Then(plus(old, s2), LAMBDA new, s3 : SetItem(vs[1], vs[2], new, s3))))
          [] t.k = "attribute" ->
                Then(PyEval(t.value, c, NoteIf(~Simple(t.value), "aug_twice", s)), LAMBDA obj, s1 :
                Then(GetAttr(obj, t.attr, s1), LAMBDA old, s2 :
                Then(plus(old, s2), LAMBDA new, s3 : SetAttr(obj, t.attr, new, s3))))

\* A loop: break skips its else, continue starts the next round.
PyFor(n, v, i, c, s) ==
    IF i > Len(Items(v, s)) THEN PyBody(n.orelse, c, NoteIf(n.orelse # <<>>, "loop_else", s))
    ELSE Then(PySet(n.target, Items(v, s)[i], c, s), LAMBDA x, s1 :
        LET r == PyBody(n.body, c, s1)
        IN  IF r.sig = "Break" THEN Ok(None, r.st)
            ELSE IF r.sig \in {"ok", "Continue"} THEN PyFor(n, v, i + 1, c, r.st) ELSE r)

PyWhile(n, i, c, s) ==
    Then(PyEval(n.test, c, s), LAMBDA v, s1 :
        IF ~Truthy(v, s1) THEN PyBody(n.orelse, c, NoteIf(n.orelse # <<>>, "loop_else", s1))
        ELSE LET r == PyBody(n.body, c, s1)
             IN  IF r.sig = "Break" THEN Ok(None, r.st)
                 ELSE IF r.sig \notin {"ok", "Continue"} THEN r
                 ELSE IF i > MaxWhile + 2 THEN Refuse(r.st)
                 ELSE PyWhile(n, i + 1, c, NoteIf(i > MaxWhile, "while_bound", r.st)))

\* The first handler that catches the exception r, in Python.
PyHandlers(hs, r, c, s) ==
    IF hs = <<>> THEN [r EXCEPT !.st = s]
    ELSE LET h == hs[1]
             type == IF h.type = None THEN Ok(Class("BaseException"), s) ELSE PyEval(h.type, c, s)
         IN  Then([type EXCEPT !.st = NoteIf(type.sig # "ok" /\ r.sig \in BaseOnly, "base_handler", @)],
             LAMBDA ty, s1 :
             LET catches == IsSubclass(TypeOf(Exception(r)), ty)
                 seen == NoteIf(catches # IsSubclass(TypeOf(Exception([r EXCEPT !.sig = OwnClass(r)])), ty),
                                "error_class",
                         NoteIf(catches /\ r.sig \in BaseOnly, "base_handler",
                         NoteIf(catches /\ h.name # "", "handler_name", s1)))
             IN  IF ty.t \notin {"class", "type"} \/ ~IsException(ty)
                 THEN Raise("TypeError", NoteIf(ty.t \in {"none", "type"} \/ r.sig \in BaseOnly,
                                                "catch_plain", s1))
                 ELSE IF ~catches THEN PyHandlers(Tail(hs), r, c, seen)
                 ELSE [PyBody(h.body, c, [(IF h.name = "" THEN seen
                                           ELSE PyBind(c, h.name, Exception(r), seen))
                                          EXCEPT !.active = r.sig])
                       EXCEPT !.st.active = s.active])

\* Only an exception is handled; return, break and continue pass.
PyTry(n, c, s) ==
    LET body == PyBody(n.body, c, s)
        every(h) == h.type = None \/ h.type.k # "name"
                    \/ h.type.id \notin Errors \ {"Exception", "BaseException"}
        tried == CASE body.sig = "ok" -> PyBody(n.orelse, c, body.st)
                   [] body.sig \in Control ->
                        [body EXCEPT !.st = NoteIf(\E i \in DOMAIN n.handlers : every(n.handlers[i]),
                                                   "control_handler", @)]
                   [] OTHER -> PyHandlers(n.handlers, body, c, body.st)
    IN  Then(PyBody(n.finalbody, c, tried.st), LAMBDA v, s1 :
            IF tried.sig = "ok" THEN Ok(None, s1) ELSE [tried EXCEPT !.st = s1])

\* Leaving a manager with the result r of what it protects; outer says that
\* there are managers around it.
PyLeave(m, outer, r) ==
    LET seen == NoteIf(OwnClass(r) # r.sig, "error_class",
                NoteIf(r.sig \in Control, "control_with",
                NoteIf(r.sig \in BaseOnly, "base_with", r.st)))
        x == ExitManager(m, IF r.sig \in Control THEN "ok" ELSE r.sig, seen)
    IN  CASE x.sig # "ok" ->
                [x EXCEPT !.st = NoteIf(outer /\ r.sig = "ok", "exit_failed", @)]
          [] x.sig = "ok" /\ x.val = Num(1) /\ r.sig \notin Control -> Ok(None, x.st)
          [] OTHER -> [r EXCEPT !.st = x.st]

\* with a, b: is with a: with b:.  The target is set, and the rest run, inside
\* the protection of a; a is exited whatever happens.
PyWith(n, i, c, s) ==
    LET failed(r) == IF r.sig = "ok" \/ i = 1 THEN r
                     ELSE [r EXCEPT !.st = Note("enter_failed", @)]
    IN  IF i > Len(n.items) THEN PyBody(n.body, c, s)
        ELSE Then(failed(PyEval(n.items[i].expr, c, s)), LAMBDA m, s1 :
             Then(failed(IF m.t = "cm" THEN EnterManager(m, s1)
                         ELSE Instead("TypeError", IF n.k = "with" THEN "AttributeError"
                                                   ELSE "InterpreterError", s1)), LAMBDA v, s2 :
                LET r == IF n.items[i].as = None THEN Ok(None, s2)
                         ELSE PySet(n.items[i].as, v, c, s2)
                IN  PyLeave(m, i > 1,
                        IF r.sig = "ok" THEN PyWith(n, i + 1, c, r.st)
                        ELSE [r EXCEPT !.st = Note("enter_failed", @)])))

\* A def or a class binds its name where it stands.
PyDef(n, c, s) ==
    Then(PyEach(n.defaults, c,
                NoteIf(\E i \in DOMAIN n.defaults : n.defaults[i].k # "constant",
                       "default_late", s)), LAMBDA ds, s1 :
        LET f == [t |-> "fun", def |-> n, ctx |-> c, defaults |-> ds]
        IN  Ok(f, [Bind(c, n.name, f, NoteIf(n.name \in s1.assigned \cup StaticTools,
                                             "def_hidden", s1))
                   EXCEPT !.latest = (n.name :> f) @@ @]))

PyClass(n, c, s) ==
    LET doc == [k |-> "constant", v |-> Text]
        headed == n.body # <<>> /\ n.body[1].k = "expr" /\ n.body[1].value = doc
        odd(m) == \/ m.k \notin {"def", "asyncdef", "assign", "annassign", "pass"}
                  \/ m.k = "assign" /\ \E i \in DOMAIN m.targets :
                                            m.targets[i].k \notin {"name", "attribute"}
        scope(s1) == PyScope(IF headed THEN "__doc__" :> Text ELSE <<>>, {}, c, "class",
                        NoteIf(\E i \in DOMAIN n.body : odd(n.body[i]) /\ ~(headed /\ i = 1),
                               "class_body", s1))
    IN  Then(PyEach(n.bases, c, s), LAMBDA bases, s1 :
        LET inner == Len(s1.envs) + 1
        IN  Then(PyBody(n.body, inner, scope(s1)), LAMBDA v, s2 :
            Then(NewClass(bases, Vars(inner, s2), s2), LAMBDA cls, s3 :
                Ok(cls, [PyBind(c, n.name, cls, s3) EXCEPT !.envs[inner].cls = cls]))))

\* The annotation itself is never looked at.
PyAnnAssign(n, c, s) ==
    LET class == s.envs[c].kind = "class"
        s1 == NoteIf(n.target.k # "name" \/ (class /\ n.annotation.k # "constant"), "annotation", s)
    IN  IF n.value = None THEN Ok(None, s1)
        ELSE Then(PyEval(n.value, c, s1), LAMBDA v, s2 : PySet(n.target, v, c, s2))

\* A module is authorized with everything above it, and "a.*" stands for all
\* that is below a.
PyAuthorized(path) ==
    \E a \in Authorized : \/ IsPrefix(path, a)
                          \/ Last(a) = "*" /\ IsPrefix(Front(a), path)

\* import a.b binds a; import a.b as x binds the module a.b.
PyImport(names, c, s) ==
    IF names = <<>> THEN Ok(None, s)
    ELSE IF ~PyAuthorized(names[1].path) THEN Refused("ImportError", s)
    ELSE IF names[1].path \notin Modules THEN Raise("ModuleNotFoundError", s)
    ELSE PyImport(Tail(names), c,
            IF names[1].as # ""
            THEN PyBind(c, names[1].as, [t |-> "mod", path |-> names[1].path], s)
            ELSE PyBind(c, names[1].path[1], [t |-> "mod", path |-> SubSeq(names[1].path, 1, 1)],
                        NoteIf(Len(names[1].path) > 1, "dotted_import", s)))

PyImportFrom(n, c, s) ==
    LET names == IF n.star THEN SetToSeq({[name |-> x, as |-> x] : x \in Members(n.path)})
                 ELSE n.names
        missing == {i \in DOMAIN names : names[i].name \notin Members(n.path)}
        found == IF missing = {} THEN names
                 ELSE SubSeq(names, 1, (CHOOSE i \in missing : \A j \in missing : i <= j) - 1)
        s1 == NoteIf(n.star /\ s.envs[c].kind # "module", "not_python", s)
    IN  CASE n.level # 0 \/ ~PyAuthorized(n.path) -> Refused("ImportError", s1)
          [] n.level = 0 /\ PyAuthorized(n.path) /\ n.path \notin Modules ->
                Raise("ModuleNotFoundError", s1)
          [] OTHER -> LET s2 == PySetEach([i \in DOMAIN found |-> [k |-> "name", id |-> found[i].as]],
                                  [i \in DOMAIN found |-> Member(n.path, found[i].name)], c, s1).st
                      IN  IF missing = {} THEN Ok(None, s2) ELSE Refused("ImportError", s2)

PyDelete(targets, c, s) ==
    IF targets = <<>> THEN Ok(None, s)
    ELSE Then(LET t == targets[1] IN
              CASE t.k = "name" /\ t.id \in DOMAIN Vars(c, s) ->
                    Ok(None, Unbind(c, t.id, NoteIf(t.id \in DOMAIN s.latest, "def_hidden", s)))
                [] t.k = "name" /\ t.id \notin DOMAIN Vars(c, s) ->
                    Refused("NameError", NoteIf(c # 1, "unbound_local", s))
                [] t.k = "subscript" ->
                    Then(PyEach(<<t.value, t.slice>>, c, s), LAMBDA vs, s1 :
                        IF HasIndex(vs[1], vs[2], s1)
                        THEN Ok(None, [s1 EXCEPT !.heap[vs[1].at] = RemoveAt(@, vs[2].n + 1)])
                        ELSE Refused(BadIndex(vs[1], vs[2]), s1))
                [] t.k = "attribute" ->
                    Then(PyEval(t.value, c, Note("delete_kind", s)), LAMBDA v, s1 :
                        IF v.t \in {"obj", "type"} /\ t.attr \in DOMAIN s1.heap[v.at]
                        THEN Ok(None, [s1 EXCEPT !.heap[v.at] =
                                            [x \in DOMAIN @ \ {t.attr} |-> @[x]]])
                        ELSE Raise("AttributeError", s1))
                [] t.k = "list" -> PyDelete(t.elts, c, Note("delete_kind", s))
                [] OTHER -> Refuse(Note("not_python", s)),
              LAMBDA x, s1 : PyDelete(Tail(targets), c, s1))

\* An attribute with a reserved name may be called (PyCallNotes), not read.
PyCallee(f, c, s) ==
    CASE f.k = "attribute" ->
            Then(PyEval(f.value, c, s), LAMBDA v, s1 :
                LET r == GetAttr(v, f.attr, s1)
                IN  IF r.sig = "ok" THEN Ok(r.val, NoteIf(Forbidden(r.val), "forbidden", s1))
                    ELSE Refused("AttributeError", s1))
      [] f = [k |-> "name", id |-> "super"] /\ PyLookup("super", c, s) = 0 ->
            Ok(Builtin("super"), s)
      [] OTHER -> PyEval(f, c, s)

PyArguments(nodes, c, s) ==
    IF nodes = <<>> THEN Ok(<<>>, s)
    ELSE LET starred == nodes[1].k = "starred"
         IN  Then(PyEval(IF starred THEN nodes[1].value ELSE nodes[1], c, s), LAMBDA v, s1 :
             Then(IF starred THEN PyIterable(v, FALSE, s1) ELSE Ok(v, s1), LAMBDA w, s2 :
             Then(PyArguments(Tail(nodes), c, s2), LAMBDA vs, s3 :
                Ok((IF starred THEN Items(v, s2) ELSE <<v>>) \o vs, s3))))

\* f, args and kwargs are what the call n consists of.
PyCallNotes(n, f, s) ==
    NoteIf(n.func.k \notin {"name", "attribute", "call", "lambda", "subscript"}, "callee_kind",
    NoteIf(n.func.k = "subscript" /\ ~Callable(f) /\ n.args # <<>>, "call_order",
    NoteIf(\/ (f = Tool("print")) # (CalleeName(n.func) = "print")
           \/ (f = Builtin("super")) # (CalleeName(n.func) = "super"), "special_name",
    NoteIf(Unsafe(f) /\ f # Builtin("super"), "forbidden", s))))
PyCallExpr(n, c, s) ==
    Then(PyCallee(n.func, c, s), LAMBDA f, s1 :
    Then(PyArguments(n.args, c, PyCallNotes(n, f, s1)), LAMBDA args, s2 :
    Then(PyEach([i \in DOMAIN n.keywords |-> n.keywords[i].value], c, s2), LAMBDA ws, s3 :
        CASE f = Builtin("super") -> PySuper(args, c, s3)
          [] n.func.k = "subscript" /\ ~Callable(f) -> Refused("TypeError", s3)
          [] OTHER -> PyApply(f, args, Match([i \in DOMAIN n.keywords |-> n.keywords[i].arg], ws),
                              s3))))

\* Whether await may stand in a scope.
Async(c, s) == LET env == s.envs[c]
                   kind == IF env.kind = "comp" THEN s.envs[env.up].kind ELSE env.kind
               IN  kind \in {"module", "coroutine"}

PyAwait(n, c, s) ==
    Then(PyEval(n.value, c, s), LAMBDA v, s1 :
        CASE v.t \notin {"coro", "pending"} -> Refused("TypeError", s1)
          [] v.t \in {"coro", "pending"} /\ Items(v, s1) # <<>> -> Raise("RuntimeError", s1)
          [] v.t = "pending" /\ Items(v, s1) = <<>> -> AwaitTool(v.id, Awaited(v, s1))
          [] OTHER -> PyCall(v.fun, v.args, v.kwargs, Awaited(v, s1)))

PyRaise(n, c, s) ==
    Then(PyOptional(n.exc, c, s), LAMBDA v, s1 :
    Then(PyOptional(n.cause, c, s1), LAMBDA cause, s2 :
        CASE n.exc = None /\ s.active = "" -> Refused("RuntimeError", s2)
          [] n.exc = None /\ s.active # "" -> Raise(s.active, Note("bare_raise", s2))
          [] n.exc # None /\ v = None -> Refused("TypeError", s2)
          [] OTHER -> RaiseValue(v, cause, s2, PyApply)))

PyEvaluate(n, c, s) ==
    CASE n.k = "constant" -> Ok(n.v, s)
      [] n.k = "name" -> PyName(n.id, c, s)
      [] n.k = "list" -> Then(PyEach(n.elts, c, s), LAMBDA vs, s1 : NewList(vs, s1))
      [] n.k = "ifexp" -> Then(PyEval(n.test, c, s), LAMBDA v, s1 :
                             IF Truthy(v, s1) THEN PyEval(n.body, c, s1)
                             ELSE PyEval(n.orelse, c, s1))
      [] n.k = "boolop" -> PyBoolOp(n, c, s)
      [] n.k = "binop" -> Then(PyEach(<<n.left, n.right>>, c, s), LAMBDA vs, s1 :
                             Add(vs[1], vs[2], s1))
      [] n.k = "compare" -> Then(PyEval(n.left, c, s), LAMBDA v, s1 : PyChain(n.rest, v, c, s1))
      [] n.k = "subscript" ->
            Then(PyEach(<<n.value, n.slice>>, c,
                    NoteIf(~Simple(n.value) \/ ~Simple(n.slice), "subscript_order", s)),
                 LAMBDA vs, s1 : LET r == PyIndex(vs[1], vs[2], s1)
                                 IN  IF r.sig = "ok" THEN r ELSE Refused(r.sig, s1))
      [] n.k = "attribute" -> Then(PyEval(n.value, c, NoteIf(n.attr \in Dunders, "forbidden", s)),
                                   LAMBDA v, s1 : GetAttr(v, n.attr, s1))
      [] n.k = "lambda" -> Then(PyEach(n.defaults, c, s), LAMBDA ds, s1 :
            Ok([t |-> "lambda", def |-> n, ctx |-> c, defaults |-> ds],
               NoteIf(ds # <<>>, "default_late",
               NoteIf(s.envs[c].kind = "comp", "comp_closure",
               NoteIf(s.envs[c].kind = "class", "class_scope", s1)))))
      [] n.k = "comp" -> PyCompIn(n, c, s)
      [] n.k = "call" -> PyCallExpr(n, c, s)
      [] n.k = "await" -> PyAwait(n, c, s)
      [] n.k = "expr" -> PyEval(n.value, c, s)
      [] n.k = "pass" -> Ok(None, s)
      [] n.k = "assign" -> Then(PyEval(n.value, c, s), LAMBDA v, s1 :
            PySetEach(n.targets, [i \in DOMAIN n.targets |-> v], c, s1))
      [] n.k = "annassign" -> PyAnnAssign(n, c, s)
      [] n.k = "augassign" -> PyAug(n, c, s)
      [] n.k = "delete" -> PyDelete(n.targets, c, s)
      [] n.k = "if" -> Then(PyEval(n.test, c, s), LAMBDA v, s1 :
            IF Truthy(v, s1) THEN PyBody(n.body, c, s1) ELSE PyBody(n.orelse, c, s1))
      [] n.k \in {"for", "asyncfor"} -> Then(PyEval(n.iter, c, s), LAMBDA v, s1 :
            Then(PyIterable(v, n.k = "asyncfor", s1), LAMBDA w, s2 : PyFor(n, v, 1, c, s2)))
      [] n.k = "while" -> PyWhile(n, 1, c, s)
      [] n.k = "return" -> Then(PyOptional(n.value, c, s), LAMBDA v, s1 :
                             [Raise("Return", s1) EXCEPT !.val = v])
      [] n.k = "break" -> Raise("Break", s)
      [] n.k = "continue" -> Raise("Continue", s)
      [] n.k = "try" -> PyTry(n, c, s)
      [] n.k = "raise" -> PyRaise(n, c, s)
      [] n.k = "assert" -> Then(PyEval(n.test, c, s), LAMBDA v, s1 :
            IF Truthy(v, s1) THEN Ok(None, s1)
            ELSE Then(PyOptional(n.msg, c, s1), LAMBDA m, s2 : Raise("AssertionError", s2)))
      [] n.k \in {"with", "asyncwith"} -> PyWith(n, 1, c, s)
      [] n.k \in {"def", "asyncdef"} -> PyDef(n, c, s)
      [] n.k = "classdef" -> PyClass(n, c, s)
      [] n.k = "import" -> PyImport(n.names, c, s)
      [] n.k = "importfrom" -> PyImportFrom(n, c, s)
      [] OTHER -> Refuse(Note("not_python", s))

PyNoteForbidden(r) == IF r.sig = "ok" /\ Forbidden(r.val)
                      THEN [r EXCEPT !.st = Note("forbidden", @)] ELSE r
PyEval(n, c, s) ==
    LET async == n.k \in {"await", "asyncfor", "asyncwith"} /\ ~Async(c, s)
    IN  PyNoteForbidden(PyEvaluate(n, c, NoteIf(async, "not_python", s)))

-----------------------------------------------------------------------------
\* What one can see of a finished program: how it ended, what it did to the
\* host and what its variables hold, functions by their definition.  A program
\* ended by an error the interpreter has its own class for ends alike: the
\* executor wraps either.

RECURSIVE Shown(_, _)
Shown(v, s) ==
    CASE v.t \in {"list", "alist"} ->
            [t |-> v.t, items |-> [i \in DOMAIN Items(v, s) |-> Shown(Items(v, s)[i], s)]]
      [] v.t \in {"fun", "lambda", "coro", "pending", "bound"} -> [t |-> "callable"]
      [] v.t = "type" -> [t |-> "type", names |-> DOMAIN s.heap[v.at] \ {"__annotations__"}]
      [] v.t = "obj" -> [t |-> "obj", cls |-> Shown(v.cls, s),
                         dict |-> [x \in DOMAIN s.heap[v.at] |-> Shown(s.heap[v.at][x], s)]]
      [] OTHER -> v

Seen(r, vars) ==
    [sig |-> OwnClass(r), world |-> SelectSeq(r.st.world, LAMBDA e : e.e # "lost"),
     val |-> IF r.sig = "FinalAnswer" THEN Shown(r.val, r.st) ELSE None,
     vars |-> [x \in DOMAIN vars |-> Shown(vars[x], r.st)]]

\* The interpreter's variables are those of the executor and its functions; but
\* of the functions, only those Python has at the top level as well.
SeenInterpreted(r, p) ==
    LET vars == Vars(1, r.st) @@ r.st.tools
        leaked == DOMAIN p.st.latest \ (DOMAIN Vars(1, p.st) \cup DOMAIN Vars(1, r.st))
    IN  Seen([sig |-> r.cause, val |-> r.val, st |-> r.st],
             [x \in DOMAIN vars \ leaked |-> vars[x]])
PyEnded(r) == [r EXCEPT !.st = NoteIf(r.sig \in Control, "not_python", @)]
Referenced(code, vars) == PyEnded(PyBody(code, 1, PyNew(vars)))
SeenReferenced(r) == Seen(r, Vars(1, r.st))
=============================================================================
