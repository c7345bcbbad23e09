-------------------------- MODULE MCPythonExecutor --------------------------
(***************************************************************************)
(* The code the executor is given: every sequence of up to MaxLen of the   *)
(* statements below, enclosed in up to MaxDepth of the compound statements *)
(* below and continued with further ones.                                  *)
(***************************************************************************)
EXTENDS PythonExecutor

CONSTANTS MaxLen, MaxDepth

SomeAuthorized == {<<"math">>, <<"collections", "*">>}
SomeSimilar == {<<"xx", "x">>}

C(x) == [k |-> "constant", v |-> Num(x)]
N(id) == [k |-> "name", id |-> id]
L(elts) == [k |-> "list", elts |-> elts]
Apply(f, args) == [k |-> "call", func |-> f, args |-> args, keywords |-> <<>>]
Use(f, args) == Apply(N(f), args)
Probe(x) == Use("probe", <<C(x)>>)
Get(v, i) == [k |-> "subscript", value |-> v, slice |-> i]
Dot(v, a) == [k |-> "attribute", value |-> v, attr |-> a]
Starred(e) == [k |-> "starred", value |-> e]
Lambda(params, e) == [k |-> "lambda", params |-> params, body |-> e, defaults |-> <<>>]
Less(a, b, c) == [k |-> "compare", left |-> a,
                  rest |-> <<[op |-> "lt", right |-> b], [op |-> "lt", right |-> c]>>]
Comp(e, ifs) == [k |-> "comp", elt |-> e, gens |->
    <<[target |-> N("x"), iter |-> L(<<C(0), C(1)>>), ifs |-> ifs, async |-> FALSE]>>]

Do(e) == [k |-> "expr", value |-> e]
Set(target, e) == [k |-> "assign", targets |-> <<target>>, value |-> e]
Let(x, e) == Set(N(x), e)
Annotated(target, e) == [k |-> "annassign", target |-> target, annotation |-> C(1), value |-> e]
Say(x) == Do(Use("print", <<C(x)>>))
Def(k, f, params, defaults, body) ==
    [k |-> k, name |-> f, params |-> params, defaults |-> defaults, body |-> body]
ClassDef(name, bases, body) == [k |-> "classdef", name |-> name, bases |-> bases, body |-> body]
Pass == [k |-> "pass"]
Return(e) == [k |-> "return", value |-> e]
Raised(cls) == [k |-> "raise", exc |-> N(cls), cause |-> None]
Aug(t, e) == [k |-> "augassign", target |-> t, value |-> e]
Await(e) == Do([k |-> "await", value |-> e])

If(body) == [k |-> "if", test |-> N("x"), body |-> body, orelse |-> <<Say(8)>>]
For(k, e, body, orelse) ==
    [k |-> k, target |-> N("x"), iter |-> e, body |-> body, orelse |-> orelse]
While(body) == [k |-> "while", body |-> body, orelse |-> <<>>,
                test |-> Less(N("x"), C(4), C(5))]
Try(body, hs, orelse, finalbody) ==
    [k |-> "try", body |-> body, handlers |-> hs, orelse |-> orelse, finalbody |-> finalbody]
Handler1(ty, name, body) == [type |-> ty, name |-> name, body |-> body]
Catch(body, cls) == Try(body, <<Handler1(N(cls), "", <<Say(2)>>)>>, <<>>, <<>>)
Item(kind, as) == [expr |-> Use("open_cm", <<C(kind)>>), as |-> as]
With(k, items, body) == [k |-> k, body |-> body, items |-> items]

Closure == Def("def", "f", <<"z">>, <<>>,
               <<Say(6), Return(Lambda(<<>>, Use("print", <<N("z")>>)))>>)
Call0(e) == Let("y", Apply(e, <<>>))
Call1(f) == Let("y", Use(f, <<C(0)>>))

\* More than MaxOperations.
Twice(body) == For("for", L(<<C(0), C(1)>>), body, <<>>)
Burn == Twice(<<Twice(<<Twice(<<Twice(<<Pass>>)>>)>>)>>)

\* A class whose objects have an attribute x, and one below it.
Object == ClassDef("A", <<>>, <<
    Def("def", "__init__", <<"self", "z">>, <<>>, <<Set(Dot(N("self"), "x"), N("z"))>>),
    Def("def", "f", <<"self">>, <<>>, <<Return(Dot(N("self"), "x"))>>)>>)
Derived == ClassDef("B", <<N("A")>>, <<
    Def("def", "__init__", <<"self", "z">>, <<>>,
        <<Do(Apply(Dot(Use("super", <<>>), "__init__"), <<N("z")>>))>>)>>)

\* Statements that leave the code they stand in, and calls and assignments.
Leaving == {
    <<Return(N("x"))>>, <<[k |-> "break"]>>, <<[k |-> "continue"]>>, <<Raised("ValueError")>>,
    <<[k |-> "raise", exc |-> None, cause |-> None]>>,
    <<Do(Use("final_answer", <<C(1)>>))>>, <<Await(Use("hang", <<>>))>>}
Steps == Leaving \cup {
    <<Say(7)>>, <<Let("x", C(1))>>, <<Let("y", N("x"))>>, <<Call1("f")>>}

\* Pieces that are there for their expressions, definitions and imports.
Pieces == {
    <<Aug(N("x"), C(1))>>, <<[k |-> "delete", targets |-> <<N("x")>>]>>, <<Do(Use("block", <<>>))>>,
    <<Let("y", L(<<C(0), C(1)>>))>>,
    <<Let("y", Comp(N("x"), <<Probe(1)>>))>>,
    <<Let("y", Comp(Lambda(<<>>, N("x")), <<>>)), Call0(Get(N("y"), C(0)))>>,
    <<Let("f", Lambda(<<"z">>, N("x")))>>,
    <<Let("f", Lambda(<<"x">>, Probe(1)))>>,
    <<Aug(N("y"), L(<<C(1)>>))>>,
    <<Aug(Get(N("y"), C(0)), Probe(1))>>,
    <<Aug(Get(N("y"), Probe(0)), C(1))>>,
    <<Do(Get(N("y"), C(0)))>>,
    <<Do(Get(N("y"), Probe(5)))>>,
    <<Do([k |-> "boolop", op |-> "or", values |-> <<Probe(0), N("x"), Probe(1)>>]),
      Do([k |-> "boolop", op |-> "and", values |-> <<Probe(1), N("x"), Probe(1)>>])>>,
    <<Do(Less(Probe(1), N("x"), Probe(2)))>>,
    <<Let("x", [k |-> "ifexp", test |-> N("x"), body |-> Probe(0), orelse |-> Probe(1)])>>,
    <<Let("x", [k |-> "binop", left |-> N("x"), right |-> C(1)])>>,
    <<[k |-> "assign", targets |-> <<N("y"), L(<<N("x"), N("z")>>)>>, value |-> L(<<C(1), N("x")>>)]>>,
    <<[k |-> "assign", targets |-> <<Get(N("y"), C(1))>>, value |-> C(9)]>>,
    <<[k |-> "delete", targets |-> <<Get(N("y"), C(0))>>]>>,
    <<Do(N("xx"))>>,
    <<[k |-> "assert", test |-> N("x"), msg |-> Probe(3)]>>,
    <<Pass>>,
    <<For("asyncfor", Use("stream", <<N("y")>>), <<Say(5)>>, <<>>)>>,
    <<For("for", N("y"), <<Aug(N("y"), L(<<C(3)>>)), [k |-> "break"]>>, <<Say(6)>>)>>,
    <<For("for", L(<<C(5)>>), <<Pass>>, <<Say(6)>>)>>,
    <<Def("def", "f", <<"x", "z">>, <<C(4)>>, <<Let("y", N("z")), Return(N("y"))>>)>>,
    <<Def("def", "f", <<"z">>, <<N("x")>>, <<Return(N("z"))>>), Let("x", C(5)), Call0(N("f"))>>,
    <<Def("def", "f", <<"z">>, <<>>, <<Let("w", N("x")), Let("x", C(5)), Return(N("w"))>>)>>,
    <<Closure, Let("y", Use("f", <<C(3)>>))>>,
    <<Def("asyncdef", "f", <<"x">>, <<>>, <<Await(Use("nap", <<>>)), Return(N("x"))>>)>>,
    <<Let("y", [Use("f", <<C(2)>>) EXCEPT !.keywords = <<[arg |-> "z", value |-> C(1)]>>])>>,
    <<Call0(N("y"))>>,
    <<Call0(Get(L(<<C(0)>>), C(0)))>>,
    <<Let("y", N("print"))>>,
    <<Await(N("y"))>>,
    <<Def("asyncdef", "f", <<"x">>, <<>>, <<Say(5), Return(N("x"))>>), Call1("f"), Await(N("y")),
      Await(N("y"))>>,
    <<Await(Use("nap", <<>>))>>,
    <<ClassDef("A", <<>>, <<Let("x", C(1)), Let("z", N("x")), Pass>>), Let("x", Dot(N("A"), "z"))>>,
    <<ClassDef("A", <<>>, <<Def("def", "f", <<"x">>, <<>>, <<Return(N("x"))>>)>>),
      Do(Apply(Dot(N("A"), "f"), <<C(0)>>))>>,
    <<Object, Let("y", Use("A", <<C(3)>>)), Let("x", Apply(Dot(N("y"), "f"), <<>>))>>,
    <<Object, Let("y", Use("A", <<>>))>>,
    <<Object, Derived, Let("y", Use("B", <<C(3)>>)), Aug(Dot(N("y"), "x"), C(1)), Do(Dot(N("y"), "w"))>>,
    <<ClassDef("A", <<>>, <<Do([k |-> "constant", v |-> Text]), Annotated(N("z"), N("x")),
                            Annotated(N("w"), None)>>), Let("y", Dot(N("A"), "w"))>>,
    <<ClassDef("A", <<>>, <<>>), ClassDef("B", <<>>, <<Set(Dot(N("A"), "x"), C(4)),
                            Annotated(Dot(N("A"), "z"), None)>>), Let("x", Dot(N("A"), "x"))>>,
    <<ClassDef("A", <<>>, <<Say(5)>>)>>,
    <<ClassDef("E", <<N("ValueError")>>, <<Pass>>),
      Try(<<Raised("E")>>, <<Handler1(N("E"), "", <<Say(4)>>)>>, <<>>, <<>>), Raised("E")>>,
    <<Annotated(N("y"), C(1)), Annotated(N("z"), None)>>,
    <<Do(Apply(N("print"), <<Starred(L(<<C(0), N("x")>>)), C(1)>>)), Do(Use("probe", <<Starred(N("x"))>>))>>,
    <<ClassDef("A", <<>>, <<>>), Catch(<<Raised("ValueError")>>, "A")>>,
    <<ClassDef("A", <<>>, <<Def("def", "__init__", <<"self">>, <<>>, <<Return(C(1))>>)>>),
      Let("y", Use("A", <<>>))>>,
    <<ClassDef("A", <<>>, <<Let("x", C(1)),
        Def("def", "f", <<"self">>, <<>>, <<Return(Dot(Use("super", <<>>), "x"))>>)>>),
      ClassDef("B", <<N("A")>>, <<Pass>>), Let("x", Apply(Dot(Use("B", <<>>), "f"), <<>>))>>,
    <<ClassDef("A", <<>>, <<Let("x", C(1)), Let("z", Lambda(<<>>, N("x")))>>),
      Let("y", Apply(Dot(N("A"), "z"), <<>>))>>,
    <<ClassDef("A", <<>>, <<[Annotated(N("z"), C(1)) EXCEPT !.annotation = N("w")]>>)>>,
    <<Object, Let("y", Use("A", <<C(3)>>)), [k |-> "delete", targets |-> <<Dot(N("y"), "x")>>]>>,
    <<[k |-> "delete", targets |-> <<L(<<N("x"), N("y")>>)>>]>>,
    <<Let("y", L(<<C(0)>>)), Do(Apply(Get(N("y"), C(0)), <<Probe(1)>>))>>,
    <<Do(Apply([k |-> "ifexp", test |-> N("x"), body |-> N("probe"), orelse |-> N("probe")],
               <<C(1)>>))>>,
    <<Do(Dot(N("x"), "__class__"))>>,
    <<Do(Apply(Dot(N("x"), "__len__"), <<>>))>>,
    <<Let("print", C(1))>>,
    <<Set(L(<<N("x"), N("z")>>), C(1))>>,
    <<Set(L(<<N("x"), N("z")>>), L(<<C(1)>>))>>,
    <<Closure, Let("y", Use("f", <<C(3)>>)), Burn>>,
    <<With("with", <<Item(0, N("y")), Item(1, L(<<N("z")>>))>>, <<Say(5)>>)>>,
    <<With("with", <<Item(0, N("y")), [expr |-> N("z"), as |-> None]>>, <<Say(5)>>)>>,
    <<With("asyncwith", <<Item(1, N("y")), [expr |-> C(1), as |-> None]>>, <<Say(5)>>)>>,
    <<[k |-> "import", names |-> <<[path |-> <<"math">>, as |-> "m"], [path |-> <<"os">>, as |-> "os"]>>]>>,
    <<[k |-> "import", names |->
        <<[path |-> <<"collections", "abc">>, as |-> "", dotted |-> "collections.abc"]>>],
      Do(N("collections"))>>,
    <<[k |-> "importfrom", path |-> <<"collections">>, level |-> 0, star |-> TRUE, names |-> <<>>]>>,
    <<[k |-> "importfrom", path |-> <<"math">>, level |-> 0, star |-> FALSE,
       names |-> <<[name |-> "pi", as |-> "x"], [name |-> "tau", as |-> "y"]>>]>>,
    <<[k |-> "importfrom", path |-> <<"math">>, level |-> 0, star |-> FALSE,
       names |-> <<[name |-> "vars", as |-> "y"], [name |-> "eval", as |-> "z"]>>], Call0(N("y"))>>,
    <<Let("x", Dot(N("m"), "pi"))>>,
    <<Do(N("z"))>>}

Enclosing(body) == {
    If(body),
    For("for", L(<<C(0), C(1)>>), body, <<>>),
    While(body),
    Try(body, <<Handler1(N("Exception"), "", <<Say(2)>>)>>, <<Say(3)>>, <<>>),
    Try(body, <<Handler1(N("AssertionError"), "", <<>>),
                Handler1(N("ValueError"), "", <<Say(2)>>)>>, <<>>, <<Say(4)>>),
    Try(<<Raised("TypeError")>>, <<Handler1(None, "", body)>>, <<>>, <<>>),
    Try(body, <<Handler1(N("ValueError"), "z", <<Say(2)>>)>>, <<>>, <<>>),
    Try(body, <<Handler1(None, "", <<Say(2)>>)>>, <<>>, <<>>),
    Try(<<Let("y", C(1))>>, <<>>, body, <<Say(4)>>),
    Try(<<Raised("TypeError")>>, <<>>, <<>>, body),
    Catch(body, "NameError"), Catch(body, "LookupError"), Catch(body, "TypeError"),
    With("with", <<Item(0, N("y")), Item(1, None)>>, body),
    With("with", <<Item(0, None), Item(3, None)>>, body),
    With("asyncwith", <<Item(0, None), Item(2, None)>>, body),
    Def("def", "f", <<"x">>, <<>>, body)}

\* What a compound statement may itself be in.
Around(body) == {
    For("for", L(<<C(0), C(1)>>), body, <<>>),
    Try(body, <<Handler1(N("Exception"), "", <<Say(2)>>)>>, <<Say(3)>>, <<>>),
    Try(<<Raised("TypeError")>>, <<Handler1(None, "", body)>>, <<>>, <<>>),
    Try(<<Raised("TypeError")>>, <<>>, <<>>, body),
    With("with", <<Item(0, None), Item(1, None)>>, body),
    Def("def", "f", <<"x">>, <<>>, body)}

\* One or two pieces or steps; a longer piece and a step.  What is enclosed in
\* a compound statement is one of them, or begins or ends with a step.  A second
\* call uses what the first has left.  Two levels are nested where x is known.
Next ==
    \/ /\ Call = 1 /\ depth = 0 /\ Len(code) < MaxLen /\ code \notin Leaving
       /\ \E n \in Pieces \cup Steps : Write(n)
    \/ /\ Call = 1 /\ code \in Pieces /\ Len(code) >= MaxLen
       /\ \E n \in Steps : Write(n)
    \/ /\ depth = 1 /\ Len(code) = 1 /\ Vars(1, store) # <<>>
       /\ Write(<<Say(7), Call1("f")>>)
    \/ /\ Call = 1 /\ code # <<>> /\ depth = 0
       /\ code \in Pieces \/ <<Head(code)>> \in Steps \/ <<Last(code)>> \in Steps
       /\ \E n \in IF Len(code) = 1 \/ code \in Pieces THEN Enclosing(code)
                   ELSE Around(code) \cup {While(code)} : Enclose(<<n>>)
    \/ /\ Call = 1 /\ Len(code) = 1 /\ depth \in 1 .. MaxDepth - 1 /\ Vars(1, store) # <<>>
       /\ \E n \in Around(code) : Enclose(<<n>>)
    \/ /\ Call > 1 /\ code = <<>>
       /\ \E n \in {<<Say(7)>>, <<Call1("f")>>, <<Call0(N("y"))>>, <<Raised("ValueError"), Say(7)>>,
                   <<Catch(<<Call0(N("y"))>>, "Exception")>>,
                   <<Catch(<<Call1("f")>>, "Exception")>>, Unparsable} : Write(n)
    \/ /\ depth < 2
       /\ Len(code) < 2 \/ code \in Pieces
       /\ Execute
    \/ /\ Vars(1, store) = <<>>
       /\ Send([x |-> Num(2)])

Spec == ExecutorInit /\ [][Next]_executorVars
=============================================================================
