---------------------------- MODULE MCWireFormat ----------------------------
(* The values of the instance: every container of up to two atoms or        *)
(* objects, and every container of one of some of these.  The keys and      *)
(* members are hashable; the two objects have the same repr.                *)
EXTENDS WireFormat

SomeNames ==
    {"__sandbox_type__", "items", "type", "repr", "tuple", "set", "dict",
     "a", "1", "nan", "10**5000", "o1", "o2", "<o>"}
SomeNonFinite == {Atom("nan", FALSE)}
SomeTooLong == {Atom("10**5000", FALSE)}

Small == {Text("a"), Marker, Atom("1", FALSE), Opaque("o1", "<o>"), Opaque("o2", "<o>")}
Numbers == SomeNonFinite \cup SomeTooLong

UpToTwo(S) == {<<>>} \cup {<<x>> : x \in S} \cup (S \X S)
SetsOf(S) == {SetOf({x, y}) : x, y \in S}
DictsOf(K, S) ==
    {Dict({<<k, x>>}) : k \in K, x \in S} \cup
    {Dict({<<k, x>>, <<l, y>>}) : k, l \in K, x, y \in S} 

HasDistinctKeys(v) ==
    v.kind = "dict" => \A x, y \in v.entries : x[1] = y[1] => x = y

Flat ==
    Small \cup {List(s) : s \in UpToTwo(Small)} \cup {Tuple(s) : s \in UpToTwo(Small)}
    \cup SetsOf(Small) \cup {SetOf({})}
    \cup {v \in DictsOf(Small, Small) : HasDistinctKeys(v)}

Hashable == {Tuple(s) : s \in UpToTwo({Marker, Opaque("o1", "<o>")})}
Inner ==
    Hashable \cup Numbers \cup {List(<<Marker>>), SetOf({Opaque("o2", "<o>")}), Dict({}),
                   Dict({<<Marker, Text("a")>>}), Dict({<<Text("a"), Marker>>})}

Deep ==
    {List(<<x, Text("a")>>) : x \in Inner} \cup {Tuple(<<x>>) : x \in Inner}
    \cup SetsOf(Hashable)
    \cup {Dict({<<k, x>>}) : k \in Small \cup Hashable, x \in Inner}

\* Numbers as elements, as members, as values and as keys.
Odd ==
    Numbers \cup {List(s) : s \in UpToTwo(Numbers)} \cup {Tuple(s) : s \in UpToTwo(Numbers)}
    \cup SetsOf(Numbers)
    \cup {v \in DictsOf(Numbers \cup {Marker}, Numbers) : HasDistinctKeys(v)}

SomeValues == Odd \cup Flat \cup Deep
=============================================================================
