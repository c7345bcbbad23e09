----------------------------- MODULE WireFormat -----------------------------
(***************************************************************************)
(* The encoding of Python values between the host and a sandbox worker     *)
(* (lib/sandbox_runner/protocol.py), and the journey of a value: from the  *)
(* host to the worker as a variable, back as an output, and to the client  *)
(* in the result of a tool, which encodes it once more (apps/features and  *)
(* lib/mcp_server/app/results.py).                                         *)
(*                                                                         *)
(* The encoded form is itself made of Python values: those JSON has.  What *)
(* the code does by recursion are recursive functions here, and what it    *)
(* does at one level is an operator of the function applied to the parts.  *)
(***************************************************************************)
EXTENDS Naturals, Sequences, FiniteSets, SequencesExt

CONSTANTS
    Names,      \* what numbers, strings and objects are told apart by
    NonFinite,  \* NaN and the infinities, which json.dumps writes though JSON has none
    TooLong,    \* the integers of too many digits for json.dumps, which refuses them
    Values,     \* the values that set out
    Depth,      \* bound: how deeply they are nested
    MaxTrips    \* bound: how often a value is decoded

\* None, booleans, numbers and strings; only a string is text.
Atom(name, text) == [kind |-> "atom", name |-> name, text |-> text]
Text(name) == Atom(name, TRUE)
\* An object that is none of the others, by what repr makes of it.
Opaque(name, repr) == [kind |-> "opaque", name |-> name, repr |-> repr]
List(items) == [kind |-> "list", items |-> items]
Tuple(items) == [kind |-> "tuple", items |-> items]
SetOf(members) == [kind |-> "set", members |-> members]
\* A dict is the set of its entries, pairs of a key and a value.  Their order is
\* left out: dicts that differ in nothing else are equal.
Dict(entries) == [kind |-> "dict", entries |-> entries]

Finite(S) == {T \in SUBSET S : IsFiniteSet(T)}
Leaves ==
    [kind : {"atom"}, name : Names, text : BOOLEAN] \cup
    [kind : {"opaque"}, name : Names, repr : Names]
\* The values all of whose parts are in a set.
MadeOf(Parts) ==
    Leaves
    \cup [kind : {"list", "tuple"}, items : Seq(Parts)]
    \cup [kind : {"set"}, members : Finite(Parts)]
    \cup [kind : {"dict"},
          entries : {e \in Finite(Parts \X Parts) :
                        \A x, y \in e : x[1] = y[1] => x = y}]

\* Encoding a value adds at most two levels to each of its own and one for an object.
Encoded(depth) == 3 * depth + 1
MaxDepth == Encoded(Encoded(Depth))
Nested[depth \in 0 .. MaxDepth] ==
    IF depth = 0 THEN Leaves ELSE MadeOf(Nested[depth - 1])

\* The strings the encoding itself uses.
ASSUME NamesAssumption ==
    {"__sandbox_type__", "items", "type", "repr", "tuple", "set", "dict"} \subseteq Names
ASSUME NumbersAssumption ==
    NonFinite \cup TooLong \subseteq [kind : {"atom"}, name : Names, text : {FALSE}]
ASSUME DepthAssumption == Depth \in Nat
ASSUME ValuesAssumption == Values \subseteq Nested[Depth]

Marker == Text("__sandbox_type__")
None == Atom("None", FALSE)

KeysOf(d) == {entry[1] : entry \in d.entries}
Get(d, key) == (CHOOSE entry \in d.entries : entry[1] = key)[2]

\* Of two pairs with the same key the later one counts.
DictOf(pairs) ==
    Dict({pairs[i] : i \in {i \in DOMAIN pairs :
             \A j \in DOMAIN pairs : j > i => pairs[j][1] # pairs[i][1]}})

Tagged(tag, items) == Dict({<<Marker, Text(tag)>>, <<Text("items"), List(items)>>})

All(F, s) == [i \in DOMAIN s |-> F[s[i]]]
WithValues(F, d) == Dict({<<entry[1], F[entry[2]]>> : entry \in d.entries})
Pairs(F, d) ==
    LET s == SetToSeq(d.entries) IN [i \in DOMAIN s |-> <<F[s[i][1]], F[s[i][2]]>>]

\* Variants: only one of the two tests.
StringKeys(d) == \A key \in KeysOf(d) : key.kind = "atom" /\ key.text
UnmarkedKeys(d) == \A key \in KeysOf(d) : key # Marker

PlainKeys(d) == \A key \in KeysOf(d) : key.kind = "atom" /\ key.text /\ key # Marker

SerializeBy(F, v) ==
    CASE v.kind = "atom" -> v
      [] v.kind = "list" -> List(All(F, v.items))
      [] v.kind = "tuple" -> Tagged("tuple", All(F, v.items))
      [] v.kind = "set" -> Tagged("set", All(F, SetToSeq(v.members)))
      [] v.kind = "dict" ->
            IF PlainKeys(v) THEN WithValues(F, v)
            ELSE LET pairs == Pairs(F, v)
                 IN  Tagged("dict", [i \in DOMAIN pairs |-> List(pairs[i])])
      [] v.kind = "opaque" ->
            Dict({<<Marker, Text("repr")>>, <<Text("type"), Text(v.name)>>,
                  <<Text("repr"), Text(v.repr)>>})
Serialize(v) ==
    LET F[x \in Nested[MaxDepth]] == SerializeBy(F, x) IN F[v]

DeserializeBy(F, v) ==
    LET d == WithValues(F, v)
        Items == Get(d, Text("items")).items
        Is(tag) == Get(v, Marker) = Text(tag)
    IN  IF v.kind = "list" THEN List(All(F, v.items))
        ELSE IF v.kind # "dict" THEN v
        ELSE IF Marker \notin KeysOf(v) \/ Get(v, Marker) = None THEN d
        ELSE CASE Is("tuple") -> Tuple(Items)
               [] Is("set") -> SetOf({Items[i] : i \in DOMAIN Items})
               [] Is("dict") ->
                     DictOf([i \in DOMAIN Items |-> <<Items[i].items[1], Items[i].items[2]>>])
               [] Is("repr") -> Get(v, Text("repr"))
               [] OTHER -> v
Deserialize(v) ==
    LET F[x \in Nested[MaxDepth]] == DeserializeBy(F, x) IN F[v]

\* v holds none of the atoms in S, at any depth.
WithoutBy(F, S, v) ==
    CASE v.kind = "atom" -> v \notin S
      [] v.kind = "opaque" -> TRUE
      [] v.kind \in {"list", "tuple"} -> \A i \in DOMAIN v.items : F[v.items[i]]
      [] v.kind = "set" -> \A m \in v.members : F[m]
      [] v.kind = "dict" -> \A entry \in v.entries : F[entry[1]] /\ F[entry[2]]
Without(S, v) ==
    LET F[x \in Nested[MaxDepth]] == WithoutBy(F, S, x) IN F[v]

-----------------------------------------------------------------------------
VARIABLES
    original,   \* history: the value that set out
    value,      \* what there is of it now
    place,      \* where it is
    trips       \* how often it has been decoded

vars == <<original, value, place, trips>>

\* A value sets out at the host, as a variable, or in the worker, as an output.
Init ==
    /\ original \in Values
    /\ value = original
    /\ place \in {"host", "worker"}
    /\ trips = 0

\* serialize_value and json.dumps, which fails on an integer that is too long.
Encode(from, to) ==
    /\ place = from /\ place' = to
    /\ Without(TooLong, value)
    /\ value' = Serialize(value)
    /\ UNCHANGED <<original, trips>>

Decode(from, to) ==
    /\ trips < MaxTrips
    /\ place = from /\ place' = to
    /\ value' = Deserialize(value)
    /\ trips' = trips + 1
    /\ UNCHANGED original

\* The host sends variables; the worker sends the output of an execution.
SendVariables == Encode("host", "request")
ReceiveVariables == Decode("request", "worker")
SendOutput == Encode("worker", "answer")
ReceiveOutput == Decode("answer", "host")

\* _execution_result_to_dict encodes the output, and normalize_tool_result the
\* dict it is in.
ToolResult ==
    /\ place = "host" /\ place' = "client"
    /\ Without(TooLong, value)
    /\ value' = Serialize(Serialize(value))
    /\ UNCHANGED <<original, trips>>

\* A write that fails: the call that sends variables or returns a result raises
\* (manager.py:168, results.py:59), the worker with the output ends (worker.py:126).
WriteFails ==
    /\ place \in {"host", "worker"} /\ place' = "lost"
    /\ ~Without(TooLong, value)
    /\ UNCHANGED <<original, value, trips>>

Next == \/ SendVariables \/ ReceiveVariables \/ SendOutput \/ ReceiveOutput \/ ToolResult
        \/ WriteFails

Spec == Init /\ [][Next]_vars

-----------------------------------------------------------------------------
(* What a trip is meant to do: nothing, but to an object Python values     *)
(* cannot express it leaves the text repr makes of it.                     *)
ReceivedBy(F, v) ==
    CASE v.kind = "atom" -> v
      [] v.kind = "opaque" -> Text(v.repr)
      [] v.kind = "list" -> List(All(F, v.items))
      [] v.kind = "tuple" -> Tuple(All(F, v.items))
      [] v.kind = "set" -> SetOf({F[m] : m \in v.members})
      [] v.kind = "dict" -> DictOf(Pairs(F, v))
Received(v) ==
    LET F[x \in Nested[MaxDepth]] == ReceivedBy(F, x) IN F[v]

\* The structure of JSON.
IsJsonBy(F, v) ==
    \/ v.kind = "atom"
    \/ v.kind = "list" /\ \A i \in DOMAIN v.items : F[v.items[i]]
    \/ v.kind = "dict" /\ StringKeys(v) /\ \A entry \in v.entries : F[entry[2]]
IsJson(v) ==
    LET F[x \in Nested[MaxDepth]] == IsJsonBy(F, x) IN F[v]

\* However often a value travels, it arrives as what it was: tuples, sets, keys
\* that are no strings and keys that look like the marker included
\* (protocol.py:12, 40).
Survives ==
    place \in {"host", "worker"} =>
        value = IF trips = 0 THEN original ELSE Received(original)

\* What is written to a pipe or to a client has the structure of JSON, so that
\* json.dumps neither meets a type it does not know nor turns a key into a string
\* (protocol.py:25), it holds nothing json.dumps refuses, and a number JSON does
\* not have only if the value that set out held one: these are written as they
\* are (protocol.py:13), and what reads them is to know them.
WireIsJson ==
    place \in {"request", "answer", "client"} =>
        /\ IsJson(value)
        /\ Without(TooLong, value)
        /\ Without(NonFinite, original) => Without(NonFinite, value)

\* The client of a tool gets the output back by decoding twice, because it was
\* encoded twice on its way (results.py:110, features/main.py:88); an object that
\* never was in a worker is replaced by its text here as well.
ClientCanDecode ==
    place = "client" => Deserialize(Deserialize(value)) = Received(original)
=============================================================================
