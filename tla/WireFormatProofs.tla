-------------------------- MODULE WireFormatProofs --------------------------
(***************************************************************************)
(* Proofs about WireFormat for values of any kind, size and depth.         *)
(***************************************************************************)
EXTENDS WireFormat, FiniteSetTheorems, WellFoundedInduction, TLAPS

-----------------------------------------------------------------------------
(* Induction over natural numbers, for sets of them.                       *)

\* A set of numbers that is not empty has a least one.
LEMMA LeastNumber == \A T \in SUBSET Nat : T # {} => \E x \in T : \A y \in T : x <= y
<1>1. IsWellFoundedOn(OpToRel(<, Nat), Nat)
  BY NatLessThanWellFounded
<1>2. SUFFICES ASSUME NEW T \in SUBSET Nat, T # {}
               PROVE  \E x \in T : \A y \in T : x <= y
  OBVIOUS
<1>3. \E x \in T : \A y \in T : ~ (<<y, x>> \in OpToRel(<, Nat))
  BY <1>1, <1>2, WFMin
<1>4. \A x, y \in Nat : <<y, x>> \in OpToRel(<, Nat) <=> y < x
  BY DEF OpToRel
<1>5. \E x \in T : \A y \in T : ~ (y < x)
  BY <1>3, <1>4, Zenon
<1>6. \A x, y \in T : ~ (y < x) => x <= y
  OBVIOUS
<1> QED
  BY <1>5, <1>6, Zenon

LEMMA Induction ==
    ASSUME NEW T, 0 \in T, \A n \in Nat : n \in T => n + 1 \in T
    PROVE  Nat \subseteq T
<1> DEFINE U == {n \in Nat : n \notin T}
<1>1. SUFFICES ASSUME U # {}
               PROVE  FALSE
  OBVIOUS
<1>2. PICK x \in U : \A y \in U : x <= y
  BY <1>1, LeastNumber
<1>3. x # 0 /\ x - 1 \in Nat /\ x - 1 \notin U
  BY <1>2
<1> QED
  BY <1>2, <1>3

-----------------------------------------------------------------------------
(* The values, by the depth to which they are nested.                      *)

LEMMA DepthFact ==
    /\ Depth \in Nat /\ MaxDepth \in Nat
    /\ Encoded(Depth) \in Nat
    /\ Depth <= Encoded(Depth) /\ Encoded(Depth) <= MaxDepth
BY DepthAssumption DEF MaxDepth, Encoded

\* The recursion of Nested ends, and so it is what its definition says.
LEMMA NestedDef ==
    Nested = [depth \in 0 .. MaxDepth |->
                IF depth = 0 THEN Leaves ELSE MadeOf(Nested[depth - 1])]
<1> DEFINE Upto(f, m) == [depth \in 0 .. m |->
                            IF depth = 0 THEN Leaves ELSE MadeOf(f[depth - 1])]
           T == {m \in Nat : \E f : f = Upto(f, m)}
<1>1. 0 \in T
  <2> DEFINE f == [depth \in 0 .. 0 |-> Leaves]
  <2>1. f = Upto(f, 0)
    OBVIOUS
  <2> QED
    BY <2>1
<1>2. ASSUME NEW m \in Nat, m \in T
      PROVE  m + 1 \in T
  <2>1. PICK f : f = Upto(f, m)
    BY <1>2
  <2> DEFINE g == [depth \in 0 .. m + 1 |->
                     IF depth = m + 1 THEN MadeOf(f[m]) ELSE f[depth]]
  <2>2. ASSUME NEW depth \in 0 .. m + 1
        PROVE  g[depth] = IF depth = 0 THEN Leaves ELSE MadeOf(g[depth - 1])
    <3>1. CASE depth = m + 1
      BY <3>1
    <3>2. CASE depth \in 0 .. m
      <4>1. g[depth] = f[depth] /\ (depth # 0 => g[depth - 1] = f[depth - 1])
        BY <3>2
      <4>2. f[depth] = IF depth = 0 THEN Leaves ELSE MadeOf(f[depth - 1])
        BY <2>1, <3>2
      <4> QED
        BY <4>1, <4>2
    <3> QED
      BY <3>1, <3>2
  <2>3. g = Upto(g, m + 1)
    BY <2>2
  <2>4. \E h : h = Upto(h, m + 1)
    <3> HIDE DEF g
    <3> QED
      BY <2>3
  <2> QED
    BY <2>4
<1>3. MaxDepth \in T
  BY <1>1, <1>2, Induction, DepthFact
<1>4. \E f : f = Upto(f, MaxDepth)
  BY <1>3
<1> QED
  BY <1>4 DEF Nested

LEMMA MadeOfGrows ==
    ASSUME NEW P, NEW Q, P \subseteq Q
    PROVE  MadeOf(P) \subseteq MadeOf(Q)
<1>1. Seq(P) \subseteq Seq(Q)
  OBVIOUS
<1>2. P \X P \subseteq Q \X Q /\ Finite(P) \subseteq Finite(Q)
  BY DEF Finite
<1>3. Finite(P \X P) \subseteq Finite(Q \X Q)
  BY <1>2 DEF Finite
<1> QED
  BY <1>1, <1>2, <1>3 DEF MadeOf

\* A value has less depth than the values it is part of.
LEMMA NestedStep ==
    /\ Nested[0] = Leaves
    /\ \A n \in Nat : n < MaxDepth => /\ Nested[n + 1] = MadeOf(Nested[n])
                                      /\ Nested[n] \subseteq Nested[n + 1]
<1>1. Nested[0] = Leaves
  BY NestedDef, DepthFact
<1>2. \A n \in Nat : n < MaxDepth => Nested[n + 1] = MadeOf(Nested[n])
  BY NestedDef, DepthFact
<1> DEFINE T == {n \in Nat : n < MaxDepth => Nested[n] \subseteq Nested[n + 1]}
<1>3. 0 \in T
  BY <1>1, <1>2 DEF MadeOf
<1>4. ASSUME NEW n \in Nat, n \in T
      PROVE  n + 1 \in T
  <2>1. SUFFICES ASSUME n + 1 < MaxDepth
                 PROVE  Nested[n + 1] \subseteq Nested[n + 1 + 1]
    OBVIOUS
  <2>2. n < MaxDepth /\ n + 1 \in Nat
    BY <2>1, DepthFact
  <2>3. Nested[n] \subseteq Nested[n + 1]
    BY <1>4, <2>2
  <2>4. Nested[n + 1] = MadeOf(Nested[n]) /\ Nested[n + 1 + 1] = MadeOf(Nested[n + 1])
    BY <1>2, <2>1, <2>2
  <2> QED
    BY <2>3, <2>4, MadeOfGrows
<1>5. Nat \subseteq T
  BY <1>3, <1>4, Induction
<1> QED
  BY <1>1, <1>2, <1>5

LEMMA NestedGrows ==
    ASSUME NEW m \in Nat, NEW n \in Nat, m <= n, n <= MaxDepth
    PROVE  Nested[m] \subseteq Nested[n]
<1> DEFINE T == {k \in Nat : m + k <= MaxDepth => Nested[m] \subseteq Nested[m + k]}
<1>1. 0 \in T
  OBVIOUS
<1>2. ASSUME NEW k \in Nat, k \in T
      PROVE  k + 1 \in T
  <2>1. SUFFICES ASSUME m + (k + 1) <= MaxDepth
                 PROVE  Nested[m] \subseteq Nested[m + (k + 1)]
    OBVIOUS
  <2>2. m + k < MaxDepth /\ m + k \in Nat /\ m + (k + 1) = (m + k) + 1
    BY <2>1, DepthFact
  <2>3. Nested[m + k] \subseteq Nested[(m + k) + 1]
    BY <2>2, NestedStep
  <2> QED
    BY <1>2, <2>2, <2>3, DepthFact
<1>3. Nat \subseteq T
  BY <1>1, <1>2, Induction
<1>4. n - m \in Nat /\ m + (n - m) = n
  OBVIOUS
<1> QED
  BY <1>3, <1>4

-----------------------------------------------------------------------------
(* Sets, sequences and dicts.                                              *)

LEMMA ImageIsFinite ==
    ASSUME NEW S, IsFiniteSet(S), NEW f
    PROVE  IsFiniteSet({f[x] : x \in S})
<1> DEFINE g == [x \in S |-> f[x]]
           T == {f[x] : x \in S}
<1>1. g \in Surjection(S, T)
  BY DEF Surjection
<1> QED
  BY <1>1, FS_Surjection

\* SetToSeq lists a finite set.
LEMMA SetToSeqFact ==
    ASSUME NEW S, IsFiniteSet(S)
    PROVE  /\ SetToSeq(S) \in Seq(S)
           /\ S = {SetToSeq(S)[i] : i \in DOMAIN SetToSeq(S)}
           /\ \A i, j \in DOMAIN SetToSeq(S) : SetToSeq(S)[i] = SetToSeq(S)[j] => i = j
<1> DEFINE n == Cardinality(S)
           s == SetToSeq(S)
<1>1. n \in Nat /\ \E f \in [1 .. n -> S] : IsInjective(f)
  BY FS_CardinalityType DEF ExistsBijection, Bijection, Injection
<1>2. s \in [1 .. n -> S] /\ IsInjective(s)
  BY <1>1 DEF SetToSeq
<1>3. IsFiniteSet(1 .. n) /\ Cardinality(1 .. n) = n
  BY <1>1, FS_Interval
<1>4. s \in Injection(1 .. n, S)
  BY <1>2 DEF Injection
<1>5. s \in Surjection(1 .. n, S)
  BY <1>3, <1>4, FS_Injection
<1> HIDE DEF s
<1>6. S = {s[i] : i \in DOMAIN s}
  BY <1>2, <1>5 DEF Surjection
<1>7. s \in Seq(S)
  BY <1>1, <1>2
<1>8. \A i, j \in DOMAIN s : s[i] = s[j] => i = j
  BY <1>2 DEF IsInjective
<1> QED
  BY <1>6, <1>7, <1>8 DEF s

Maps(P) == {e \in Finite(P \X P) : \A x, y \in e : x[1] = y[1] => x = y}

\* What a value is made of.
LEMMA MadeOfCases ==
    ASSUME NEW P, NEW v \in MadeOf(P)
    PROVE  \/ v \in Leaves
           \/ v.kind = "list" /\ v.items \in Seq(P) /\ v = List(v.items)
           \/ v.kind = "tuple" /\ v.items \in Seq(P) /\ v = Tuple(v.items)
           \/ v.kind = "set" /\ v.members \in Finite(P) /\ v = SetOf(v.members)
           \/ v.kind = "dict" /\ v.entries \in Maps(P) /\ v = Dict(v.entries)
BY DEF MadeOf, Maps, List, Tuple, SetOf, Dict

LEMMA LeafCases ==
    ASSUME NEW v \in Leaves
    PROVE  \/ v.kind = "atom" /\ v = Atom(v.name, v.text) /\ v.name \in Names
                              /\ v.text \in BOOLEAN
           \/ v.kind = "opaque" /\ v = Opaque(v.name, v.repr) /\ v.name \in Names
                                /\ v.repr \in Names
BY DEF Leaves, Atom, Opaque

LEMMA Made ==
    ASSUME NEW P
    PROVE  /\ Leaves \subseteq MadeOf(P)
           /\ \A s \in Seq(P) : List(s) \in MadeOf(P) /\ Tuple(s) \in MadeOf(P)
           /\ \A m \in Finite(P) : SetOf(m) \in MadeOf(P)
           /\ \A e \in Maps(P) : Dict(e) \in MadeOf(P)
BY DEF MadeOf, Maps, List, Tuple, SetOf, Dict

LEMMA TextIsLeaf == \A name \in Names : Text(name) \in Leaves /\ Text(name).kind = "atom"
BY DEF Text, Atom, Leaves

\* Dicts are made of pairs with the keys and values they hold.
LEMMA DictOfFact ==
    ASSUME NEW P, NEW s \in Seq(P \X P)
    PROVE  DictOf(s).entries \in Maps(P) /\ DictOf(s) = Dict(DictOf(s).entries)
<1> DEFINE I == {i \in DOMAIN s : \A j \in DOMAIN s : j > i => s[j][1] # s[i][1]}
           e == {s[i] : i \in I}
<1>1. DOMAIN s = 1 .. Len(s) /\ Len(s) \in Nat /\ \A i \in DOMAIN s : s[i] \in P \X P
  OBVIOUS
<1>2. IsFiniteSet(I)
  <2>1. IsFiniteSet(1 .. Len(s))
    BY <1>1, FS_Interval
  <2>2. I \in SUBSET (1 .. Len(s))
    BY <1>1
  <2> QED
    BY <2>1, <2>2, FS_Subset, Zenon
<1>3. e \in Finite(P \X P)
  BY <1>1, <1>2, ImageIsFinite DEF Finite
<1>4. ASSUME NEW i \in I, NEW j \in I, s[i][1] = s[j][1]
      PROVE  i = j
  BY <1>1, <1>4
<1>5. e \in Maps(P)
  BY <1>3, <1>4 DEF Maps
<1>6. DictOf(s).entries = e /\ DictOf(s) = Dict(e)
  BY DEF DictOf, Dict
<1> QED
  BY <1>5, <1>6

LEMMA DictOfDistinct ==
    ASSUME NEW P, NEW s \in Seq(P), \A i, j \in DOMAIN s : s[i][1] = s[j][1] => i = j
    PROVE  DictOf(s) = Dict({s[i] : i \in DOMAIN s})
<1>1. DOMAIN s \subseteq Nat
  OBVIOUS
<1>2. ASSUME NEW i \in DOMAIN s, NEW j \in DOMAIN s, j > i
      PROVE  s[j][1] # s[i][1]
  <2>1. i # j
    BY <1>1, <1>2
  <2> QED
    BY <2>1
<1>3. {i \in DOMAIN s : \A j \in DOMAIN s : j > i => s[j][1] # s[i][1]} = DOMAIN s
  BY <1>2, Zenon
<1> QED
  BY <1>3 DEF DictOf

-----------------------------------------------------------------------------
(* The functions on values are defined by recursion on their parts.        *)

\* What is done to a value only depends on what is done to its parts.
LEMMA ItemsAgree ==
    ASSUME NEW P, NEW f, NEW g, \A x \in P : f[x] = g[x], NEW s \in Seq(P)
    PROVE  All(f, s) = All(g, s)
BY DEF All

LEMMA MembersAgree ==
    ASSUME NEW P, NEW f, NEW g, \A x \in P : f[x] = g[x], NEW m \in Finite(P)
    PROVE  All(f, SetToSeq(m)) = All(g, SetToSeq(m))
<1>1. SetToSeq(m) \in Seq(m) /\ m \subseteq P
  BY SetToSeqFact DEF Finite
<1>2. SetToSeq(m) \in Seq(P)
  BY <1>1
<1> QED
  BY <1>2, ItemsAgree

LEMMA EntriesAgree ==
    ASSUME NEW P, NEW f, NEW g, \A x \in P : f[x] = g[x], NEW e \in Maps(P)
    PROVE  /\ WithValues(f, Dict(e)) = WithValues(g, Dict(e))
           /\ Pairs(f, Dict(e)) = Pairs(g, Dict(e))
<1> DEFINE s == SetToSeq(e)
<1>1. e \subseteq P \X P /\ IsFiniteSet(e) /\ Dict(e).entries = e
  BY DEF Maps, Finite, Dict
<1>2. s \in Seq(e)
  BY <1>1, SetToSeqFact
<1>3. \A entry \in e : f[entry[1]] = g[entry[1]] /\ f[entry[2]] = g[entry[2]]
  BY <1>1
<1> HIDE DEF s
<1>4. [i \in DOMAIN s |-> <<f[s[i][1]], f[s[i][2]]>>] =
      [i \in DOMAIN s |-> <<g[s[i][1]], g[s[i][2]]>>]
  BY <1>2, <1>3
<1>5. Pairs(f, Dict(e)) = Pairs(g, Dict(e))
  BY <1>1, <1>4 DEF Pairs, s
<1>6. {<<entry[1], f[entry[2]]>> : entry \in e} = {<<entry[1], g[entry[2]]>> : entry \in e}
  BY <1>3
<1> QED
  BY <1>1, <1>5, <1>6 DEF WithValues

LEMMA ByAgree ==
    ASSUME NEW P, NEW f, NEW g, \A x \in P : f[x] = g[x], NEW v \in MadeOf(P)
    PROVE  /\ SerializeBy(f, v) = SerializeBy(g, v)
           /\ DeserializeBy(f, v) = DeserializeBy(g, v)
           /\ ReceivedBy(f, v) = ReceivedBy(g, v)
           /\ IsJsonBy(f, v) = IsJsonBy(g, v)
           /\ \A S : WithoutBy(f, S, v) = WithoutBy(g, S, v)
<1>1. CASE v \in Leaves
  <2>1. v.kind \in {"atom", "opaque"}
    BY <1>1, LeafCases
  <2> QED
    BY <2>1 DEF SerializeBy, DeserializeBy, ReceivedBy, IsJsonBy, WithoutBy
<1>2. CASE v.kind = "list" /\ v.items \in Seq(P)
  <2>1. All(f, v.items) = All(g, v.items)
    BY <1>2, ItemsAgree
  <2>2. \A i \in DOMAIN v.items : f[v.items[i]] = g[v.items[i]]
    BY <1>2
  <2>3. \A S : WithoutBy(f, S, v) = WithoutBy(g, S, v)
    BY <1>2, <2>2 DEF WithoutBy
  <2> QED
    BY <1>2, <2>1, <2>2, <2>3 DEF SerializeBy, DeserializeBy, ReceivedBy, IsJsonBy
<1>3. CASE v.kind = "tuple" /\ v.items \in Seq(P)
  <2>1. All(f, v.items) = All(g, v.items)
    BY <1>3, ItemsAgree
  <2>2. \A i \in DOMAIN v.items : f[v.items[i]] = g[v.items[i]]
    BY <1>3
  <2>3. \A S : WithoutBy(f, S, v) = WithoutBy(g, S, v)
    BY <1>3, <2>2 DEF WithoutBy
  <2> QED
    BY <1>3, <2>1, <2>3 DEF SerializeBy, DeserializeBy, ReceivedBy, IsJsonBy
<1>4. CASE v.kind = "set" /\ v.members \in Finite(P)
  <2>1. All(f, SetToSeq(v.members)) = All(g, SetToSeq(v.members))
    BY <1>4, MembersAgree
  <2>2. {f[x] : x \in v.members} = {g[x] : x \in v.members}
    BY <1>4 DEF Finite
  <2>3. \A x \in v.members : f[x] = g[x]
    BY <1>4 DEF Finite
  <2>4. \A S : WithoutBy(f, S, v) = WithoutBy(g, S, v)
    BY <1>4, <2>3 DEF WithoutBy
  <2> QED
    BY <1>4, <2>1, <2>2, <2>4 DEF SerializeBy, DeserializeBy, ReceivedBy, IsJsonBy
<1>5. CASE v.kind = "dict" /\ v.entries \in Maps(P) /\ v = Dict(v.entries)
  <2>1. WithValues(f, v) = WithValues(g, v) /\ Pairs(f, v) = Pairs(g, v)
    BY <1>5, EntriesAgree
  <2>2. \A entry \in v.entries : f[entry[2]] = g[entry[2]]
    BY <1>5 DEF Maps, Finite
  <2>3. SerializeBy(f, v) = SerializeBy(g, v)
    BY <1>5, <2>1 DEF SerializeBy
  <2>4. DeserializeBy(f, v) = DeserializeBy(g, v)
    BY <1>5, <2>1 DEF DeserializeBy
  <2>5. ReceivedBy(f, v) = ReceivedBy(g, v)
    BY <1>5, <2>1 DEF ReceivedBy
  <2>6. IsJsonBy(f, v) = IsJsonBy(g, v)
    BY <1>5, <2>2 DEF IsJsonBy
  <2>7. \A entry \in v.entries : f[entry[1]] = g[entry[1]] /\ f[entry[2]] = g[entry[2]]
    BY <1>5 DEF Maps, Finite
  <2>8. \A S : WithoutBy(f, S, v) = WithoutBy(g, S, v)
    BY <1>5, <2>7 DEF WithoutBy
  <2> QED
    BY <2>3, <2>4, <2>5, <2>6, <2>8
<1> QED
  BY <1>1, <1>2, <1>3, <1>4, <1>5, MadeOfCases

\* The recursion ends, for each of the five functions.
LEMMA SerializeExists ==
    \E F : F = [x \in Nested[MaxDepth] |-> SerializeBy(F, x)]
<1> DEFINE T == {m \in Nat : m <= MaxDepth => \E F : F = [x \in Nested[m] |-> SerializeBy(F, x)]}
<1>1. 0 \in T
  <2> DEFINE F == [x \in Nested[0] |-> SerializeBy(<<>>, x)]
  <2>1. ASSUME NEW x \in Nested[0]
        PROVE  SerializeBy(<<>>, x) = SerializeBy(F, x)
    <3> HIDE DEF F
    <3>1. x \in MadeOf({})
      BY NestedStep, Made
    <3> QED
      BY <3>1, ByAgree
  <2>2. F = [x \in Nested[0] |-> SerializeBy(F, x)]
    BY <2>1
  <2> HIDE DEF F
  <2> QED
    BY <2>2
<1>2. ASSUME NEW m \in Nat, m \in T
      PROVE  m + 1 \in T
  <2>1. SUFFICES ASSUME m + 1 <= MaxDepth
                 PROVE  \E F : F = [x \in Nested[m + 1] |-> SerializeBy(F, x)]
    OBVIOUS
  <2>2. m < MaxDepth
    BY <2>1, DepthFact
  <2>3. PICK F : F = [x \in Nested[m] |-> SerializeBy(F, x)]
    BY <1>2, <2>2, DepthFact
  <2>4. Nested[m + 1] = MadeOf(Nested[m]) /\ Nested[m] \subseteq Nested[m + 1]
    BY <2>2, NestedStep
  <2> DEFINE G == [x \in Nested[m + 1] |-> SerializeBy(F, x)]
  <2>5. \A x \in Nested[m] : F[x] = G[x]
    BY <2>3, <2>4
  <2>6. ASSUME NEW x \in Nested[m + 1]
        PROVE  SerializeBy(F, x) = SerializeBy(G, x)
    <3> HIDE DEF G
    <3> QED
      BY <2>4, <2>5, ByAgree
  <2>7. G = [x \in Nested[m + 1] |-> SerializeBy(G, x)]
    BY <2>6
  <2> HIDE DEF G
  <2> QED
    BY <2>7
<1>3. MaxDepth \in T
  BY <1>1, <1>2, Induction, DepthFact
<1> QED
  BY <1>3, DepthFact

LEMMA DeserializeExists ==
    \E F : F = [x \in Nested[MaxDepth] |-> DeserializeBy(F, x)]
<1> DEFINE T == {m \in Nat : m <= MaxDepth => \E F : F = [x \in Nested[m] |-> DeserializeBy(F, x)]}
<1>1. 0 \in T
  <2> DEFINE F == [x \in Nested[0] |-> DeserializeBy(<<>>, x)]
  <2>1. ASSUME NEW x \in Nested[0]
        PROVE  DeserializeBy(<<>>, x) = DeserializeBy(F, x)
    <3> HIDE DEF F
    <3>1. x \in MadeOf({})
      BY NestedStep, Made
    <3> QED
      BY <3>1, ByAgree
  <2>2. F = [x \in Nested[0] |-> DeserializeBy(F, x)]
    BY <2>1
  <2> HIDE DEF F
  <2> QED
    BY <2>2
<1>2. ASSUME NEW m \in Nat, m \in T
      PROVE  m + 1 \in T
  <2>1. SUFFICES ASSUME m + 1 <= MaxDepth
                 PROVE  \E F : F = [x \in Nested[m + 1] |-> DeserializeBy(F, x)]
    OBVIOUS
  <2>2. m < MaxDepth
    BY <2>1, DepthFact
  <2>3. PICK F : F = [x \in Nested[m] |-> DeserializeBy(F, x)]
    BY <1>2, <2>2, DepthFact
  <2>4. Nested[m + 1] = MadeOf(Nested[m]) /\ Nested[m] \subseteq Nested[m + 1]
    BY <2>2, NestedStep
  <2> DEFINE G == [x \in Nested[m + 1] |-> DeserializeBy(F, x)]
  <2>5. \A x \in Nested[m] : F[x] = G[x]
    BY <2>3, <2>4
  <2>6. ASSUME NEW x \in Nested[m + 1]
        PROVE  DeserializeBy(F, x) = DeserializeBy(G, x)
    <3> HIDE DEF G
    <3> QED
      BY <2>4, <2>5, ByAgree
  <2>7. G = [x \in Nested[m + 1] |-> DeserializeBy(G, x)]
    BY <2>6
  <2> HIDE DEF G
  <2> QED
    BY <2>7
<1>3. MaxDepth \in T
  BY <1>1, <1>2, Induction, DepthFact
<1> QED
  BY <1>3, DepthFact

LEMMA ReceivedExists ==
    \E F : F = [x \in Nested[MaxDepth] |-> ReceivedBy(F, x)]
<1> DEFINE T == {m \in Nat : m <= MaxDepth => \E F : F = [x \in Nested[m] |-> ReceivedBy(F, x)]}
<1>1. 0 \in T
  <2> DEFINE F == [x \in Nested[0] |-> ReceivedBy(<<>>, x)]
  <2>1. ASSUME NEW x \in Nested[0]
        PROVE  ReceivedBy(<<>>, x) = ReceivedBy(F, x)
    <3> HIDE DEF F
    <3>1. x \in MadeOf({})
      BY NestedStep, Made
    <3> QED
      BY <3>1, ByAgree
  <2>2. F = [x \in Nested[0] |-> ReceivedBy(F, x)]
    BY <2>1
  <2> HIDE DEF F
  <2> QED
    BY <2>2
<1>2. ASSUME NEW m \in Nat, m \in T
      PROVE  m + 1 \in T
  <2>1. SUFFICES ASSUME m + 1 <= MaxDepth
                 PROVE  \E F : F = [x \in Nested[m + 1] |-> ReceivedBy(F, x)]
    OBVIOUS
  <2>2. m < MaxDepth
    BY <2>1, DepthFact
  <2>3. PICK F : F = [x \in Nested[m] |-> ReceivedBy(F, x)]
    BY <1>2, <2>2, DepthFact
  <2>4. Nested[m + 1] = MadeOf(Nested[m]) /\ Nested[m] \subseteq Nested[m + 1]
    BY <2>2, NestedStep
  <2> DEFINE G == [x \in Nested[m + 1] |-> ReceivedBy(F, x)]
  <2>5. \A x \in Nested[m] : F[x] = G[x]
    BY <2>3, <2>4
  <2>6. ASSUME NEW x \in Nested[m + 1]
        PROVE  ReceivedBy(F, x) = ReceivedBy(G, x)
    <3> HIDE DEF G
    <3> QED
      BY <2>4, <2>5, ByAgree
  <2>7. G = [x \in Nested[m + 1] |-> ReceivedBy(G, x)]
    BY <2>6
  <2> HIDE DEF G
  <2> QED
    BY <2>7
<1>3. MaxDepth \in T
  BY <1>1, <1>2, Induction, DepthFact
<1> QED
  BY <1>3, DepthFact

LEMMA IsJsonExists ==
    \E F : F = [x \in Nested[MaxDepth] |-> IsJsonBy(F, x)]
<1> DEFINE T == {m \in Nat : m <= MaxDepth => \E F : F = [x \in Nested[m] |-> IsJsonBy(F, x)]}
<1>1. 0 \in T
  <2> DEFINE F == [x \in Nested[0] |-> IsJsonBy(<<>>, x)]
  <2>1. ASSUME NEW x \in Nested[0]
        PROVE  IsJsonBy(<<>>, x) = IsJsonBy(F, x)
    <3> HIDE DEF F
    <3>1. x \in MadeOf({})
      BY NestedStep, Made
    <3> QED
      BY <3>1, ByAgree
  <2>2. F = [x \in Nested[0] |-> IsJsonBy(F, x)]
    BY <2>1
  <2> HIDE DEF F
  <2> QED
    BY <2>2
<1>2. ASSUME NEW m \in Nat, m \in T
      PROVE  m + 1 \in T
  <2>1. SUFFICES ASSUME m + 1 <= MaxDepth
                 PROVE  \E F : F = [x \in Nested[m + 1] |-> IsJsonBy(F, x)]
    OBVIOUS
  <2>2. m < MaxDepth
    BY <2>1, DepthFact
  <2>3. PICK F : F = [x \in Nested[m] |-> IsJsonBy(F, x)]
    BY <1>2, <2>2, DepthFact
  <2>4. Nested[m + 1] = MadeOf(Nested[m]) /\ Nested[m] \subseteq Nested[m + 1]
    BY <2>2, NestedStep
  <2> DEFINE G == [x \in Nested[m + 1] |-> IsJsonBy(F, x)]
  <2>5. \A x \in Nested[m] : F[x] = G[x]
    BY <2>3, <2>4
  <2>6. ASSUME NEW x \in Nested[m + 1]
        PROVE  IsJsonBy(F, x) = IsJsonBy(G, x)
    <3> HIDE DEF G
    <3> QED
      BY <2>4, <2>5, ByAgree
  <2>7. G = [x \in Nested[m + 1] |-> IsJsonBy(G, x)]
    BY <2>6
  <2> HIDE DEF G
  <2> QED
    BY <2>7
<1>3. MaxDepth \in T
  BY <1>1, <1>2, Induction, DepthFact
<1> QED
  BY <1>3, DepthFact

LEMMA WithoutExists ==
    ASSUME NEW S
    PROVE  \E F : F = [x \in Nested[MaxDepth] |-> WithoutBy(F, S, x)]
<1> DEFINE T == {m \in Nat : m <= MaxDepth => \E F : F = [x \in Nested[m] |-> WithoutBy(F, S, x)]}
<1>1. 0 \in T
  <2> DEFINE F == [x \in Nested[0] |-> WithoutBy(<<>>, S, x)]
  <2>1. ASSUME NEW x \in Nested[0]
        PROVE  WithoutBy(<<>>, S, x) = WithoutBy(F, S, x)
    <3> HIDE DEF F
    <3>1. x \in MadeOf({})
      BY NestedStep, Made
    <3> QED
      BY <3>1, ByAgree
  <2>2. F = [x \in Nested[0] |-> WithoutBy(F, S, x)]
    BY <2>1
  <2> HIDE DEF F
  <2> QED
    BY <2>2
<1>2. ASSUME NEW m \in Nat, m \in T
      PROVE  m + 1 \in T
  <2>1. SUFFICES ASSUME m + 1 <= MaxDepth
                 PROVE  \E F : F = [x \in Nested[m + 1] |-> WithoutBy(F, S, x)]
    OBVIOUS
  <2>2. m < MaxDepth
    BY <2>1, DepthFact
  <2>3. PICK F : F = [x \in Nested[m] |-> WithoutBy(F, S, x)]
    BY <1>2, <2>2, DepthFact
  <2>4. Nested[m + 1] = MadeOf(Nested[m]) /\ Nested[m] \subseteq Nested[m + 1]
    BY <2>2, NestedStep
  <2> DEFINE G == [x \in Nested[m + 1] |-> WithoutBy(F, S, x)]
  <2>5. \A x \in Nested[m] : F[x] = G[x]
    BY <2>3, <2>4
  <2>6. ASSUME NEW x \in Nested[m + 1]
        PROVE  WithoutBy(F, S, x) = WithoutBy(G, S, x)
    <3> HIDE DEF G
    <3> QED
      BY <2>4, <2>5, ByAgree
  <2>7. G = [x \in Nested[m + 1] |-> WithoutBy(G, S, x)]
    BY <2>6
  <2> HIDE DEF G
  <2> QED
    BY <2>7
<1>3. MaxDepth \in T
  BY <1>1, <1>2, Induction, DepthFact
<1> QED
  BY <1>3, DepthFact

SerializeF == CHOOSE F : F = [x \in Nested[MaxDepth] |-> SerializeBy(F, x)]
DeserializeF == CHOOSE F : F = [x \in Nested[MaxDepth] |-> DeserializeBy(F, x)]
ReceivedF == CHOOSE F : F = [x \in Nested[MaxDepth] |-> ReceivedBy(F, x)]
IsJsonF == CHOOSE F : F = [x \in Nested[MaxDepth] |-> IsJsonBy(F, x)]
WithoutF(S) == CHOOSE F : F = [x \in Nested[MaxDepth] |-> WithoutBy(F, S, x)]

\* And so each of them is what its definition says.
LEMMA SerializeIs ==
    /\ \A v : SerializeF[v] = Serialize(v)
    /\ \A v \in Nested[MaxDepth] : Serialize(v) = SerializeBy(SerializeF, v)
<1>1. \A v : SerializeF[v] = Serialize(v)
  BY DEF Serialize, SerializeF
<1>2. SerializeF = [x \in Nested[MaxDepth] |-> SerializeBy(SerializeF, x)]
  BY SerializeExists DEF SerializeF
<1> QED
  BY <1>1, <1>2

LEMMA DeserializeIs ==
    /\ \A v : DeserializeF[v] = Deserialize(v)
    /\ \A v \in Nested[MaxDepth] : Deserialize(v) = DeserializeBy(DeserializeF, v)
<1>1. \A v : DeserializeF[v] = Deserialize(v)
  BY DEF Deserialize, DeserializeF
<1>2. DeserializeF = [x \in Nested[MaxDepth] |-> DeserializeBy(DeserializeF, x)]
  BY DeserializeExists DEF DeserializeF
<1> QED
  BY <1>1, <1>2

LEMMA ReceivedIs ==
    /\ \A v : ReceivedF[v] = Received(v)
    /\ \A v \in Nested[MaxDepth] : Received(v) = ReceivedBy(ReceivedF, v)
<1>1. \A v : ReceivedF[v] = Received(v)
  BY DEF Received, ReceivedF
<1>2. ReceivedF = [x \in Nested[MaxDepth] |-> ReceivedBy(ReceivedF, x)]
  BY ReceivedExists DEF ReceivedF
<1> QED
  BY <1>1, <1>2

LEMMA IsJsonIs ==
    /\ \A v : IsJsonF[v] = IsJson(v)
    /\ \A v \in Nested[MaxDepth] : IsJson(v) = IsJsonBy(IsJsonF, v)
<1>1. \A v : IsJsonF[v] = IsJson(v)
  BY DEF IsJson, IsJsonF
<1>2. IsJsonF = [x \in Nested[MaxDepth] |-> IsJsonBy(IsJsonF, x)]
  BY IsJsonExists DEF IsJsonF
<1> QED
  BY <1>1, <1>2

LEMMA WithoutIs ==
    ASSUME NEW S
    PROVE  /\ \A v : WithoutF(S)[v] = Without(S, v)
           /\ \A v \in Nested[MaxDepth] : Without(S, v) = WithoutBy(WithoutF(S), S, v)
<1>1. \A v : WithoutF(S)[v] = Without(S, v)
  BY DEF Without, WithoutF
<1>2. WithoutF(S) = [x \in Nested[MaxDepth] |-> WithoutBy(WithoutF(S), S, x)]
  BY WithoutExists DEF WithoutF
<1> QED
  BY <1>1, <1>2

-----------------------------------------------------------------------------
(* What Serialize makes of a value is JSON.                                *)

Json(k) == {x \in Nested[k] : IsJson(x)}

LEMMA JsonGrows ==
    ASSUME NEW k \in Nat, NEW m \in Nat, k <= m, m <= MaxDepth
    PROVE  Json(k) \subseteq Json(m)
BY NestedGrows DEF Json

LEMMA AtomIsJson ==
    ASSUME NEW v \in Leaves, v.kind = "atom", NEW k \in Nat, k <= MaxDepth
    PROVE  v \in Json(k)
<1>1. v \in Nested[k] /\ v \in Nested[MaxDepth]
  BY NestedStep, NestedGrows, DepthFact
<1>2. IsJsonBy(IsJsonF, v)
  BY DEF IsJsonBy
<1> QED
  BY <1>1, <1>2, IsJsonIs DEF Json

LEMMA ListIsJson ==
    ASSUME NEW k \in Nat, k < MaxDepth, NEW s \in Seq(Json(k))
    PROVE  List(s) \in Json(k + 1)
<1>1. Json(k) \subseteq Nested[k]
  BY DEF Json
<1>2. s \in Seq(Nested[k])
  BY <1>1
<1>3. List(s) \in Nested[k + 1]
  BY <1>2, NestedStep, Made
<1>4. List(s) \in Nested[MaxDepth]
  BY <1>3, NestedGrows, DepthFact
<1>5. \A i \in DOMAIN s : IsJsonF[s[i]]
  BY IsJsonIs DEF Json
<1>6. IsJsonBy(IsJsonF, List(s))
  BY <1>5 DEF IsJsonBy, List
<1> QED
  BY <1>3, <1>4, <1>6, IsJsonIs DEF Json

LEMMA DictIsJson ==
    ASSUME NEW k \in Nat, k < MaxDepth, NEW e \in Maps(Nested[k]),
           StringKeys(Dict(e)), \A entry \in e : entry[2] \in Json(k)
    PROVE  Dict(e) \in Json(k + 1)
<1>1. Dict(e) \in Nested[k + 1]
  BY NestedStep, Made
<1>2. Dict(e) \in Nested[MaxDepth]
  BY <1>1, NestedGrows, DepthFact
<1>3. \A entry \in e : IsJsonF[entry[2]]
  BY IsJsonIs DEF Json
<1>4. IsJsonBy(IsJsonF, Dict(e))
  BY <1>3 DEF IsJsonBy, Dict
<1> QED
  BY <1>1, <1>2, <1>4, IsJsonIs DEF Json

LEMMA GetFact ==
    ASSUME NEW d, NEW key, NEW x, <<key, x>> \in d.entries,
           \A entry \in d.entries : entry[1] = key => entry = <<key, x>>
    PROVE  Get(d, key) = x
<1> DEFINE entry == CHOOSE entry \in d.entries : entry[1] = key
<1>1. \E y \in d.entries : y[1] = key
  <2>1. <<key, x>>[1] = key
    OBVIOUS
  <2> QED
    BY <2>1
<1>2. entry \in d.entries /\ entry[1] = key
  BY <1>1
<1>3. Get(d, key) = entry[2]
  BY DEF Get
<1> HIDE DEF entry
<1> QED
  BY <1>2, <1>3

LEMMA FinitePair == \A x, y : IsFiniteSet({x, y})
<1>1. SUFFICES ASSUME NEW x, NEW y
               PROVE  IsFiniteSet({x, y})
  OBVIOUS
<1>2. IsFiniteSet({x})
  BY FS_Singleton
<1>3. IsFiniteSet({x} \cup {y})
  BY <1>2, FS_AddElement
<1>4. {x} \cup {y} = {x, y}
  OBVIOUS
<1> QED
  BY <1>3, <1>4, Zenon

\* A dict with a marker says under it what it stands for.
LEMMA TaggedFact ==
    ASSUME NEW tag, NEW s
    PROVE  /\ Tagged(tag, s).kind = "dict"
           /\ Tagged(tag, s).entries = {<<Marker, Text(tag)>>, <<Text("items"), List(s)>>}
           /\ KeysOf(Tagged(tag, s)) = {Marker, Text("items")}
           /\ Get(Tagged(tag, s), Marker) = Text(tag)
           /\ Get(Tagged(tag, s), Text("items")) = List(s)
<1>1. Marker # Text("items")
  BY DEF Marker, Text, Atom
<1>2. /\ Tagged(tag, s).kind = "dict"
      /\ Tagged(tag, s).entries = {<<Marker, Text(tag)>>, <<Text("items"), List(s)>>}
  BY DEF Tagged, Dict
<1>3. KeysOf(Tagged(tag, s)) = {Marker, Text("items")}
  BY <1>2 DEF KeysOf
<1> DEFINE d == Tagged(tag, s)
<1>4. Get(d, Marker) = Text(tag)
  <2>1. /\ <<Marker, Text(tag)>> \in d.entries
        /\ \A entry \in d.entries : entry[1] = Marker => entry = <<Marker, Text(tag)>>
    BY <1>1, <1>2
  <2> HIDE DEF d
  <2> QED
    BY <2>1, GetFact
<1>5. Get(d, Text("items")) = List(s)
  <2>1. /\ <<Text("items"), List(s)>> \in d.entries
        /\ \A entry \in d.entries :
              entry[1] = Text("items") => entry = <<Text("items"), List(s)>>
    BY <1>1, <1>2
  <2> HIDE DEF d
  <2> QED
    BY <2>1, GetFact
<1> QED
  BY <1>2, <1>3, <1>4, <1>5

LEMMA TaggedIsJson ==
    ASSUME NEW k \in Nat, k + 1 < MaxDepth, NEW tag \in Names, NEW s \in Seq(Json(k))
    PROVE  Tagged(tag, s) \in Json(k + 2)
<1> DEFINE e == {<<Marker, Text(tag)>>, <<Text("items"), List(s)>>}
<1>1. k + 1 \in Nat /\ k + 1 <= MaxDepth /\ (k + 1) + 1 = k + 2
  BY DepthFact
<1>2. \A name \in Names : Text(name) \in Json(k + 1)
  BY <1>1, AtomIsJson, TextIsLeaf
<1>3. List(s) \in Json(k + 1)
  BY <1>1, ListIsJson, DepthFact
<1>4. Marker # Text("items")
  BY DEF Marker, Text, Atom
<1>5. IsFiniteSet(e)
  BY FinitePair
<1>6. e \in Maps(Nested[k + 1])
  <2>1. /\ Marker \in Nested[k + 1] /\ Text("items") \in Nested[k + 1]
        /\ Text(tag) \in Nested[k + 1] /\ List(s) \in Nested[k + 1]
    <3>1. \A name \in Names : Text(name) \in Nested[k + 1]
      BY <1>2 DEF Json
    <3>2. Marker \in Nested[k + 1]
      BY <3>1, NamesAssumption DEF Marker
    <3>3. Text("items") \in Nested[k + 1] /\ Text(tag) \in Nested[k + 1]
      BY <3>1, NamesAssumption
    <3> QED
      BY <1>3, <3>2, <3>3 DEF Json
  <2>2. e \in Finite(Nested[k + 1] \X Nested[k + 1])
    BY <1>5, <2>1 DEF Finite
  <2> QED
    BY <1>4, <2>2 DEF Maps
<1>7. StringKeys(Dict(e))
  BY DEF StringKeys, KeysOf, Dict, Marker, Text, Atom
<1>8. Dict(e) \in Json((k + 1) + 1)
  BY <1>1, <1>2, <1>3, <1>6, <1>7, DictIsJson
<1> QED
  BY <1>1, <1>8 DEF Tagged

LEMMA ItemsIn ==
    ASSUME NEW P, NEW Q, NEW f, \A x \in P : f[x] \in Q, NEW s \in Seq(P)
    PROVE  All(f, s) \in Seq(Q) /\ DOMAIN All(f, s) = DOMAIN s
BY DEF All

LEMMA MembersIn ==
    ASSUME NEW P, NEW m \in Finite(P)
    PROVE  /\ SetToSeq(m) \in Seq(P)
           /\ m = {SetToSeq(m)[i] : i \in DOMAIN SetToSeq(m)}
<1>1. m \subseteq P /\ IsFiniteSet(m)
  BY DEF Finite
<1>2. SetToSeq(m) \in Seq(m) /\ m = {SetToSeq(m)[i] : i \in DOMAIN SetToSeq(m)}
  BY <1>1, SetToSeqFact
<1> QED
  BY <1>1, <1>2

LEMMA PairsIn ==
    ASSUME NEW P, NEW Q, NEW f, \A x \in P : f[x] \in Q, NEW d, d.entries \in Maps(P)
    PROVE  Pairs(f, d) \in Seq(Q \X Q)
<1> DEFINE s == SetToSeq(d.entries)
<1>1. d.entries \in Finite(P \X P)
  BY DEF Maps
<1>2. s \in Seq(P \X P)
  BY <1>1, MembersIn
<1>3. Pairs(f, d) = [i \in DOMAIN s |-> <<f[s[i][1]], f[s[i][2]]>>]
  BY DEF Pairs
<1> HIDE DEF s
<1>4. \A i \in DOMAIN s : <<f[s[i][1]], f[s[i][2]]>> \in Q \X Q
  BY <1>2
<1> QED
  BY <1>2, <1>3, <1>4

\* The keys of a dict whose values are replaced.
LEMMA KeysOfWithValues ==
    ASSUME NEW f, NEW d
    PROVE  KeysOf(WithValues(f, d)) = KeysOf(d)
<1> DEFINE e == {<<entry[1], f[entry[2]]>> : entry \in d.entries}
<1>1. WithValues(f, d).entries = e
  BY DEF WithValues, Dict
<1>2. {x[1] : x \in e} = {entry[1] : entry \in d.entries}
  <2>1. \A x \in e : \E entry \in d.entries : x[1] = entry[1]
    OBVIOUS
  <2>2. \A entry \in d.entries : <<entry[1], f[entry[2]]>> \in e
    OBVIOUS
  <2>3. \A entry \in d.entries : \E x \in e : x[1] = entry[1]
    BY <2>2
  <2> HIDE DEF e
  <2> QED
    BY <2>1, <2>3
<1> QED
  BY <1>1, <1>2 DEF KeysOf

\* The values of a dict whose keys are kept.
LEMMA WithValuesFact ==
    ASSUME NEW P, NEW Q, NEW f, \A x \in P : f[x] \in Q, P \subseteq Q,
           NEW d, d.entries \in Maps(P)
    PROVE  /\ WithValues(f, d).kind = "dict"
           /\ WithValues(f, d).entries \in Maps(Q)
           /\ WithValues(f, d) = Dict(WithValues(f, d).entries)
<1> DEFINE e == {<<entry[1], f[entry[2]]>> : entry \in d.entries}
           g == [entry \in d.entries |-> <<entry[1], f[entry[2]]>>]
<1>1. d.entries \subseteq P \X P /\ IsFiniteSet(d.entries)
  BY DEF Maps, Finite
<1>2. IsFiniteSet({g[entry] : entry \in d.entries})
  BY <1>1, ImageIsFinite
<1>3. e = {g[entry] : entry \in d.entries}
  OBVIOUS
<1>4. e \in Finite(Q \X Q)
  <2>1. \A entry \in d.entries : <<entry[1], f[entry[2]]>> \in Q \X Q
    BY <1>1
  <2>2. e \subseteq Q \X Q
    BY <2>1
  <2>3. IsFiniteSet(e)
    BY <1>2, <1>3
  <2> HIDE DEF e
  <2> QED
    BY <2>2, <2>3 DEF Finite
<1>5. \A x, y \in d.entries : x[1] = y[1] => x = y
  BY DEF Maps
<1>6. \A x, y \in e : x[1] = y[1] => x = y
  BY <1>5
<1>7. e \in Maps(Q)
  BY <1>4, <1>6 DEF Maps
<1>8. WithValues(f, d) = Dict(e)
  BY DEF WithValues
<1> HIDE DEF e
<1> QED
  BY <1>7, <1>8 DEF Dict, e

LEMMA TextIsJson ==
    ASSUME NEW k \in Nat, k <= MaxDepth, NEW name \in Names
    PROVE  Text(name) \in Json(k)
BY TextIsLeaf, AtomIsJson

LEMMA LeafSerialized ==
    ASSUME NEW v \in Leaves
    PROVE  Serialize(v) \in Json(1)
<1>1. 0 <= MaxDepth /\ 1 <= MaxDepth /\ 0 < MaxDepth
  BY DepthAssumption DEF MaxDepth, Encoded
<1>2. v \in Nested[MaxDepth]
  BY <1>1, NestedStep, NestedGrows, DepthFact
<1>3. Serialize(v) = SerializeBy(SerializeF, v)
  BY <1>2, SerializeIs
<1>4. CASE v.kind = "atom"
  <2>1. Serialize(v) = v
    BY <1>3, <1>4 DEF SerializeBy
  <2> QED
    BY <1>1, <1>4, <2>1, AtomIsJson
<1>5. CASE v.kind = "opaque" /\ v.name \in Names /\ v.repr \in Names
  <2> DEFINE e == {<<Marker, Text("repr")>>, <<Text("type"), Text(v.name)>>,
                   <<Text("repr"), Text(v.repr)>>}
  <2>1. Serialize(v) = Dict(e)
    BY <1>3, <1>5 DEF SerializeBy
  <2>2. /\ Text("repr") \in Json(0) /\ Text("type") \in Json(0)
        /\ Text(v.name) \in Json(0) /\ Text(v.repr) \in Json(0) /\ Marker \in Json(0)
    BY <1>1, <1>5, TextIsJson, NamesAssumption DEF Marker
  <2>3. Marker # Text("type") /\ Marker # Text("repr") /\ Text("type") # Text("repr")
    BY DEF Marker, Text, Atom
  <2>4. e \in Maps(Nested[0])
    <3>1. IsFiniteSet({<<Marker, Text("repr")>>, <<Text("type"), Text(v.name)>>}
                         \cup {<<Text("repr"), Text(v.repr)>>})
      BY FinitePair, FS_AddElement
    <3>2. IsFiniteSet(e)
      BY <3>1
    <3>3. e \in Finite(Nested[0] \X Nested[0])
      BY <2>2, <3>2 DEF Finite, Json
    <3> QED
      BY <2>3, <3>3 DEF Maps
  <2>5. StringKeys(Dict(e))
    BY DEF StringKeys, KeysOf, Dict, Marker, Text, Atom
  <2>6. \A entry \in e : entry[2] \in Json(0)
    BY <2>2
  <2> HIDE DEF e
  <2>7. Dict(e) \in Json(0 + 1)
    BY <1>1, <2>4, <2>5, <2>6, DictIsJson
  <2> QED
    BY <2>1, <2>7
<1> QED
  BY <1>4, <1>5, LeafCases

\* One level of a value adds three to what is made of it: an object for a marker, a
\* list of pairs and the pairs.
LEMMA MadeSerialized ==
    ASSUME NEW n \in Nat, NEW k \in Nat, n < MaxDepth, n <= k, 1 <= k, k + 3 <= MaxDepth,
           \A x \in Nested[n] : Serialize(x) \in Json(k),
           NEW v \in Nested[n + 1]
    PROVE  Serialize(v) \in Json(k + 3)
<1> DEFINE P == Nested[n]
           F == SerializeF
<1>1. /\ v \in MadeOf(P) /\ v \in Nested[MaxDepth]
      /\ k < MaxDepth /\ k + 1 < MaxDepth /\ k <= MaxDepth
  BY NestedStep, NestedGrows, DepthFact
<1>2. \A x \in P : F[x] \in Json(k)
  BY SerializeIs
<1>3. Serialize(v) = SerializeBy(F, v)
  BY <1>1, SerializeIs
<1>4. Json(1) \subseteq Json(k + 3) /\ Json(k + 1) \subseteq Json(k + 3)
      /\ Json(k + 2) \subseteq Json(k + 3)
  BY JsonGrows
<1> HIDE DEF F
<1>5. CASE v \in Leaves
  BY <1>4, <1>5, LeafSerialized
<1>6. CASE v.kind = "list" /\ v.items \in Seq(P)
  <2>1. All(F, v.items) \in Seq(Json(k))
    BY <1>2, <1>6, ItemsIn
  <2>2. Serialize(v) = List(All(F, v.items))
    BY <1>3, <1>6 DEF SerializeBy
  <2>3. Serialize(v) \in Json(k + 1)
    BY <1>1, <2>1, <2>2, ListIsJson
  <2> QED
    BY <1>4, <2>3
<1>7. CASE v.kind = "tuple" /\ v.items \in Seq(P)
  <2>1. All(F, v.items) \in Seq(Json(k))
    BY <1>2, <1>7, ItemsIn
  <2>2. Serialize(v) = Tagged("tuple", All(F, v.items))
    BY <1>3, <1>7 DEF SerializeBy
  <2>3. Serialize(v) \in Json(k + 2)
    BY <1>1, <2>1, <2>2, TaggedIsJson, NamesAssumption
  <2> QED
    BY <1>4, <2>3
<1>8. CASE v.kind = "set" /\ v.members \in Finite(P)
  <2>1. SetToSeq(v.members) \in Seq(P)
    BY <1>8, MembersIn
  <2>2. All(F, SetToSeq(v.members)) \in Seq(Json(k))
    BY <1>2, <2>1, ItemsIn
  <2>3. Serialize(v) = Tagged("set", All(F, SetToSeq(v.members)))
    BY <1>3, <1>8 DEF SerializeBy
  <2>4. Serialize(v) \in Json(k + 2)
    BY <1>1, <2>2, <2>3, TaggedIsJson, NamesAssumption
  <2> QED
    BY <1>4, <2>4
<1>9. CASE v.kind = "dict" /\ v.entries \in Maps(P) /\ PlainKeys(v)
  <2>1. P \subseteq Nested[k] /\ \A x \in P : F[x] \in Nested[k]
    BY <1>1, <1>2, NestedGrows DEF Json
  <2> DEFINE d == WithValues(F, v)
  <2>2. /\ d = Dict(d.entries) /\ d.entries \in Maps(Nested[k])
        /\ d.entries = {<<entry[1], F[entry[2]]>> : entry \in v.entries}
        /\ KeysOf(d) = KeysOf(v)
    <3>1. d = Dict(d.entries) /\ d.entries \in Maps(Nested[k])
      BY <1>9, <2>1, WithValuesFact
    <3>2. d.entries = {<<entry[1], F[entry[2]]>> : entry \in v.entries}
      BY DEF WithValues, Dict
    <3>3. KeysOf(d) = KeysOf(v)
      BY KeysOfWithValues
    <3> QED
      BY <3>1, <3>2, <3>3
  <2>3. v.entries \subseteq P \X P
    BY <1>9 DEF Maps, Finite
  <2> HIDE DEF d
  <2>4. \A entry \in d.entries : entry[2] \in Json(k)
    BY <1>2, <2>2, <2>3
  <2>5. StringKeys(d)
    BY <1>9, <2>2 DEF PlainKeys, StringKeys
  <2>6. d \in Json(k + 1)
    BY <1>1, <2>2, <2>4, <2>5, DictIsJson
  <2>7. Serialize(v) = d
    BY <1>3, <1>9 DEF SerializeBy, d
  <2> QED
    BY <1>4, <2>6, <2>7
<1>10. CASE v.kind = "dict" /\ v.entries \in Maps(P) /\ ~ PlainKeys(v)
  <2> DEFINE p == Pairs(F, v)
             s == [i \in DOMAIN p |-> List(p[i])]
  <2>1. p \in Seq(Json(k) \X Json(k))
    BY <1>2, <1>10, PairsIn
  <2>2. Serialize(v) = Tagged("dict", s)
    BY <1>3, <1>10 DEF SerializeBy
  <2> HIDE DEF p
  <2>3. ASSUME NEW i \in DOMAIN p
        PROVE  p[i] \in Seq(Json(k))
    <3>1. PICK x \in Json(k), y \in Json(k) : p[i] = <<x, y>>
      BY <2>1
    <3> QED
      BY <3>1
  <2>4. \A i \in DOMAIN p : List(p[i]) \in Json(k + 1)
    BY <1>1, <2>3, ListIsJson
  <2>5. s \in Seq(Json(k + 1))
    BY <2>1, <2>4
  <2> HIDE DEF s
  <2>6. Tagged("dict", s) \in Json((k + 1) + 2)
    <3>1. k + 1 \in Nat /\ (k + 1) + 1 < MaxDepth /\ "dict" \in Names
      BY DepthFact, NamesAssumption
    <3> QED
      BY <2>5, <3>1, TaggedIsJson
  <2> QED
    BY <2>2, <2>6
<1> QED
  BY <1>1, <1>5, <1>6, <1>7, <1>8, <1>9, <1>10, MadeOfCases

\* What Serialize makes of a value is JSON, and no deeper than allowed for.
LEMMA Serialized ==
    ASSUME NEW n \in Nat, Encoded(n) <= MaxDepth, NEW v \in Nested[n]
    PROVE  Serialize(v) \in Json(Encoded(n))
<1> DEFINE T == {m \in Nat : Encoded(m) <= MaxDepth =>
                    \A x \in Nested[m] : Serialize(x) \in Json(Encoded(m))}
<1>1. 0 \in T
  BY NestedStep, LeafSerialized DEF Encoded
<1>2. ASSUME NEW m \in Nat, m \in T
      PROVE  m + 1 \in T
  <2>1. SUFFICES ASSUME Encoded(m + 1) <= MaxDepth, NEW x \in Nested[m + 1]
                 PROVE  Serialize(x) \in Json(Encoded(m + 1))
    OBVIOUS
  <2>2. /\ Encoded(m + 1) = Encoded(m) + 3 /\ Encoded(m) \in Nat
        /\ Encoded(m) <= MaxDepth /\ m < MaxDepth /\ m <= Encoded(m) /\ 1 <= Encoded(m)
    BY <2>1, DepthFact DEF Encoded
  <2>3. \A y \in Nested[m] : Serialize(y) \in Json(Encoded(m))
    BY <1>2, <2>2
  <2> QED
    BY <2>1, <2>2, <2>3, MadeSerialized
<1>3. Nat \subseteq T
  BY <1>1, <1>2, Induction
<1> QED
  BY <1>3

-----------------------------------------------------------------------------
(* A value that has been received once is not changed by a further trip.   *)

Settled(k) == {x \in Nested[k] : Received(x) = x}

LEMMA AtomIsSettled ==
    ASSUME NEW v \in Leaves, v.kind = "atom", NEW k \in Nat, k <= MaxDepth
    PROVE  v \in Settled(k)
<1>1. v \in Nested[k] /\ v \in Nested[MaxDepth]
  BY NestedStep, NestedGrows, DepthFact
<1>2. ReceivedBy(ReceivedF, v) = v
  BY DEF ReceivedBy
<1> QED
  BY <1>1, <1>2, ReceivedIs DEF Settled

LEMMA SettledGrows ==
    ASSUME NEW k \in Nat, NEW m \in Nat, k <= m, m <= MaxDepth
    PROVE  Settled(k) \subseteq Settled(m)
BY NestedGrows DEF Settled

LEMMA ItemsSettled ==
    ASSUME NEW k \in Nat, k < MaxDepth, NEW s \in Seq(Settled(k))
    PROVE  List(s) \in Settled(k + 1) /\ Tuple(s) \in Settled(k + 1)
<1>1. Settled(k) \subseteq Nested[k]
  BY DEF Settled
<1>2. s \in Seq(Nested[k])
  BY <1>1
<1>3. List(s) \in Nested[k + 1] /\ Tuple(s) \in Nested[k + 1]
  BY <1>2, NestedStep, Made
<1>4. List(s) \in Nested[MaxDepth] /\ Tuple(s) \in Nested[MaxDepth]
  BY <1>3, NestedGrows, DepthFact
<1>5. \A i \in DOMAIN s : ReceivedF[s[i]] = s[i]
  BY ReceivedIs DEF Settled
<1>6. All(ReceivedF, s) = s
  BY <1>5 DEF All
<1>7. ReceivedBy(ReceivedF, List(s)) = List(s) /\ ReceivedBy(ReceivedF, Tuple(s)) = Tuple(s)
  BY <1>6 DEF ReceivedBy, List, Tuple
<1> QED
  BY <1>3, <1>4, <1>7, ReceivedIs DEF Settled

LEMMA MembersSettled ==
    ASSUME NEW k \in Nat, k < MaxDepth, NEW m \in Finite(Settled(k))
    PROVE  SetOf(m) \in Settled(k + 1)
<1>1. m \in Finite(Nested[k])
  BY DEF Settled, Finite
<1>2. SetOf(m) \in Nested[k + 1]
  BY <1>1, NestedStep, Made
<1>3. SetOf(m) \in Nested[MaxDepth]
  BY <1>2, NestedGrows, DepthFact
<1>4. \A x \in m : ReceivedF[x] = x
  BY ReceivedIs DEF Settled, Finite
<1>5. {ReceivedF[x] : x \in m} = m
  BY <1>4
<1>6. ReceivedBy(ReceivedF, SetOf(m)) = SetOf(m)
  BY <1>5 DEF ReceivedBy, SetOf
<1> QED
  BY <1>2, <1>3, <1>6, ReceivedIs DEF Settled

\* A dict whose keys stay what they are keeps all of its entries.
LEMMA KeysKept ==
    ASSUME NEW P, NEW e \in Maps(P), NEW f, \A entry \in e : f[entry[1]] = entry[1]
    PROVE  DictOf(Pairs(f, Dict(e))) = WithValues(f, Dict(e))
<1> DEFINE p == Pairs(f, Dict(e))
           s == SetToSeq(e)
           g == [entry \in e |-> <<entry[1], f[entry[2]]>>]
           Q == {g[entry] : entry \in e}
<1>1. Dict(e).entries = e /\ IsFiniteSet(e) /\ \A x, y \in e : x[1] = y[1] => x = y
  BY DEF Dict, Maps, Finite
<1>2. /\ s \in Seq(e) /\ e = {s[i] : i \in DOMAIN s}
      /\ \A i, j \in DOMAIN s : s[i] = s[j] => i = j
  BY <1>1, SetToSeqFact
<1>3. p = [i \in DOMAIN s |-> <<f[s[i][1]], f[s[i][2]]>>]
  BY <1>1 DEF Pairs
<1> HIDE DEF s
<1>4. DOMAIN p = DOMAIN s /\ \A i \in DOMAIN s : s[i] \in e /\ p[i] = g[s[i]]
  <2>1. DOMAIN p = DOMAIN s /\ \A i \in DOMAIN s : s[i] \in e
    BY <1>2, <1>3
  <2>2. \A i \in DOMAIN s : p[i] = <<f[s[i][1]], f[s[i][2]]>>
    BY <1>3
  <2> HIDE DEF p
  <2>3. ASSUME NEW i \in DOMAIN s
        PROVE  p[i] = g[s[i]]
    <3>1. s[i] \in e
      BY <2>1
    <3>2. g[s[i]] = <<s[i][1], f[s[i][2]]>> /\ f[s[i][1]] = s[i][1]
      BY <3>1
    <3> QED
      BY <2>2, <3>2
  <2> QED
    BY <2>1, <2>3
<1>5. WithValues(f, Dict(e)) = Dict(Q)
  BY <1>1 DEF WithValues
<1>6. \A entry \in e : g[entry][1] = entry[1]
  OBVIOUS
<1> HIDE DEF p, g
<1>7. \A i, j \in DOMAIN p : p[i][1] = p[j][1] => i = j
  BY <1>1, <1>2, <1>4, <1>6
<1>8. p \in Seq(Q)
  <2>1. \A i \in DOMAIN s : p[i] \in Q
    BY <1>4
  <2>2. p = [i \in 1 .. Len(s) |-> p[i]] /\ Len(s) \in Nat /\ DOMAIN s = 1 .. Len(s)
    BY <1>2, <1>3, <1>4
  <2> QED
    BY <2>1, <2>2
<1>9. DictOf(p) = Dict({p[i] : i \in DOMAIN p})
  BY <1>7, <1>8, DictOfDistinct
<1>10. {p[i] : i \in DOMAIN p} = Q
  BY <1>2, <1>4
<1> QED
  BY <1>5, <1>9, <1>10 DEF p

LEMMA EntriesSettled ==
    ASSUME NEW k \in Nat, k < MaxDepth, NEW e \in Maps(Settled(k))
    PROVE  Dict(e) \in Settled(k + 1)
<1>1. e \subseteq Settled(k) \X Settled(k) /\ Settled(k) \subseteq Nested[k]
  BY DEF Maps, Finite, Settled
<1>2. e \in Maps(Nested[k])
  BY <1>1 DEF Maps, Finite
<1>3. Dict(e) \in Nested[k + 1]
  BY <1>2, NestedStep, Made
<1>4. Dict(e) \in Nested[MaxDepth]
  BY <1>3, NestedGrows, DepthFact
<1>5. \A entry \in e : /\ ReceivedF[entry[1]] = entry[1] /\ ReceivedF[entry[2]] = entry[2]
                       /\ entry = <<entry[1], entry[2]>>
  BY <1>1, ReceivedIs DEF Settled
<1>6. {<<entry[1], ReceivedF[entry[2]]>> : entry \in e} = e
  BY <1>5
<1>7. WithValues(ReceivedF, Dict(e)) = Dict(e)
  BY <1>6 DEF WithValues, Dict
<1>8. DictOf(Pairs(ReceivedF, Dict(e))) = WithValues(ReceivedF, Dict(e))
  BY <1>5, KeysKept
<1>9. ReceivedBy(ReceivedF, Dict(e)) = DictOf(Pairs(ReceivedF, Dict(e)))
  BY DEF ReceivedBy, Dict
<1> QED
  BY <1>3, <1>4, <1>7, <1>8, <1>9, ReceivedIs DEF Settled

LEMMA MadeReceived ==
    ASSUME NEW n \in Nat, n < MaxDepth,
           \A x \in Nested[n] : Received(x) \in Settled(n),
           NEW v \in Nested[n + 1]
    PROVE  Received(v) \in Settled(n + 1)
<1> DEFINE P == Nested[n]
           F == ReceivedF
           S == Settled(n)
<1>1. v \in MadeOf(P) /\ v \in Nested[MaxDepth] /\ n + 1 <= MaxDepth /\ n + 1 \in Nat
  BY NestedStep, NestedGrows, DepthFact
<1>2. \A x \in P : F[x] \in S
  BY ReceivedIs
<1>3. Received(v) = ReceivedBy(F, v)
  BY <1>1, ReceivedIs
<1> HIDE DEF F, P, S
<1>4. CASE v \in Leaves
  <2>1. Received(v) \in Leaves /\ Received(v).kind = "atom"
    BY <1>3, <1>4, LeafCases, TextIsLeaf DEF ReceivedBy
  <2> QED
    BY <1>1, <2>1, AtomIsSettled
<1>5. CASE v.kind \in {"list", "tuple"} /\ v.items \in Seq(P)
  <2>1. All(F, v.items) \in Seq(S)
    BY <1>2, <1>5, ItemsIn
  <2>2. Received(v) \in {List(All(F, v.items)), Tuple(All(F, v.items))}
    BY <1>3, <1>5 DEF ReceivedBy
  <2> QED
    BY <2>1, <2>2, ItemsSettled DEF S
<1>6. CASE v.kind = "set" /\ v.members \in Finite(P)
  <2> DEFINE m == {F[x] : x \in v.members}
  <2>1. v.members \subseteq P /\ IsFiniteSet(v.members)
    BY <1>6 DEF Finite
  <2>2. IsFiniteSet(m)
    BY <2>1, ImageIsFinite
  <2>3. m \subseteq S
    BY <1>2, <2>1
  <2>4. Received(v) = SetOf(m)
    BY <1>3, <1>6 DEF ReceivedBy
  <2> HIDE DEF m
  <2>5. m \in Finite(Settled(n))
    BY <2>2, <2>3 DEF Finite, S
  <2> QED
    BY <2>4, <2>5, MembersSettled
<1>7. CASE v.kind = "dict" /\ v.entries \in Maps(P)
  <2> DEFINE p == Pairs(F, v)
             e == DictOf(p).entries
  <2>1. p \in Seq(S \X S)
    BY <1>2, <1>7, PairsIn
  <2>2. e \in Maps(S) /\ DictOf(p) = Dict(e)
    BY <2>1, DictOfFact
  <2>3. Received(v) = DictOf(p)
    BY <1>3, <1>7 DEF ReceivedBy
  <2> HIDE DEF e
  <2> QED
    BY <2>2, <2>3, EntriesSettled DEF S
<1> QED
  BY <1>1, <1>4, <1>5, <1>6, <1>7, MadeOfCases

\* What is received is nested no deeper, and further trips leave it as it is.
LEMMA ReceivedIsSettled ==
    ASSUME NEW n \in Nat, n <= MaxDepth, NEW v \in Nested[n]
    PROVE  Received(v) \in Settled(n)
<1> DEFINE T == {m \in Nat : m <= MaxDepth => \A x \in Nested[m] : Received(x) \in Settled(m)}
<1>1. 0 \in T
  <2>1. ASSUME NEW x \in Leaves
        PROVE  Received(x) \in Settled(0)
    <3>1. x \in Nested[MaxDepth]
      BY NestedStep, NestedGrows, DepthFact
    <3>2. Received(x) = ReceivedBy(ReceivedF, x)
      BY <3>1, ReceivedIs
    <3>3. Received(x) \in Leaves /\ Received(x).kind = "atom"
      BY <3>2, LeafCases, TextIsLeaf DEF ReceivedBy
    <3> QED
      BY <3>3, AtomIsSettled, DepthFact
  <2> QED
    BY <2>1, NestedStep
<1>2. ASSUME NEW m \in Nat, m \in T
      PROVE  m + 1 \in T
  <2>1. SUFFICES ASSUME m + 1 <= MaxDepth, NEW x \in Nested[m + 1]
                 PROVE  Received(x) \in Settled(m + 1)
    OBVIOUS
  <2>2. m < MaxDepth /\ m <= MaxDepth
    BY <2>1, DepthFact
  <2>3. \A y \in Nested[m] : Received(y) \in Settled(m)
    BY <1>2, <2>2
  <2> QED
    BY <2>1, <2>2, <2>3, MadeReceived
<1>3. Nat \subseteq T
  BY <1>1, <1>2, Induction
<1> QED
  BY <1>3

\* A trip leaves JSON as it is.
LEMMA JsonIsSettled ==
    ASSUME NEW n \in Nat, n <= MaxDepth
    PROVE  Json(n) \subseteq Settled(n)
<1> DEFINE T == {m \in Nat : m <= MaxDepth => Json(m) \subseteq Settled(m)}
<1>1. ASSUME NEW m \in Nat, m <= MaxDepth, NEW v \in Json(m)
      PROVE  /\ v \in Nested[m] /\ IsJsonBy(IsJsonF, v)
             /\ v.kind \in {"atom", "list", "dict"}
  <2>1. v \in Nested[m] /\ v \in Nested[MaxDepth] /\ IsJson(v)
    BY <1>1, NestedGrows, DepthFact DEF Json
  <2>2. IsJsonBy(IsJsonF, v)
    BY <2>1, IsJsonIs
  <2> QED
    BY <2>1, <2>2 DEF IsJsonBy
<1>2. 0 \in T
  <2>1. ASSUME NEW v \in Json(0)
        PROVE  v \in Settled(0)
    <3>1. v \in Leaves /\ v.kind \in {"atom", "list", "dict"}
      BY <1>1, NestedStep, DepthFact
    <3> QED
      BY <3>1, LeafCases, AtomIsSettled, DepthFact
  <2> QED
    BY <2>1
<1>3. ASSUME NEW m \in Nat, m \in T
      PROVE  m + 1 \in T
  <2>1. SUFFICES ASSUME m + 1 <= MaxDepth, NEW v \in Json(m + 1)
                 PROVE  v \in Settled(m + 1)
    OBVIOUS
  <2>2. m < MaxDepth /\ m <= MaxDepth /\ Json(m) \subseteq Settled(m)
    BY <1>3, <2>1, DepthFact
  <2>3. /\ v \in MadeOf(Nested[m]) /\ IsJsonBy(IsJsonF, v)
        /\ v.kind \in {"atom", "list", "dict"}
    BY <1>1, <2>1, <2>2, NestedStep
  <2>4. CASE v \in Leaves
    BY <2>1, <2>3, <2>4, LeafCases, AtomIsSettled
  <2>5. CASE v.kind = "list" /\ v.items \in Seq(Nested[m]) /\ v = List(v.items)
    <3>1. \A i \in DOMAIN v.items : IsJsonF[v.items[i]]
      BY <2>3, <2>5 DEF IsJsonBy
    <3>2. \A i \in DOMAIN v.items : v.items[i] \in Settled(m)
      BY <2>2, <2>5, <3>1, IsJsonIs DEF Json
    <3>3. v.items \in Seq(Settled(m))
      BY <2>5, <3>2
    <3> QED
      BY <2>2, <2>5, <3>3, ItemsSettled
  <2>6. CASE v.kind = "dict" /\ v.entries \in Maps(Nested[m]) /\ v = Dict(v.entries)
    <3>1. StringKeys(v) /\ \A entry \in v.entries : IsJsonF[entry[2]]
      BY <2>3, <2>6 DEF IsJsonBy
    <3>2. v.entries \subseteq Nested[m] \X Nested[m]
      BY <2>6 DEF Maps, Finite
    <3>3. \A entry \in v.entries : entry[2] \in Settled(m)
      BY <2>2, <3>1, <3>2, IsJsonIs DEF Json
    <3>4. ASSUME NEW entry \in v.entries
          PROVE  entry[1] \in Settled(m)
      <4>1. entry[1] \in Nested[MaxDepth] /\ entry[1] \in Nested[m]
        BY <2>2, <3>2, NestedGrows, DepthFact
      <4>2. entry[1].kind = "atom"
        BY <3>1 DEF StringKeys, KeysOf
      <4>3. ReceivedBy(ReceivedF, entry[1]) = entry[1]
        BY <4>2 DEF ReceivedBy
      <4> QED
        BY <4>1, <4>3, ReceivedIs DEF Settled
    <3>5. v.entries \subseteq Settled(m) \X Settled(m)
      BY <3>2, <3>3, <3>4
    <3>6. v.entries \in Maps(Settled(m))
      BY <2>6, <3>5 DEF Maps, Finite
    <3> QED
      BY <2>2, <2>6, <3>6, EntriesSettled
  <2> QED
    BY <2>3, <2>4, <2>5, <2>6, MadeOfCases
<1>4. Nat \subseteq T
  BY <1>2, <1>3, Induction
<1> QED
  BY <1>4

-----------------------------------------------------------------------------
(* Deserialize undoes what Serialize does, but for objects.                *)

LEMMA TaggedDeserialized ==
    ASSUME NEW k \in Nat, k + 1 < MaxDepth, NEW tag \in {"tuple", "set", "dict"},
           NEW s \in Seq(Json(k))
    PROVE  LET items == All(DeserializeF, s)
           IN  Deserialize(Tagged(tag, s)) =
                 CASE tag = "tuple" -> Tuple(items)
                   [] tag = "set" -> SetOf({items[i] : i \in DOMAIN items})
                   [] tag = "dict" ->
                        DictOf([i \in DOMAIN items |-> <<items[i].items[1], items[i].items[2]>>])
<1> DEFINE v == Tagged(tag, s)
           F == DeserializeF
           d == WithValues(F, v)
           items == All(F, s)
<1>1. /\ v \in Nested[MaxDepth] /\ List(s) \in Nested[MaxDepth]
  <2>1. v \in Json(k + 2) /\ List(s) \in Json(k + 1)
    BY TaggedIsJson, ListIsJson, NamesAssumption, DepthFact
  <2> QED
    BY <2>1, NestedGrows, DepthFact DEF Json
<1>2. F[List(s)] = List(items)
  <2>1. DeserializeBy(F, List(s)) = List(items)
    BY DEF DeserializeBy, List
  <2> QED
    BY <1>1, <2>1, DeserializeIs
<1>3. /\ v.kind = "dict" /\ Marker \in KeysOf(v) /\ Get(v, Marker) = Text(tag)
      /\ v.entries = {<<Marker, Text(tag)>>, <<Text("items"), List(s)>>}
  BY TaggedFact
<1>4. Get(d, Text("items")).items = items
  <2>1. d.entries = {<<entry[1], F[entry[2]]>> : entry \in v.entries}
    BY DEF WithValues, Dict
  <2>2. d.entries = {<<Marker, F[Text(tag)]>>, <<Text("items"), F[List(s)]>>}
    BY <1>3, <2>1
  <2>3. Marker # Text("items")
    BY DEF Marker, Text, Atom
  <2>4. Get(d, Text("items")) = F[List(s)]
    <3>1. /\ <<Text("items"), F[List(s)]>> \in d.entries
          /\ \A entry \in d.entries :
                entry[1] = Text("items") => entry = <<Text("items"), F[List(s)]>>
      BY <2>2, <2>3
    <3> HIDE DEF d
    <3> QED
      BY <3>1, GetFact
  <2> QED
    BY <1>2, <2>4 DEF List
<1>5. Deserialize(v) = DeserializeBy(F, v)
  BY <1>1, DeserializeIs
<1>6. Text(tag) # None /\ \A other : Text(tag) = Text(other) <=> tag = other
  BY DEF Text, Atom, None
<1> DEFINE Items == Get(d, Text("items")).items
<1> HIDE DEF v, F, items
<1>7. CASE tag = "tuple"
  <2>1. DeserializeBy(F, v) = Tuple(Items)
    BY <1>3, <1>6, <1>7 DEF DeserializeBy
  <2> QED
    BY <1>4, <1>5, <1>7, <2>1 DEF v, F, items
<1>8. CASE tag = "set"
  <2>1. DeserializeBy(F, v) = SetOf({Items[i] : i \in DOMAIN Items})
    BY <1>3, <1>6, <1>8 DEF DeserializeBy
  <2> QED
    BY <1>4, <1>5, <1>8, <2>1 DEF v, F, items
<1>9. CASE tag = "dict"
  <2>1. DeserializeBy(F, v) =
          DictOf([i \in DOMAIN Items |-> <<Items[i].items[1], Items[i].items[2]>>])
    BY <1>3, <1>6, <1>9 DEF DeserializeBy
  <2> QED
    BY <1>4, <1>5, <1>9, <2>1 DEF v, F, items
<1> QED
  BY <1>7, <1>8, <1>9

\* Under the keys of a dict without the marker, only the values are decoded.
LEMMA UntaggedDeserialized ==
    ASSUME NEW v \in Nested[MaxDepth], v.kind = "dict", Marker \notin KeysOf(v)
    PROVE  Deserialize(v) = WithValues(DeserializeF, v)
BY DeserializeIs DEF DeserializeBy

LEMMA LeafDeserialized ==
    ASSUME NEW v \in Leaves
    PROVE  Deserialize(Serialize(v)) = Received(v)
<1> DEFINE w == Serialize(v)
<1>1. 1 <= MaxDepth /\ 0 <= MaxDepth
  BY DepthAssumption DEF MaxDepth, Encoded
<1>2. v \in Nested[MaxDepth]
  BY <1>1, NestedStep, NestedGrows, DepthFact
<1>3. w \in Nested[MaxDepth]
  BY <1>1, LeafSerialized, NestedGrows, DepthFact DEF Json
<1>4. /\ w = SerializeBy(SerializeF, v)
      /\ Deserialize(w) = DeserializeBy(DeserializeF, w)
      /\ Received(v) = ReceivedBy(ReceivedF, v)
  BY <1>2, <1>3, SerializeIs, DeserializeIs, ReceivedIs
<1> HIDE DEF w
<1>5. CASE v.kind = "atom"
  <2>1. w = v /\ Received(v) = v
    BY <1>4, <1>5 DEF SerializeBy, ReceivedBy
  <2> QED
    BY <1>4, <1>5, <2>1 DEF DeserializeBy, w
<1>6. CASE v.kind = "opaque"
  <2>1. w = Dict({<<Marker, Text("repr")>>, <<Text("type"), Text(v.name)>>,
                  <<Text("repr"), Text(v.repr)>>})
    BY <1>4, <1>6 DEF SerializeBy
  <2>2. /\ w.kind = "dict"
        /\ w.entries = {<<Marker, Text("repr")>>, <<Text("type"), Text(v.name)>>,
                        <<Text("repr"), Text(v.repr)>>}
    BY <2>1 DEF Dict
  <2>3. Marker # Text("type") /\ Marker # Text("repr") /\ Text("type") # Text("repr")
    BY DEF Marker, Text, Atom
  <2>4. Get(w, Marker) = Text("repr")
    <3>1. /\ <<Marker, Text("repr")>> \in w.entries
          /\ \A entry \in w.entries : entry[1] = Marker => entry = <<Marker, Text("repr")>>
      BY <2>2, <2>3
    <3> QED
      BY <3>1, GetFact
  <2>5. Get(w, Text("repr")) = Text(v.repr)
    <3>1. /\ <<Text("repr"), Text(v.repr)>> \in w.entries
          /\ \A entry \in w.entries :
                entry[1] = Text("repr") => entry = <<Text("repr"), Text(v.repr)>>
      BY <2>2, <2>3
    <3> QED
      BY <3>1, GetFact
  <2>6. Marker \in KeysOf(w)
    BY <2>2 DEF KeysOf
  <2>7. /\ Text("repr") # Text("tuple") /\ Text("repr") # Text("set")
        /\ Text("repr") # Text("dict") /\ Text("repr") # None
    BY DEF Text, Atom, None
  <2>8. DeserializeBy(DeserializeF, w) = Get(w, Text("repr"))
    BY <2>2, <2>4, <2>6, <2>7 DEF DeserializeBy
  <2>9. Received(v) = Text(v.repr)
    BY <1>4, <1>6 DEF ReceivedBy
  <2> QED
    BY <1>4, <2>5, <2>8, <2>9 DEF w
<1> QED
  BY <1>5, <1>6, LeafCases

LEMMA MadeDeserialized ==
    ASSUME NEW n \in Nat, Encoded(n + 1) <= MaxDepth,
           \A x \in Nested[n] : Deserialize(Serialize(x)) = Received(x),
           NEW v \in Nested[n + 1]
    PROVE  Deserialize(Serialize(v)) = Received(v)
<1> DEFINE P == Nested[n]
           k == Encoded(n)
           S == SerializeF
           D == DeserializeF
           R == ReceivedF
<1>1. /\ k \in Nat /\ n < MaxDepth /\ k <= MaxDepth /\ k + 3 <= MaxDepth /\ n <= k
      /\ k < MaxDepth /\ k + 1 < MaxDepth /\ k + 1 \in Nat
  BY DepthFact DEF Encoded
<1>2. v \in MadeOf(P) /\ v \in Nested[MaxDepth]
  BY <1>1, NestedStep, NestedGrows, DepthFact
<1>3. \A x \in P : S[x] \in Json(k) /\ D[S[x]] = R[x]
  BY <1>1, Serialized, SerializeIs, DeserializeIs, ReceivedIs
<1>4. Serialize(v) = SerializeBy(S, v) /\ Received(v) = ReceivedBy(R, v)
  BY <1>2, SerializeIs, ReceivedIs
<1>5. P \subseteq Nested[k] /\ \A x \in P : S[x] \in Nested[k]
  BY <1>1, <1>3, NestedGrows DEF Json
<1> HIDE DEF k, S, R, P
<1>6. ASSUME NEW s \in Seq(P)
      PROVE  All(S, s) \in Seq(Json(k)) /\ All(D, All(S, s)) = All(R, s)
  <2>1. All(S, s) \in Seq(Json(k))
    BY <1>3, <1>6, ItemsIn
  <2>2. \A i \in DOMAIN s : D[S[s[i]]] = R[s[i]]
    BY <1>3, <1>6
  <2>3. All(D, All(S, s)) = [i \in DOMAIN s |-> D[S[s[i]]]]
    BY DEF All
  <2> QED
    BY <2>1, <2>2, <2>3 DEF All
<1>7. CASE v \in Leaves
  BY <1>7, LeafDeserialized
<1>8. CASE v.kind = "list" /\ v.items \in Seq(P)
  <2> DEFINE w == List(All(S, v.items))
  <2>1. Serialize(v) = w /\ Received(v) = List(All(R, v.items))
    BY <1>4, <1>8 DEF SerializeBy, ReceivedBy
  <2>2. w \in Nested[MaxDepth]
    <3>1. w \in Json(k + 1)
      BY <1>1, <1>6, <1>8, ListIsJson
    <3> QED
      BY <1>1, <3>1, NestedGrows, DepthFact DEF Json
  <2>3. Deserialize(w) = DeserializeBy(D, w)
    BY <2>2, DeserializeIs
  <2>4. DeserializeBy(D, w) = List(All(D, All(S, v.items)))
    BY DEF DeserializeBy, List
  <2> QED
    BY <1>6, <1>8, <2>1, <2>3, <2>4
<1>9. CASE v.kind = "tuple" /\ v.items \in Seq(P)
  <2> DEFINE s == All(S, v.items)
  <2>1. Serialize(v) = Tagged("tuple", s) /\ Received(v) = Tuple(All(R, v.items))
    BY <1>4, <1>9 DEF SerializeBy, ReceivedBy
  <2>2. s \in Seq(Json(k)) /\ All(D, s) = All(R, v.items)
    BY <1>6, <1>9
  <2> HIDE DEF s
  <2>3. Deserialize(Tagged("tuple", s)) = Tuple(All(D, s))
    BY <1>1, <2>2, TaggedDeserialized
  <2> QED
    BY <2>1, <2>2, <2>3
<1>10. CASE v.kind = "set" /\ v.members \in Finite(P)
  <2> DEFINE q == SetToSeq(v.members)
             s == All(S, q)
             t == All(R, q)
  <2>1. Serialize(v) = Tagged("set", s) /\ Received(v) = SetOf({R[x] : x \in v.members})
    BY <1>4, <1>10 DEF SerializeBy, ReceivedBy
  <2>2. q \in Seq(P) /\ v.members = {q[i] : i \in DOMAIN q}
    BY <1>10, MembersIn
  <2> HIDE DEF q
  <2>3. s \in Seq(Json(k)) /\ All(D, s) = t
    BY <1>6, <2>2
  <2>4. {t[i] : i \in DOMAIN t} = {R[x] : x \in v.members}
    <3>1. DOMAIN t = DOMAIN q /\ \A i \in DOMAIN q : t[i] = R[q[i]]
      BY DEF All
    <3> HIDE DEF t
    <3> QED
      BY <2>2, <3>1
  <2> HIDE DEF s
  <2>5. Deserialize(Tagged("set", s)) = SetOf({t[i] : i \in DOMAIN t})
    BY <1>1, <2>3, TaggedDeserialized
  <2> QED
    BY <2>1, <2>4, <2>5
<1>11. CASE v.kind = "dict" /\ v.entries \in Maps(P) /\ v = Dict(v.entries) /\ PlainKeys(v)
  <2> DEFINE w == WithValues(S, v)
  <2>1. Serialize(v) = w /\ Received(v) = DictOf(Pairs(R, v))
    BY <1>4, <1>11 DEF SerializeBy, ReceivedBy
  <2>2. /\ w.kind = "dict" /\ KeysOf(w) = KeysOf(v)
        /\ w.entries = {<<entry[1], S[entry[2]]>> : entry \in v.entries}
    <3>1. KeysOf(w) = KeysOf(v)
      BY KeysOfWithValues
    <3> QED
      BY <3>1 DEF WithValues, Dict
  <2>3. Marker \notin KeysOf(w)
    BY <1>11, <2>2 DEF PlainKeys
  <2>4. w \in Nested[MaxDepth]
    <3>1. Serialize(v) \in Json(Encoded(n + 1))
      BY Serialized
    <3> QED
      BY <2>1, <3>1, NestedGrows, DepthFact DEF Json, Encoded
  <2> HIDE DEF w
  <2>5. Deserialize(w) = WithValues(D, w)
    BY <2>2, <2>3, <2>4, UntaggedDeserialized
  <2>6. v.entries \subseteq P \X P
    BY <1>11 DEF Maps, Finite
  <2>7. {<<entry[1], D[entry[2]]>> : entry \in w.entries} =
        {<<entry[1], R[entry[2]]>> : entry \in v.entries}
    <3>1. \A entry \in v.entries : D[S[entry[2]]] = R[entry[2]]
      BY <1>3, <2>6
    <3>2. {<<entry[1], D[entry[2]]>> : entry \in w.entries} =
          {<<entry[1], D[S[entry[2]]]>> : entry \in v.entries}
      <4>1. \A x \in w.entries : \E entry \in v.entries : x = <<entry[1], S[entry[2]]>>
        BY <2>2
      <4>2. \A entry \in v.entries : <<entry[1], S[entry[2]]>> \in w.entries
        BY <2>2
      <4>3. \A x \in w.entries :
               \E entry \in v.entries : <<x[1], D[x[2]]>> = <<entry[1], D[S[entry[2]]]>>
        BY <4>1
      <4>4. \A entry \in v.entries :
               \E x \in w.entries : <<x[1], D[x[2]]>> = <<entry[1], D[S[entry[2]]]>>
        BY <4>2
      <4> QED
        BY <4>3, <4>4
    <3> QED
      BY <3>1, <3>2
  <2>8. WithValues(D, w) = WithValues(R, v)
    BY <2>7 DEF WithValues
  <2>9. \A entry \in v.entries : R[entry[1]] = entry[1]
    <3>1. ASSUME NEW entry \in v.entries
          PROVE  R[entry[1]] = entry[1]
      <4>1. entry[1].kind = "atom"
        BY <1>11 DEF PlainKeys, KeysOf
      <4>2. entry[1] \in Nested[MaxDepth]
        BY <1>1, <1>5, <2>6, NestedGrows, DepthFact
      <4>3. ReceivedBy(ReceivedF, entry[1]) = entry[1]
        BY <4>1 DEF ReceivedBy
      <4> QED
        BY <4>2, <4>3, ReceivedIs DEF R
    <3> QED
      BY <3>1
  <2>10. DictOf(Pairs(R, v)) = WithValues(R, v)
    BY <1>11, <2>9, KeysKept
  <2> QED
    BY <2>1, <2>5, <2>8, <2>10
<1>12. CASE v.kind = "dict" /\ v.entries \in Maps(P) /\ ~ PlainKeys(v)
  <2> DEFINE q == SetToSeq(v.entries)
             p == Pairs(S, v)
             s == [i \in DOMAIN p |-> List(p[i])]
             items == All(D, s)
  <2>1. Serialize(v) = Tagged("dict", s) /\ Received(v) = DictOf(Pairs(R, v))
    BY <1>4, <1>12 DEF SerializeBy, ReceivedBy
  <2>2. p \in Seq(Json(k) \X Json(k))
    BY <1>3, <1>12, PairsIn
  <2>3. /\ p = [i \in DOMAIN q |-> <<S[q[i][1]], S[q[i][2]]>>]
        /\ Pairs(R, v) = [i \in DOMAIN q |-> <<R[q[i][1]], R[q[i][2]]>>]
    BY DEF Pairs
  <2>4. q \in Seq(P \X P)
    BY <1>12, MembersIn DEF Maps
  <2> HIDE DEF q, p
  <2>5. \A i \in DOMAIN p : p[i] \in Seq(Json(k))
    <3>1. ASSUME NEW i \in DOMAIN p
          PROVE  p[i] \in Seq(Json(k))
      <4>1. PICK x \in Json(k), y \in Json(k) : p[i] = <<x, y>>
        BY <2>2
      <4> QED
        BY <4>1
    <3> QED
      BY <3>1
  <2>6. \A i \in DOMAIN p : List(p[i]) \in Json(k + 1)
    BY <1>1, <2>5, ListIsJson
  <2>7. s \in Seq(Json(k + 1))
    BY <2>2, <2>6
  <2>8. Deserialize(Tagged("dict", s)) =
          DictOf([i \in DOMAIN items |-> <<items[i].items[1], items[i].items[2]>>])
    <3>1. (k + 1) + 1 < MaxDepth
      BY <1>1, DepthFact
    <3> HIDE DEF s
    <3> QED
      BY <1>1, <2>7, <3>1, TaggedDeserialized
  <2>9. DOMAIN items = DOMAIN q /\ DOMAIN p = DOMAIN q
    BY <2>3 DEF All
  <2>10. ASSUME NEW i \in DOMAIN q
         PROVE  <<items[i].items[1], items[i].items[2]>> = <<R[q[i][1]], R[q[i][2]]>>
    <3>1. p[i] = <<S[q[i][1]], S[q[i][2]]>> /\ q[i][1] \in P /\ q[i][2] \in P
      BY <2>3, <2>4
    <3>2. items[i] = D[List(p[i])]
      BY <2>9 DEF All
    <3>3. List(p[i]) \in Nested[MaxDepth]
      BY <1>1, <2>6, <2>9, NestedGrows, DepthFact DEF Json
    <3>4. D[List(p[i])] = List(All(D, p[i]))
      <4>1. DeserializeBy(D, List(p[i])) = List(All(D, p[i]))
        BY DEF DeserializeBy, List
      <4> QED
        BY <3>3, <4>1, DeserializeIs
    <3>5. items[i].items = All(D, p[i])
      BY <3>2, <3>4 DEF List
    <3>6. All(D, p[i])[1] = D[S[q[i][1]]] /\ All(D, p[i])[2] = D[S[q[i][2]]]
      BY <3>1 DEF All
    <3> QED
      BY <1>3, <3>1, <3>5, <3>6
  <2>11. [i \in DOMAIN items |-> <<items[i].items[1], items[i].items[2]>>] = Pairs(R, v)
    <3> HIDE DEF items
    <3> QED
      BY <2>3, <2>9, <2>10
  <2> QED
    BY <2>1, <2>8, <2>11
<1> QED
  BY <1>2, <1>7, <1>8, <1>9, <1>10, <1>11, <1>12, MadeOfCases

\* What arrives is the value that set out, with a text for every object in it.
LEMMA RoundTrip ==
    ASSUME NEW n \in Nat, Encoded(n) <= MaxDepth, NEW v \in Nested[n]
    PROVE  Deserialize(Serialize(v)) = Received(v)
<1> DEFINE T == {m \in Nat : Encoded(m) <= MaxDepth =>
                    \A x \in Nested[m] : Deserialize(Serialize(x)) = Received(x)}
<1>1. 0 \in T
  BY NestedStep, LeafDeserialized
<1>2. ASSUME NEW m \in Nat, m \in T
      PROVE  m + 1 \in T
  <2>1. SUFFICES ASSUME Encoded(m + 1) <= MaxDepth, NEW x \in Nested[m + 1]
                 PROVE  Deserialize(Serialize(x)) = Received(x)
    OBVIOUS
  <2>2. Encoded(m) <= MaxDepth
    BY <2>1, DepthFact DEF Encoded
  <2>3. \A y \in Nested[m] : Deserialize(Serialize(y)) = Received(y)
    BY <1>2, <2>2
  <2> QED
    BY <2>1, <2>3, MadeDeserialized
<1>3. Nat \subseteq T
  BY <1>1, <1>2, Induction
<1> QED
  BY <1>3

-----------------------------------------------------------------------------
(* Numbers a value does not hold do not come to it on its way.             *)

NumbersOnly(S) == S \subseteq [kind : {"atom"}, name : Names, text : {FALSE}]
Free(S, k) == {x \in Nested[k] : Without(S, x)}

\* A value is free of S if its parts are.
LEMMA FreeMade ==
    ASSUME NEW S, NEW k \in Nat, k < MaxDepth,
           NEW v \in MadeOf(Free(S, k)), v \notin S
    PROVE  v \in Free(S, k + 1)
<1> DEFINE W == WithoutF(S)
           P == Free(S, k)
<1>1. P \subseteq Nested[k] /\ \A x \in P : W[x]
  BY WithoutIs DEF Free
<1>2. MadeOf(P) \subseteq MadeOf(Nested[k])
  BY <1>1, MadeOfGrows
<1>3. v \in Nested[k + 1]
  BY <1>2, NestedStep
<1>4. v \in Nested[MaxDepth]
  BY <1>3, NestedGrows, DepthFact
<1>5. WithoutBy(W, S, v)
  <2> HIDE DEF W, P
  <2>1. CASE v \in Leaves
    BY <2>1, LeafCases DEF WithoutBy
  <2>2. CASE v.kind \in {"list", "tuple"} /\ v.items \in Seq(P)
    <3>1. \A i \in DOMAIN v.items : W[v.items[i]]
      BY <1>1, <2>2
    <3> QED
      BY <2>2, <3>1 DEF WithoutBy
  <2>3. CASE v.kind = "set" /\ v.members \in Finite(P)
    BY <1>1, <2>3 DEF WithoutBy, Finite
  <2>4. CASE v.kind = "dict" /\ v.entries \in Maps(P)
    <3>1. \A entry \in v.entries : W[entry[1]] /\ W[entry[2]]
      BY <1>1, <2>4 DEF Maps, Finite
    <3> QED
      BY <2>4, <3>1 DEF WithoutBy
  <2>5. v \in MadeOf(P)
    BY DEF P
  <2> QED
    BY <2>1, <2>2, <2>3, <2>4, <2>5, MadeOfCases
<1> QED
  BY <1>3, <1>4, <1>5, WithoutIs DEF Free

\* And its parts are if it is.
LEMMA FreeParts ==
    ASSUME NEW S, NumbersOnly(S), NEW k \in Nat, k < MaxDepth, NEW v \in Free(S, k + 1)
    PROVE  v \in MadeOf(Free(S, k)) /\ v \notin S
<1> DEFINE W == WithoutF(S)
           P == Nested[k]
           Q == Free(S, k)
<1>1. v \in MadeOf(P) /\ v \in Nested[MaxDepth] /\ Without(S, v)
  BY NestedStep, NestedGrows, DepthFact DEF Free
<1>2. WithoutBy(W, S, v)
  BY <1>1, WithoutIs
<1>3. \A x \in P : W[x] => x \in Q
  BY WithoutIs DEF Free
<1>4. \A x \in S : x.kind = "atom"
  BY DEF NumbersOnly
<1> HIDE DEF W, P, Q
<1>5. CASE v \in Leaves
  <2>1. v \notin S
    BY <1>2, <1>4 DEF WithoutBy
  <2> QED
    BY <1>5, <2>1, Made DEF Q
<1>6. CASE v.kind \in {"list", "tuple"} /\ v.items \in Seq(P) /\ v \in {List(v.items), Tuple(v.items)}
  <2>1. \A i \in DOMAIN v.items : v.items[i] \in Q
    <3>1. \A i \in DOMAIN v.items : W[v.items[i]]
      BY <1>2, <1>6 DEF WithoutBy
    <3> QED
      BY <1>3, <1>6, <3>1
  <2>2. v.items \in Seq(Q)
    BY <1>6, <2>1
  <2>3. v \in MadeOf(Q)
    BY <1>6, <2>2, Made
  <2> QED
    BY <1>4, <1>6, <2>3 DEF Q
<1>7. CASE v.kind = "set" /\ v.members \in Finite(P) /\ v = SetOf(v.members)
  <2>1. v.members \in Finite(Q)
    BY <1>2, <1>3, <1>7 DEF WithoutBy, Finite
  <2>2. v \in MadeOf(Q)
    BY <1>7, <2>1, Made
  <2> QED
    BY <1>4, <1>7, <2>2 DEF Q
<1>8. CASE v.kind = "dict" /\ v.entries \in Maps(P) /\ v = Dict(v.entries)
  <2>1. v.entries \subseteq P \X P
    BY <1>8 DEF Maps, Finite
  <2>2. \A entry \in v.entries : W[entry[1]] /\ W[entry[2]]
    BY <1>2, <1>8 DEF WithoutBy
  <2>3. v.entries \subseteq Q \X Q
    BY <1>3, <2>1, <2>2
  <2>4. v.entries \in Maps(Q)
    BY <1>8, <2>3 DEF Maps, Finite
  <2>5. v \in MadeOf(Q)
    BY <1>8, <2>4, Made
  <2> QED
    BY <1>4, <1>8, <2>5 DEF Q
<1> QED
  BY <1>1, <1>5, <1>6, <1>7, <1>8, MadeOfCases

LEMMA FreeGrows ==
    ASSUME NEW S, NEW k \in Nat, NEW m \in Nat, k <= m, m <= MaxDepth
    PROVE  Free(S, k) \subseteq Free(S, m)
BY NestedGrows DEF Free

LEMMA AtomIsFree ==
    ASSUME NEW S, NEW v \in Leaves, v.kind = "atom", v \notin S, NEW k \in Nat, k <= MaxDepth
    PROVE  v \in Free(S, k)
<1>1. v \in Nested[k] /\ v \in Nested[MaxDepth]
  BY NestedStep, NestedGrows, DepthFact
<1>2. WithoutBy(WithoutF(S), S, v)
  BY DEF WithoutBy
<1> QED
  BY <1>1, <1>2, WithoutIs DEF Free

LEMMA TextIsFree ==
    ASSUME NEW S, NumbersOnly(S), NEW name \in Names, NEW k \in Nat, k <= MaxDepth
    PROVE  Text(name) \in Free(S, k)
<1>1. Text(name) \notin S
  BY DEF NumbersOnly, Text, Atom
<1> QED
  BY <1>1, TextIsLeaf, AtomIsFree

LEMMA TaggedIsFree ==
    ASSUME NEW S, NumbersOnly(S), NEW k \in Nat, k + 1 < MaxDepth, NEW tag \in Names,
           NEW s \in Seq(Free(S, k))
    PROVE  Tagged(tag, s) \in Free(S, k + 2)
<1> DEFINE e == {<<Marker, Text(tag)>>, <<Text("items"), List(s)>>}
           P == Free(S, k + 1)
<1>1. \A x \in S : x.kind = "atom"
  BY DEF NumbersOnly
<1>2. k + 1 \in Nat /\ k < MaxDepth /\ k + 1 <= MaxDepth /\ (k + 1) + 1 = k + 2
  BY DepthFact
<1>3. List(s) \in P
  <2>1. List(s) \in MadeOf(Free(S, k))
    BY Made
  <2>2. List(s) \notin S
    BY <1>1 DEF List
  <2> QED
    BY <1>2, <2>1, <2>2, FreeMade
<1>4. Marker \in P /\ Text(tag) \in P /\ Text("items") \in P
  <2>1. \A name \in Names : Text(name) \in P
    BY <1>2, TextIsFree
  <2> QED
    BY <2>1, NamesAssumption DEF Marker
<1>5. Marker # Text("items")
  BY DEF Marker, Text, Atom
<1> HIDE DEF P
<1>6. e \in Maps(P)
  <2>1. IsFiniteSet(e)
    BY FinitePair
  <2>2. e \in Finite(P \X P)
    BY <1>3, <1>4, <2>1 DEF Finite
  <2> QED
    BY <1>5, <2>2 DEF Maps
<1> HIDE DEF e
<1>7. Dict(e) \in MadeOf(P)
  BY <1>6, Made
<1>8. Dict(e) \notin S
  BY <1>1 DEF Dict
<1>9. Dict(e) \in Free(S, (k + 1) + 1)
  BY <1>2, <1>7, <1>8, FreeMade DEF P
<1> QED
  BY <1>2, <1>9 DEF Tagged, e

LEMMA EntriesAreMade ==
    ASSUME NEW P, NEW Q, P \subseteq Q, NEW f, \A x \in P : f[x] \in Q,
           NEW d, d.entries \in Maps(P)
    PROVE  WithValues(f, d) \in MadeOf(Q) /\ WithValues(f, d).kind = "dict"
<1>1. /\ WithValues(f, d).kind = "dict"
      /\ WithValues(f, d).entries \in Maps(Q)
      /\ WithValues(f, d) = Dict(WithValues(f, d).entries)
  BY WithValuesFact
<1>2. Dict(WithValues(f, d).entries) \in MadeOf(Q)
  BY <1>1, Made
<1> QED
  BY <1>1, <1>2

LEMMA LeafSerializedFree ==
    ASSUME NEW S, NumbersOnly(S), NEW v \in Leaves, v \notin S
    PROVE  Serialize(v) \in Free(S, 1)
<1>1. 0 <= MaxDepth /\ 1 <= MaxDepth /\ 0 < MaxDepth
  BY DepthAssumption DEF MaxDepth, Encoded
<1>2. v \in Nested[MaxDepth]
  BY <1>1, NestedStep, NestedGrows, DepthFact
<1>3. Serialize(v) = SerializeBy(SerializeF, v)
  BY <1>2, SerializeIs
<1>4. CASE v.kind = "atom"
  <2>1. Serialize(v) = v
    BY <1>3, <1>4 DEF SerializeBy
  <2> QED
    BY <1>1, <1>4, <2>1, AtomIsFree
<1>5. CASE v.kind = "opaque" /\ v.name \in Names /\ v.repr \in Names
  <2> DEFINE e == {<<Marker, Text("repr")>>, <<Text("type"), Text(v.name)>>,
                   <<Text("repr"), Text(v.repr)>>}
             P == Free(S, 0)
  <2>1. Serialize(v) = Dict(e)
    BY <1>3, <1>5 DEF SerializeBy
  <2>2. \A name \in Names : Text(name) \in P
    BY <1>1, TextIsFree
  <2> HIDE DEF P
  <2>3. /\ Text("repr") \in P /\ Text("type") \in P
        /\ Text(v.name) \in P /\ Text(v.repr) \in P /\ Marker \in P
    BY <1>5, <2>2, NamesAssumption DEF Marker
  <2>4. Marker # Text("type") /\ Marker # Text("repr") /\ Text("type") # Text("repr")
    BY DEF Marker, Text, Atom
  <2>5. e \in Maps(P)
    <3>1. IsFiniteSet({<<Marker, Text("repr")>>, <<Text("type"), Text(v.name)>>}
                         \cup {<<Text("repr"), Text(v.repr)>>})
      BY FinitePair, FS_AddElement
    <3>2. IsFiniteSet(e)
      BY <3>1
    <3>3. e \in Finite(P \X P)
      BY <2>3, <3>2 DEF Finite
    <3> QED
      BY <2>4, <3>3 DEF Maps
  <2> HIDE DEF e
  <2>6. Dict(e) \in MadeOf(P)
    BY <2>5, Made
  <2>7. Dict(e) \notin S
    BY DEF NumbersOnly, Dict
  <2>8. Dict(e) \in Free(S, 0 + 1)
    BY <1>1, <2>6, <2>7, FreeMade DEF P
  <2> QED
    BY <2>1, <2>8
<1> QED
  BY <1>4, <1>5, LeafCases

LEMMA MadeSerializedFree ==
    ASSUME NEW S, NumbersOnly(S),
           NEW n \in Nat, NEW k \in Nat, n < MaxDepth, n <= k, 1 <= k, k + 3 <= MaxDepth,
           \A x \in Free(S, n) : Serialize(x) \in Free(S, k),
           NEW v \in Free(S, n + 1)
    PROVE  Serialize(v) \in Free(S, k + 3)
<1> DEFINE P == Free(S, n)
           Q == Free(S, k)
           F == SerializeF
<1>1. /\ v \in MadeOf(P) /\ v \notin S
      /\ k < MaxDepth /\ k + 1 < MaxDepth /\ k <= MaxDepth /\ n + 1 \in Nat /\ n + 1 <= MaxDepth
  BY FreeParts, DepthFact
<1>2. v \in Nested[MaxDepth]
  BY <1>1, NestedGrows, DepthFact DEF Free
<1>3. \A x \in P : F[x] \in Q
  BY SerializeIs
<1>4. Serialize(v) = SerializeBy(F, v)
  BY <1>2, SerializeIs
<1>5. /\ Free(S, 1) \subseteq Free(S, k + 3) /\ Free(S, k + 1) \subseteq Free(S, k + 3)
      /\ Free(S, k + 2) \subseteq Free(S, k + 3) /\ P \subseteq Q
  BY <1>1, FreeGrows
<1>6. \A x \in S : x.kind = "atom"
  BY DEF NumbersOnly
<1> HIDE DEF F, P
<1>7. CASE v \in Leaves
  BY <1>1, <1>5, <1>7, LeafSerializedFree
<1>8. CASE v.kind = "list" /\ v.items \in Seq(P)
  <2> DEFINE w == List(All(F, v.items))
  <2>1. All(F, v.items) \in Seq(Q)
    BY <1>3, <1>8, ItemsIn
  <2>2. w \in MadeOf(Q) /\ w \notin S
    BY <1>6, <2>1, Made DEF List
  <2>3. w \in Free(S, k + 1)
    BY <1>1, <2>2, FreeMade
  <2>4. Serialize(v) = w
    BY <1>4, <1>8 DEF SerializeBy
  <2> QED
    BY <1>5, <2>3, <2>4
<1>9. CASE v.kind = "tuple" /\ v.items \in Seq(P)
  <2>1. All(F, v.items) \in Seq(Q)
    BY <1>3, <1>9, ItemsIn
  <2>2. Serialize(v) = Tagged("tuple", All(F, v.items))
    BY <1>4, <1>9 DEF SerializeBy
  <2>3. Serialize(v) \in Free(S, k + 2)
    BY <1>1, <2>1, <2>2, TaggedIsFree, NamesAssumption
  <2> QED
    BY <1>5, <2>3
<1>10. CASE v.kind = "set" /\ v.members \in Finite(P)
  <2>1. SetToSeq(v.members) \in Seq(P)
    BY <1>10, MembersIn
  <2>2. All(F, SetToSeq(v.members)) \in Seq(Q)
    BY <1>3, <2>1, ItemsIn
  <2>3. Serialize(v) = Tagged("set", All(F, SetToSeq(v.members)))
    BY <1>4, <1>10 DEF SerializeBy
  <2>4. Serialize(v) \in Free(S, k + 2)
    BY <1>1, <2>2, <2>3, TaggedIsFree, NamesAssumption
  <2> QED
    BY <1>5, <2>4
<1>11. CASE v.kind = "dict" /\ v.entries \in Maps(P) /\ PlainKeys(v)
  <2> DEFINE d == WithValues(F, v)
  <2>1. P \subseteq Q /\ v.entries \in Maps(P)
    BY <1>5, <1>11
  <2>2. d \in MadeOf(Q) /\ d.kind = "dict"
    BY <1>3, <2>1, EntriesAreMade
  <2> HIDE DEF d
  <2>3. d \in Free(S, k + 1)
    BY <1>1, <1>6, <2>2, FreeMade
  <2>4. Serialize(v) = d
    BY <1>4, <1>11 DEF SerializeBy, d
  <2> QED
    BY <1>5, <2>3, <2>4
<1>12. CASE v.kind = "dict" /\ v.entries \in Maps(P) /\ ~ PlainKeys(v)
  <2> DEFINE p == Pairs(F, v)
             s == [i \in DOMAIN p |-> List(p[i])]
  <2>1. p \in Seq(Q \X Q)
    BY <1>3, <1>12, PairsIn
  <2>2. Serialize(v) = Tagged("dict", s)
    BY <1>4, <1>12 DEF SerializeBy
  <2> HIDE DEF p
  <2>3. ASSUME NEW i \in DOMAIN p
        PROVE  List(p[i]) \in Free(S, k + 1)
    <3>1. PICK x \in Q, y \in Q : p[i] = <<x, y>>
      BY <2>1
    <3>2. p[i] \in Seq(Q)
      BY <3>1
    <3>3. List(p[i]) \in MadeOf(Q) /\ List(p[i]) \notin S
      BY <1>6, <3>2, Made DEF List
    <3> QED
      BY <1>1, <3>3, FreeMade
  <2>4. s \in Seq(Free(S, k + 1))
    BY <2>1, <2>3
  <2> HIDE DEF s
  <2>5. Tagged("dict", s) \in Free(S, (k + 1) + 2)
    <3>1. k + 1 \in Nat /\ (k + 1) + 1 < MaxDepth /\ "dict" \in Names
      BY DepthFact, NamesAssumption
    <3> QED
      BY <2>4, <3>1, TaggedIsFree
  <2> QED
    BY <2>2, <2>5
<1>13. v \in MadeOf(P)
  BY <1>1
<1> QED
  BY <1>7, <1>8, <1>9, <1>10, <1>11, <1>12, <1>13, MadeOfCases

LEMMA FreeLeaves ==
    ASSUME NEW S, NumbersOnly(S), NEW v \in Free(S, 0)
    PROVE  v \in Leaves /\ v \notin S
<1>1. v \in Leaves /\ v \in Nested[MaxDepth] /\ Without(S, v)
  BY NestedStep, NestedGrows, DepthFact DEF Free
<1>2. WithoutBy(WithoutF(S), S, v)
  BY <1>1, WithoutIs
<1>3. v \notin S
  BY <1>2 DEF WithoutBy, NumbersOnly
<1> QED
  BY <1>1, <1>3

\* What Serialize makes of a value holds no number the value does not hold.
LEMMA SerializedIsFree ==
    ASSUME NEW S, NumbersOnly(S), NEW n \in Nat, Encoded(n) <= MaxDepth, NEW v \in Nested[n],
           Without(S, v)
    PROVE  Without(S, Serialize(v))
<1> DEFINE T == {m \in Nat : Encoded(m) <= MaxDepth =>
                    \A x \in Free(S, m) : Serialize(x) \in Free(S, Encoded(m))}
<1>1. 0 \in T
  BY FreeLeaves, LeafSerializedFree DEF Encoded
<1>2. ASSUME NEW m \in Nat, m \in T
      PROVE  m + 1 \in T
  <2>1. SUFFICES ASSUME Encoded(m + 1) <= MaxDepth, NEW x \in Free(S, m + 1)
                 PROVE  Serialize(x) \in Free(S, Encoded(m + 1))
    OBVIOUS
  <2>2. /\ Encoded(m + 1) = Encoded(m) + 3 /\ Encoded(m) \in Nat
        /\ Encoded(m) <= MaxDepth /\ m < MaxDepth /\ m <= Encoded(m) /\ 1 <= Encoded(m)
    BY <2>1, DepthFact DEF Encoded
  <2>3. \A y \in Free(S, m) : Serialize(y) \in Free(S, Encoded(m))
    BY <1>2, <2>2
  <2> QED
    BY <2>1, <2>2, <2>3, MadeSerializedFree
<1>3. Nat \subseteq T
  BY <1>1, <1>2, Induction
<1>4. v \in Free(S, n)
  BY DEF Free
<1>5. Serialize(v) \in Free(S, Encoded(n))
  BY <1>3, <1>4
<1> QED
  BY <1>5 DEF Free

LEMMA LeafReceivedFree ==
    ASSUME NEW S, NumbersOnly(S), NEW v \in Leaves, v \notin S
    PROVE  Received(v) \in Free(S, 0)
<1>1. v \in Nested[MaxDepth]
  BY NestedStep, NestedGrows, DepthFact
<1>2. Received(v) = ReceivedBy(ReceivedF, v)
  BY <1>1, ReceivedIs
<1>3. CASE v.kind = "atom"
  <2>1. Received(v) = v
    BY <1>2, <1>3 DEF ReceivedBy
  <2> QED
    BY <1>3, <2>1, AtomIsFree, DepthFact
<1>4. CASE v.kind = "opaque" /\ v.repr \in Names
  <2>1. Received(v) = Text(v.repr)
    BY <1>2, <1>4 DEF ReceivedBy
  <2> QED
    BY <1>4, <2>1, TextIsFree, DepthFact
<1> QED
  BY <1>3, <1>4, LeafCases

LEMMA MadeReceivedFree ==
    ASSUME NEW S, NumbersOnly(S), NEW n \in Nat, n < MaxDepth,
           \A x \in Free(S, n) : Received(x) \in Free(S, n),
           NEW v \in Free(S, n + 1)
    PROVE  Received(v) \in Free(S, n + 1)
<1> DEFINE P == Free(S, n)
           F == ReceivedF
<1>1. v \in MadeOf(P) /\ v \notin S
  BY FreeParts
<1>2. v \in Nested[MaxDepth]
  BY NestedGrows, DepthFact DEF Free
<1>3. \A x \in P : F[x] \in P
  BY ReceivedIs
<1>4. Received(v) = ReceivedBy(F, v)
  BY <1>2, ReceivedIs
<1>5. \A x \in S : x.kind = "atom"
  BY DEF NumbersOnly
<1>6. \A x \in MadeOf(P) : x \notin S => x \in Free(S, n + 1)
  BY FreeMade
<1> HIDE DEF F, P
<1>7. CASE v \in Leaves
  <2>1. Free(S, 0) \subseteq Free(S, n + 1)
    BY FreeGrows, DepthFact
  <2> QED
    BY <1>1, <1>7, <2>1, LeafReceivedFree
<1>8. CASE v.kind \in {"list", "tuple"} /\ v.items \in Seq(P)
  <2>1. All(F, v.items) \in Seq(P)
    BY <1>3, <1>8, ItemsIn
  <2>2. Received(v) \in {List(All(F, v.items)), Tuple(All(F, v.items))}
    BY <1>4, <1>8 DEF ReceivedBy
  <2>3. Received(v) \in MadeOf(P)
    BY <2>1, <2>2, Made
  <2>4. Received(v) \notin S
    BY <1>5, <2>2 DEF List, Tuple
  <2> QED
    BY <1>6, <2>3, <2>4
<1>9. CASE v.kind = "set" /\ v.members \in Finite(P)
  <2> DEFINE m == {F[x] : x \in v.members}
  <2>1. v.members \subseteq P /\ IsFiniteSet(v.members)
    BY <1>9 DEF Finite
  <2>2. IsFiniteSet(m)
    BY <2>1, ImageIsFinite
  <2>3. m \subseteq P
    BY <1>3, <2>1
  <2>4. Received(v) = SetOf(m)
    BY <1>4, <1>9 DEF ReceivedBy
  <2> HIDE DEF m
  <2>5. SetOf(m) \in MadeOf(P) /\ SetOf(m) \notin S
    BY <1>5, <2>2, <2>3, Made DEF Finite, SetOf
  <2> QED
    BY <1>6, <2>4, <2>5
<1>10. CASE v.kind = "dict" /\ v.entries \in Maps(P)
  <2> DEFINE p == Pairs(F, v)
             e == DictOf(p).entries
  <2>1. p \in Seq(P \X P)
    BY <1>3, <1>10, PairsIn
  <2>2. e \in Maps(P) /\ DictOf(p) = Dict(e)
    BY <2>1, DictOfFact
  <2>3. Received(v) = DictOf(p)
    BY <1>4, <1>10 DEF ReceivedBy
  <2> HIDE DEF e
  <2>4. Dict(e) \in MadeOf(P) /\ Dict(e) \notin S
    BY <1>5, <2>2, Made DEF Dict
  <2> QED
    BY <1>6, <2>2, <2>3, <2>4
<1> QED
  BY <1>1, <1>7, <1>8, <1>9, <1>10, MadeOfCases

\* Neither does what is received.
LEMMA ReceivedIsFree ==
    ASSUME NEW S, NumbersOnly(S), NEW n \in Nat, n <= MaxDepth, NEW v \in Nested[n],
           Without(S, v)
    PROVE  Without(S, Received(v))
<1> DEFINE T == {m \in Nat : m <= MaxDepth => \A x \in Free(S, m) : Received(x) \in Free(S, m)}
<1>1. 0 \in T
  BY FreeLeaves, LeafReceivedFree
<1>2. ASSUME NEW m \in Nat, m \in T
      PROVE  m + 1 \in T
  <2>1. SUFFICES ASSUME m + 1 <= MaxDepth, NEW x \in Free(S, m + 1)
                 PROVE  Received(x) \in Free(S, m + 1)
    OBVIOUS
  <2>2. m < MaxDepth /\ m <= MaxDepth
    BY <2>1, DepthFact
  <2>3. \A y \in Free(S, m) : Received(y) \in Free(S, m)
    BY <1>2, <2>2
  <2> QED
    BY <2>1, <2>2, <2>3, MadeReceivedFree
<1>3. Nat \subseteq T
  BY <1>1, <1>2, Induction
<1>4. v \in Free(S, n)
  BY DEF Free
<1>5. Received(v) \in Free(S, n)
  BY <1>3, <1>4
<1> QED
  BY <1>5 DEF Free

-----------------------------------------------------------------------------
(* The journey.                                                            *)

\* What a value has become of by the trips it made.
Cur == IF trips = 0 THEN original ELSE Received(original)

TypeOK ==
    /\ original \in Nested[Depth]
    /\ place \in {"host", "request", "worker", "answer", "client", "lost"}
    /\ trips \in Nat

\* At each place there is the value itself, or what one or two encodings made of it;
\* only a value json.dumps takes is written.
IInv ==
    /\ TypeOK
    /\ place \in {"request", "answer", "client"} => Without(TooLong, Cur)
    /\ place \in {"host", "worker"} => value = Cur
    /\ place \in {"request", "answer"} => value = Serialize(Cur)
    /\ place = "client" => value = Serialize(Serialize(Cur))

\* What the lemmas say about a value as deep as those that set out.
LEMMA Travels ==
    ASSUME NEW v \in Nested[Depth]
    PROVE  /\ Received(v) \in Nested[Depth] /\ Received(Received(v)) = Received(v)
           /\ IsJson(Serialize(v)) /\ IsJson(Serialize(Serialize(v)))
           /\ Deserialize(Serialize(v)) = Received(v)
           /\ Deserialize(Deserialize(Serialize(Serialize(v)))) = Received(v)
<1> DEFINE d == Encoded(Depth)
           w == Serialize(v)
<1>1. Depth \in Nat /\ d \in Nat /\ Depth <= MaxDepth /\ d <= MaxDepth /\ Encoded(d) <= MaxDepth
  BY DepthFact DEF MaxDepth
<1>2. Received(v) \in Nested[Depth] /\ Received(Received(v)) = Received(v)
  BY <1>1, ReceivedIsSettled DEF Settled
<1>3. w \in Json(d)
  BY <1>1, Serialized
<1> HIDE DEF d
<1>4. w \in Nested[d] /\ IsJson(w)
  BY <1>3 DEF Json
<1>5. IsJson(Serialize(w))
  BY <1>1, <1>4, Serialized DEF Json
<1>6. Deserialize(w) = Received(v)
  BY <1>1, RoundTrip DEF d
<1>7. Deserialize(Serialize(w)) = Received(w)
  BY <1>1, <1>4, RoundTrip
<1>8. Received(w) = w
  BY <1>1, <1>3, JsonIsSettled DEF Settled
<1> QED
  BY <1>2, <1>4, <1>5, <1>6, <1>7, <1>8

\* A value that is written holds no number that is new to it.
LEMMA TravelsFree ==
    ASSUME NEW S, NumbersOnly(S), NEW v \in Nested[Depth], Without(S, v)
    PROVE  /\ Without(S, Received(v))
           /\ Without(S, Serialize(v)) /\ Without(S, Serialize(Serialize(v)))
<1> DEFINE d == Encoded(Depth)
           w == Serialize(v)
<1>1. Depth \in Nat /\ d \in Nat /\ Depth <= MaxDepth /\ d <= MaxDepth /\ Encoded(d) <= MaxDepth
  BY DepthFact DEF MaxDepth
<1>2. Without(S, Received(v))
  BY <1>1, ReceivedIsFree
<1>3. Without(S, w)
  BY <1>1, SerializedIsFree
<1>4. w \in Nested[d]
  BY <1>1, Serialized DEF Json
<1> HIDE DEF d, w
<1>5. Without(S, Serialize(w))
  BY <1>1, <1>3, <1>4, SerializedIsFree
<1> QED
  BY <1>2, <1>3, <1>5 DEF w

LEMMA InitIInv == Init => IInv
BY ValuesAssumption DEF Init, IInv, TypeOK, Cur

LEMMA NextIInv == IInv /\ [Next]_vars => IInv'
<1>1. SUFFICES ASSUME IInv, [Next]_vars
               PROVE  IInv'
  OBVIOUS
<1>2. original \in Nested[Depth] /\ trips \in Nat
  BY <1>1 DEF IInv, TypeOK
<1>3. Cur \in Nested[Depth] /\ Received(Cur) = Received(original)
  BY <1>2, Travels DEF Cur
<1>4. ASSUME NEW from \in {"host", "worker"}, NEW to \in {"request", "answer"}, Encode(from, to)
      PROVE  IInv'
  <2>1. value = Cur /\ Cur' = Cur
    BY <1>1, <1>4 DEF IInv, Encode, Cur
  <2> QED
    BY <1>1, <1>4, <2>1 DEF IInv, TypeOK, Encode
<1>5. ASSUME NEW from \in {"request", "answer"}, NEW to \in {"host", "worker"}, Decode(from, to)
      PROVE  IInv'
  <2>1. value = Serialize(Cur)
    BY <1>1, <1>5 DEF IInv, Decode
  <2>2. value' = Received(original)
    BY <1>3, <1>5, <2>1, Travels DEF Decode
  <2>3. Cur' = Received(original) /\ trips' \in Nat
    BY <1>2, <1>5 DEF Decode, Cur
  <2> QED
    BY <1>1, <1>5, <2>2, <2>3 DEF IInv, TypeOK, Decode
<1>6. CASE ToolResult
  <2>1. value = Cur /\ Cur' = Cur
    BY <1>1, <1>6 DEF IInv, ToolResult, Cur
  <2> QED
    BY <1>1, <1>6, <2>1 DEF IInv, TypeOK, ToolResult
<1>7. CASE WriteFails
  BY <1>1, <1>7 DEF IInv, TypeOK, Cur, WriteFails
<1>8. CASE UNCHANGED vars
  BY <1>1, <1>8 DEF IInv, TypeOK, Cur, vars
<1> QED
  BY <1>1, <1>4, <1>5, <1>6, <1>7, <1>8
  DEF Next, SendVariables, ReceiveVariables, SendOutput, ReceiveOutput

LEMMA Inductive == Spec => []IInv
BY InitIInv, NextIInv, PTL DEF Spec

\* However often a value travels, it arrives as what it was: tuples, sets, keys that
\* are no strings and keys that look like the marker included (protocol.py:12, 40).
THEOREM ValuesSurvive == Spec => []Survives
<1>1. IInv => Survives
  BY DEF IInv, Cur, Survives
<1> QED
  BY <1>1, Inductive, PTL

\* What is written to a pipe or to a client has the structure of JSON, holds no
\* integer json.dumps refuses, and NaN or an infinity only if the value that set out
\* held one (protocol.py:13, 25).
THEOREM TheWireIsJson == Spec => []WireIsJson
<1>1. IInv => WireIsJson
  <2>1. SUFFICES ASSUME IInv, place \in {"request", "answer", "client"}
                 PROVE  /\ IsJson(value)
                        /\ Without(TooLong, value)
                        /\ Without(NonFinite, original) => Without(NonFinite, value)
    BY DEF WireIsJson
  <2>2. original \in Nested[Depth] /\ Cur \in Nested[Depth]
    BY <2>1, Travels DEF IInv, TypeOK, Cur
  <2>3. value \in {Serialize(Cur), Serialize(Serialize(Cur))} /\ Without(TooLong, Cur)
    BY <2>1 DEF IInv
  <2>4. IsJson(value)
    BY <2>2, <2>3, Travels
  <2>5. NumbersOnly(TooLong) /\ NumbersOnly(NonFinite)
    BY NumbersAssumption DEF NumbersOnly
  <2>6. Without(TooLong, value)
    BY <2>2, <2>3, <2>5, TravelsFree
  <2>7. ASSUME Without(NonFinite, original)
        PROVE  Without(NonFinite, value)
    <3>1. Without(NonFinite, Cur)
      BY <2>2, <2>5, <2>7, TravelsFree DEF Cur
    <3> QED
      BY <2>2, <2>3, <2>5, <3>1, TravelsFree
  <2> QED
    BY <2>4, <2>6, <2>7
<1> QED
  BY <1>1, Inductive, PTL

\* The client of a tool, decoding twice, gets the output (results.py:110).
THEOREM TheClientCanDecode == Spec => []ClientCanDecode
<1>1. IInv => ClientCanDecode
  <2>1. SUFFICES ASSUME IInv, place = "client"
                 PROVE  Deserialize(Deserialize(value)) = Received(original)
    BY DEF ClientCanDecode
  <2>2. original \in Nested[Depth]
    BY <2>1 DEF IInv, TypeOK
  <2>3. Cur \in Nested[Depth] /\ Received(Cur) = Received(original)
    BY <2>2, Travels DEF Cur
  <2> QED
    BY <2>1, <2>3, Travels DEF IInv
<1> QED
  BY <1>1, Inductive, PTL
=============================================================================
