------------------------ MODULE UCTypeRoundTripProofs ------------------------
(***************************************************************************)
(* TypeToLogicalType undoes what the server writes: the text of a type,    *)
(* nested to any depth, is converted to that type or to no type at all     *)
(* (TypesConvertBack), by induction over how types are formed.             *)
(*                                                                         *)
(* The text of a member has its openers balanced, and all of its           *)
(* separators are nested unless it is a decimal (Sealed, TextsOK).  So a   *)
(* scan from where such a text begins ends where it ends (CutFound), and   *)
(* splitting finds the members; of a decimal it finds the part before its  *)
(* comma, which converts to no type.                                       *)
(***************************************************************************)
EXTENDS UCTypeMappingProofs, SequenceTheorems

-----------------------------------------------------------------------------
(* The types, and induction over them.                                     *)

\* The names of a struct of n fields.
NamesFor(n) == [i \in 1..n |-> FieldNames[i]]

\* t is a type without members, or its members are in T.
Formed(t, T) ==
    \/ t \in {Integer, Decimal}
    \/ \E u \in T : t = List(u)
    \/ \E u \in T, v \in T : t = Map(u, v)
    \/ \E n \in 0..Len(FieldNames) : \E m \in [1..n -> T] : t = Struct(NamesFor(n), m)

\* The types of one more level than those of T.
Deeper(T) ==
    T \cup {List(t) : t \in T}
      \cup {Map(key, val) : key \in T, val \in T}
      \cup UNION {{Struct([i \in 1..n |-> FieldNames[i]], of) : of \in [1..n -> T]}
                   : n \in 0..Len(FieldNames)}

TypesStep(f, depth) ==
    IF depth = 0 THEN {Integer, Decimal} ELSE Deeper(f[depth - 1])

LEMMA TypesIs ==
  Types = CHOOSE f : f = [depth \in 0..MaxNesting |-> TypesStep(f, depth)]
BY DEF Types, TypesStep, Deeper

LEMMA TypesExists == \E f : f = [depth \in 0..MaxNesting |-> TypesStep(f, depth)]
<1> DEFINE Depths == 0..MaxNesting
           K(k) == \E f : \A d \in Depths : d < k => f[d] = TypesStep(f, d)
<1>0. MaxNesting \in Nat
  BY TypesAssumption
<1>1. ASSUME NEW d \in Depths, NEW f, NEW g, \A e \in 0..(d - 1) : f[e] = g[e]
      PROVE  TypesStep(f, d) = TypesStep(g, d)
  <2>1. CASE d = 0
    BY <2>1 DEF TypesStep
  <2>2. CASE d # 0
    <3>1. d - 1 \in 0..(d - 1)
      BY <1>0, <2>2
    <3> QED BY <1>1, <2>2, <3>1 DEF TypesStep
  <2> QED BY <2>1, <2>2
<1>2. K(0)
  OBVIOUS
<1>3. ASSUME NEW k \in Nat, K(k)
      PROVE  K(k + 1)
  <2>1. PICK f : \A d \in Depths : d < k => f[d] = TypesStep(f, d)
    BY <1>3
  <2> DEFINE g == [d \in Depths |-> IF d < k THEN f[d] ELSE TypesStep(f, d)]
  <2>2. ASSUME NEW d \in Depths, d < k + 1
        PROVE  g[d] = TypesStep(g, d)
    <3>1. g[d] = TypesStep(f, d)
      BY <2>1
    <3>2. \A e \in 0..(d - 1) : g[e] = f[e]
      BY <1>0, <2>2
    <3> HIDE DEF g
    <3> QED BY <1>1, <3>1, <3>2
  <2> QED BY <2>2
<1>4. \A k \in Nat : K(k)
  <2> DEFINE S == {k \in Nat : K(k)}
  <2> HIDE DEF K
  <2>1. S \in SUBSET Nat /\ 0 \in S /\ \A k \in S : k + 1 \in S
    BY <1>2, <1>3
  <2>2. S = Nat
    <3> HIDE DEF S
    <3> QED BY <2>1, SetInduction
  <2> QED BY <2>2
<1>5. PICK f : \A d \in Depths : d < MaxNesting + 1 => f[d] = TypesStep(f, d)
  <2>1. K(MaxNesting + 1)
    <3> HIDE DEF K
    <3> QED BY <1>0, <1>4
  <2> QED BY <2>1
<1> DEFINE F == [d \in Depths |-> f[d]]
<1>6. ASSUME NEW d \in Depths
      PROVE  F[d] = TypesStep(F, d)
  <2>1. \A e \in 0..(d - 1) : F[e] = f[e]
    BY <1>0
  <2>2. F[d] = TypesStep(f, d)
    BY <1>0, <1>5
  <2> HIDE DEF F
  <2> QED BY <1>1, <2>1, <2>2
<1>7. F = [d \in Depths |-> F[d]]
  OBVIOUS
<1> HIDE DEF F
<1> QED BY <1>6, <1>7

LEMMA TypesUnfold ==
  ASSUME NEW d \in 0..MaxNesting
  PROVE  Types[d] = TypesStep(Types, d)
<1>1. Types = [e \in 0..MaxNesting |-> TypesStep(Types, e)]
  BY TypesExists, TypesIs
<1> QED BY <1>1

\* The part of a sequence that is a copy of another one.
LEMMA SubSeqIs ==
  ASSUME NEW S, NEW s \in Seq(S), NEW part \in Seq(S), NEW k \in Nat,
         k + Len(part) <= Len(s), \A i \in 1..Len(part) : s[k + i] = part[i]
  PROVE  SubSeq(s, k + 1, k + Len(part)) = part
<1> DEFINE sub == SubSeq(s, k + 1, k + Len(part))
<1>1. Len(part) \in Nat /\ Len(s) \in Nat
  OBVIOUS
<1>2. \A i \in (k + 1)..(k + Len(part)) : s[i] \in S
  BY <1>1
<1>3. /\ sub \in Seq(S) /\ Len(sub) = Len(part)
      /\ \A i \in 1..Len(part) : sub[i] = s[(k + 1) + i - 1]
  <2>1. k + 1 \in Int /\ k + Len(part) \in Int
    BY <1>1
  <2>2. /\ sub \in Seq(S)
        /\ Len(sub) = IF k + 1 <= k + Len(part) THEN k + Len(part) - (k + 1) + 1 ELSE 0
        /\ \A i \in 1..(k + Len(part) - (k + 1) + 1) : sub[i] = s[(k + 1) + i - 1]
    BY <1>2, <2>1, SubSeqProperties
  <2> HIDE DEF sub
  <2> QED BY <1>1, <2>2
<1> HIDE DEF sub
<1>4. \A i \in 1..Len(sub) : sub[i] = part[i]
  <2>1. \A i \in 1..Len(part) : (k + 1) + i - 1 = k + i
    BY <1>1
  <2> QED BY <1>3, <2>1
<1>5. sub = part
  BY <1>3, <1>4, SeqEqual
<1> QED BY <1>5 DEF sub

LEMMA NamesOfFields ==
  /\ FieldNames \in Seq(STRING) /\ Len(FieldNames) \in Nat
  /\ DOMAIN FieldNames = 1..Len(FieldNames)
  /\ \A i \in DOMAIN FieldNames : FieldNames[i] \in Tokens /\ FieldNames[i] \notin Structural
<1>1. /\ FieldNames \in Seq(STRING)
      /\ \A i \in DOMAIN FieldNames : FieldNames[i] \notin Structural
  BY TypesAssumption
<1>2. DOMAIN FieldNames = 1..Len(FieldNames) /\ Len(FieldNames) \in Nat
  BY <1>1
<1>3. ToSet(FieldNames) = {FieldNames[i] : i \in DOMAIN FieldNames}
  BY DEF ToSet
<1> QED BY <1>1, <1>2, <1>3 DEF Tokens

LEMMA DeeperFormed ==
  ASSUME NEW T, NEW t \in Deeper(T)
  PROVE  t \in T \/ Formed(t, T)
<1> DEFINE OtherKinds == T \cup {List(u) : u \in T} \cup {Map(key, val) : key \in T, val \in T}
           StructsOf(n) == {Struct([i \in 1..n |-> FieldNames[i]], of) : of \in [1..n -> T]}
           Structs == UNION {StructsOf(n) : n \in 0..Len(FieldNames)}
<1>1. t \in OtherKinds \/ t \in Structs
  <2>1. Deeper(T) = OtherKinds \cup Structs
    BY DEF Deeper
  <2> HIDE DEF OtherKinds, Structs
  <2> QED BY <2>1
<1>2. CASE t \in OtherKinds
  <2>1. \/ t \in T
        \/ \E u \in T : t = List(u)
        \/ \E u \in T, v \in T : t = Map(u, v)
    BY <1>2
  <2> HIDE DEF OtherKinds
  <2> QED BY <2>1, Zenon DEF Formed
<1>3. CASE t \in Structs
  <2>1. PICK n \in 0..Len(FieldNames) : t \in StructsOf(n)
    BY <1>3
  <2>2. \E m \in [1..n -> T] : t = Struct([i \in 1..n |-> FieldNames[i]], m)
    BY <2>1
  <2> HIDE DEF Structs, StructsOf
  <2> QED BY <2>2, Zenon DEF Formed, NamesFor
<1> HIDE DEF OtherKinds, Structs
<1> QED BY <1>1, <1>2, <1>3

LEMMA FormedMore ==
  ASSUME NEW T, NEW U, T \subseteq U, NEW t, Formed(t, T)
  PROVE  Formed(t, U)
<1>1. \A n : [1..n -> T] \subseteq [1..n -> U]
  OBVIOUS
<1> QED BY <1>1 DEF Formed

LEMMA TypesFormed ==
  /\ Types[0] = {Integer, Decimal}
  /\ \A d \in 0..MaxNesting :
       /\ \A e \in 0..d : Types[e] \subseteq Types[d]
       /\ d # 0 => \A t \in Types[d] : t \in Types[d - 1] \/ Formed(t, Types[d - 1])
<1>0. MaxNesting \in Nat
  BY TypesAssumption
<1>1. Types[0] = {Integer, Decimal}
  BY <1>0, TypesUnfold DEF TypesStep
<1> DEFINE Grows(d) == \A e \in 0..d : Types[e] \subseteq Types[d]
           S == {k \in Nat : k <= MaxNesting => Grows(k)}
<1>2. 0 \in S
  OBVIOUS
<1>3. ASSUME NEW k \in S
      PROVE  k + 1 \in S
  <2> SUFFICES ASSUME k + 1 <= MaxNesting PROVE Grows(k + 1)
    OBVIOUS
  <2>1. k + 1 \in 0..MaxNesting /\ k + 1 # 0 /\ (k + 1) - 1 = k /\ Grows(k)
    BY <1>0
  <2>2. Types[k + 1] = Deeper(Types[k])
    BY <2>1, TypesUnfold DEF TypesStep
  <2>3. Types[k] \subseteq Types[k + 1]
    BY <2>2 DEF Deeper
  <2> QED BY <1>0, <2>1, <2>3
<1>4. S = Nat
  <2>1. S \in SUBSET Nat
    OBVIOUS
  <2> HIDE DEF S
  <2> QED BY <1>2, <1>3, <2>1, SetInduction
<1>5. \A d \in 0..MaxNesting : Grows(d)
  BY <1>0, <1>4
<1>6. ASSUME NEW d \in 0..MaxNesting, d # 0, NEW t \in Types[d]
      PROVE  t \in Types[d - 1] \/ Formed(t, Types[d - 1])
  <2>1. t \in Deeper(Types[d - 1])
    BY <1>6, TypesUnfold DEF TypesStep
  <2> QED BY <2>1, DeeperFormed
<1> QED BY <1>1, <1>5, <1>6

\* Induction: a set that has every type whose members it has, has every type.
LEMMA TypesInduction ==
  ASSUME NEW G, \A t \in ColumnTypes : Formed(t, G \cap ColumnTypes) => t \in G
  PROVE  ColumnTypes \subseteq G
<1>0. MaxNesting \in Nat /\ ColumnTypes = Types[MaxNesting]
  BY TypesAssumption DEF ColumnTypes
<1>1. \A d \in 0..MaxNesting : Types[d] \subseteq ColumnTypes
  BY <1>0, TypesFormed
<1> DEFINE S == {k \in Nat : k <= MaxNesting => Types[k] \subseteq G}
<1>2. 0 \in S
  <2>1. \A t \in Types[0] : t \in ColumnTypes /\ Formed(t, G \cap ColumnTypes)
    BY <1>0, <1>1, TypesFormed DEF Formed
  <2> QED BY <2>1
<1>3. ASSUME NEW k \in S
      PROVE  k + 1 \in S
  <2> SUFFICES ASSUME k + 1 <= MaxNesting, NEW t \in Types[k + 1]
               PROVE  t \in G
    OBVIOUS
  <2>1. k \in 0..MaxNesting /\ k + 1 \in 0..MaxNesting /\ k + 1 # 0 /\ (k + 1) - 1 = k
    BY <1>0
  <2>2. Types[k] \subseteq G \cap ColumnTypes
    BY <1>1, <2>1
  <2>3. CASE t \in Types[k]
    BY <2>2, <2>3
  <2>4. CASE Formed(t, Types[k])
    <3>1. Formed(t, G \cap ColumnTypes)
      BY <2>2, <2>4, FormedMore
    <3> QED BY <1>1, <2>1, <3>1
  <2> QED BY <2>1, <2>3, <2>4, TypesFormed
<1>4. S = Nat
  <2>1. S \in SUBSET Nat
    OBVIOUS
  <2> HIDE DEF S
  <2> QED BY <1>2, <1>3, <2>1, SetInduction
<1> QED BY <1>0, <1>4

LEMMA AllFormed ==
  \A d \in 0..MaxNesting : \A t \in Types[d] :
    Formed(t, Types[d]) /\ (d # 0 => Formed(t, Types[d - 1]))
<1>0. MaxNesting \in Nat
  BY TypesAssumption
<1> DEFINE All(d) == \A t \in Types[d] : Formed(t, Types[d])
           S == {k \in Nat : k <= MaxNesting => All(k)}
<1>1. 0 \in S
  BY TypesFormed DEF Formed
<1>2. ASSUME NEW d \in 0..MaxNesting, d # 0, All(d - 1), NEW t \in Types[d]
      PROVE  Formed(t, Types[d]) /\ Formed(t, Types[d - 1])
  <2>1. Formed(t, Types[d - 1])
    BY <1>2, TypesFormed
  <2>2. Types[d - 1] \subseteq Types[d]
    BY <1>0, <1>2, TypesFormed
  <2> QED BY <2>1, <2>2, FormedMore
<1>3. ASSUME NEW k \in S
      PROVE  k + 1 \in S
  <2> SUFFICES ASSUME k + 1 <= MaxNesting PROVE All(k + 1)
    OBVIOUS
  <2>1. k + 1 \in 0..MaxNesting /\ k + 1 # 0 /\ (k + 1) - 1 = k /\ All(k)
    BY <1>0
  <2> QED BY <1>2, <2>1
<1>4. S = Nat
  <2>1. S \in SUBSET Nat
    OBVIOUS
  <2> HIDE DEF S
  <2> QED BY <1>1, <1>3, <2>1, SetInduction
<1>5. \A d \in 0..MaxNesting : All(d)
  BY <1>0, <1>4
<1> QED BY <1>0, <1>2, <1>5

LEMMA ColumnTypesFormed ==
  /\ \A t \in ColumnTypes : Formed(t, ColumnTypes)
  /\ \A d \in 0..MaxNesting : Types[d] \subseteq ColumnTypes
BY TypesAssumption, AllFormed, TypesFormed DEF ColumnTypes

-----------------------------------------------------------------------------
(* What the server writes, and what a type contains.                       *)

TextStep(f, t) ==
    CASE t.kind = "int"     -> <<"int">>
      [] t.kind = "decimal" ->
           <<"decimal(">> \o WithCommas(<<<<"9">>, <<"9">>>>) \o <<")">>
      [] t.kind = "list"    -> <<"array<">> \o f[t.of[1]] \o <<">">>
      [] t.kind = "map"     ->
           <<"map<">> \o WithCommas(<<f[t.of[1]], f[t.of[2]]>>) \o <<">">>
      [] t.kind = "struct"  -> <<"struct<">> \o
           WithCommas([i \in DOMAIN t.of |-> <<t.names[i], ":">> \o f[t.of[i]]]) \o <<">">>

WithinStep(f, t) == {t} \cup UNION {f[u] : u \in ToSet(t.of)}

LEMMA TextsAre ==
  /\ TypeText = CHOOSE f : f = [t \in ColumnTypes |-> TextStep(f, t)]
  /\ Within = CHOOSE f : f = [t \in ColumnTypes |-> WithinStep(f, t)]
<1>1. TypeText = CHOOSE f : f = [t \in ColumnTypes |-> TextStep(f, t)]
  BY Zenon DEF TypeText, TextStep
<1>2. Within = CHOOSE f : f = [t \in ColumnTypes |-> WithinStep(f, t)]
  BY Zenon DEF Within, WithinStep
<1> QED BY <1>1, <1>2

\* The kinds and the members of the types.
LEMMA Kinds ==
  /\ Integer.kind = "int" /\ Integer.of = <<>>
  /\ Decimal.kind = "decimal" /\ Decimal.of = <<>>
  /\ \A u : List(u).kind = "list" /\ List(u).of = <<u>>
  /\ \A u, v : Map(u, v).kind = "map" /\ Map(u, v).of = <<u, v>>
  /\ \A names, of : /\ Struct(names, of).kind = "struct"
                    /\ Struct(names, of).names = names
                    /\ Struct(names, of).of = of
<1>1. \A kind, of, names : /\ Type(kind, of, names).kind = kind
                           /\ Type(kind, of, names).of = of
                           /\ Type(kind, of, names).names = names
  BY DEF Type
<1> QED BY <1>1 DEF Integer, Decimal, List, Map, Struct

\* What kind a type is of tells how many members it has.
LEMMA MembersOf ==
  ASSUME NEW T, NEW t, Formed(t, T)
  PROVE  \/ t.kind \in {"int", "decimal"} /\ t.of = <<>>
         \/ t.kind = "list" /\ \E u \in T : t.of = <<u>>
         \/ t.kind = "map" /\ \E u \in T, v \in T : t.of = <<u, v>>
         \/ t.kind = "struct" /\ \E n \in Nat : t.of \in [1..n -> T]
<1>1. CASE t \in {Integer, Decimal}
  BY <1>1, Kinds
<1>2. CASE \E u \in T : t = List(u)
  <2>1. PICK u \in T : t = List(u)
    BY <1>2
  <2> QED BY <2>1, Kinds
<1>3. CASE \E u \in T, v \in T : t = Map(u, v)
  <2>1. PICK u \in T, v \in T : t = Map(u, v)
    BY <1>3
  <2>2. t.kind = "map" /\ t.of = <<u, v>>
    BY <2>1, Kinds
  <2> QED BY <2>2
<1>4. CASE \E n \in 0..Len(FieldNames) : \E m \in [1..n -> T] : t = Struct(NamesFor(n), m)
  <2>0. PICK n \in 0..Len(FieldNames) : \E m \in [1..n -> T] : t = Struct(NamesFor(n), m)
    BY <1>4
  <2>1. PICK m \in [1..n -> T] : t = Struct(NamesFor(n), m)
    BY <2>0
  <2>2. t.kind = "struct" /\ t.of = m /\ n \in Nat
    BY <2>1, Kinds, NamesOfFields
  <2> QED BY <2>2
<1> QED BY <1>1, <1>2, <1>3, <1>4 DEF Formed

LEMMA MembersIn ==
  ASSUME NEW T, NEW t, Formed(t, T)
  PROVE  \A i \in DOMAIN t.of : t.of[i] \in T
<1>1. CASE t.of = <<>>
  BY <1>1
<1>2. CASE \E u \in T : t.of = <<u>>
  BY <1>2
<1>3. CASE \E u \in T, v \in T : t.of = <<u, v>>
  <2>1. PICK u \in T, v \in T : t.of = <<u, v>>
    BY <1>3
  <2>2. \A i \in DOMAIN t.of : i = 1 \/ i = 2
    BY <2>1
  <2> QED BY <2>1, <2>2
<1>4. CASE \E n \in Nat : t.of \in [1..n -> T]
  BY <1>4
<1> QED BY <1>1, <1>2, <1>3, <1>4, MembersOf

LEMMA SameText ==
  ASSUME NEW T, NEW t, Formed(t, T), NEW f, NEW g, \A u \in T : f[u] = g[u]
  PROVE  TextStep(f, t) = TextStep(g, t) /\ WithinStep(f, t) = WithinStep(g, t)
<1>1. \A i \in DOMAIN t.of : t.of[i] \in T /\ f[t.of[i]] = g[t.of[i]]
  BY MembersIn
<1>2. ToSet(t.of) \subseteq T
  BY <1>1 DEF ToSet
<1>3. WithinStep(f, t) = WithinStep(g, t)
  <2>1. {f[u] : u \in ToSet(t.of)} = {g[u] : u \in ToSet(t.of)}
    BY <1>2
  <2> QED BY <2>1 DEF WithinStep
<1>4. [i \in DOMAIN t.of |-> <<t.names[i], ":">> \o f[t.of[i]]]
        = [i \in DOMAIN t.of |-> <<t.names[i], ":">> \o g[t.of[i]]]
  BY <1>1
<1>5. t.kind = "list" => f[t.of[1]] = g[t.of[1]]
  <2>1. SUFFICES ASSUME t.kind = "list" PROVE 1 \in DOMAIN t.of
    BY <1>1
  <2>2. PICK u : t.of = <<u>>
    BY <2>1, MembersOf
  <2> QED BY <2>2
<1>6. t.kind = "map" => f[t.of[1]] = g[t.of[1]] /\ f[t.of[2]] = g[t.of[2]]
  <2>1. SUFFICES ASSUME t.kind = "map" PROVE 1 \in DOMAIN t.of /\ 2 \in DOMAIN t.of
    BY <1>1
  <2>2. PICK u, v : t.of = <<u, v>>
    BY <2>1, MembersOf
  <2> QED BY <2>2
<1>7. t.kind \in {"int", "decimal", "list", "map", "struct"}
  BY MembersOf
<1>8. TextStep(f, t) = TextStep(g, t)
  BY <1>4, <1>5, <1>6, <1>7 DEF TextStep
<1> QED BY <1>3, <1>8

\* One of the two recursions over types.
EitherStep(texts, f, t) == IF texts THEN TextStep(f, t) ELSE WithinStep(f, t)

LEMMA TextsExist ==
  ASSUME NEW texts \in BOOLEAN
  PROVE  \E f : f = [t \in ColumnTypes |-> EitherStep(texts, f, t)]
<1> DEFINE Step(f, t) == EitherStep(texts, f, t)
           K(k) == \E f : \A t \in Types[k] : f[t] = Step(f, t)
           S == {k \in Nat : k <= MaxNesting => K(k)}
<1>0. MaxNesting \in Nat /\ ColumnTypes = Types[MaxNesting]
  BY TypesAssumption DEF ColumnTypes
<1>1. ASSUME NEW T, NEW t, Formed(t, T), NEW f, NEW g, \A u \in T : f[u] = g[u]
      PROVE  Step(f, t) = Step(g, t)
  BY <1>1, SameText DEF EitherStep
<1> HIDE DEF Step
<1>2. 0 \in S
  <2> DEFINE f == [t \in Types[0] |-> Step(Types, t)]
  <2>1. ASSUME NEW t \in Types[0]
        PROVE  f[t] = Step(f, t)
    <3>1. Formed(t, {})
      BY TypesFormed DEF Formed
    <3>2. f[t] = Step(Types, t)
      OBVIOUS
    <3>3. \A u \in {} : Types[u] = f[u]
      OBVIOUS
    <3> HIDE DEF f
    <3> QED BY <1>1, <3>1, <3>2, <3>3
  <2> QED BY <2>1
<1>3. ASSUME NEW k \in S
      PROVE  k + 1 \in S
  <2> SUFFICES ASSUME k + 1 <= MaxNesting PROVE K(k + 1)
    OBVIOUS
  <2>1. k \in 0..MaxNesting /\ k + 1 \in 0..MaxNesting /\ k + 1 # 0 /\ (k + 1) - 1 = k
    BY <1>0
  <2>2. PICK f : \A t \in Types[k] : f[t] = Step(f, t)
    BY <1>0
  <2> DEFINE g == [t \in Types[k + 1] |-> IF t \in Types[k] THEN f[t] ELSE Step(f, t)]
  <2>3. Types[k] \subseteq Types[k + 1]
    BY <2>1, TypesFormed
  <2>4. ASSUME NEW t \in Types[k + 1]
        PROVE  g[t] = Step(g, t)
    <3>1. Formed(t, Types[k])
      BY <2>1, AllFormed
    <3>2. g[t] = Step(f, t)
      BY <2>2
    <3>3. \A u \in Types[k] : g[u] = f[u]
      BY <2>3
    <3> HIDE DEF g
    <3> QED BY <1>1, <3>1, <3>2, <3>3
  <2> QED BY <2>4
<1>4. S = Nat
  <2>1. S \in SUBSET Nat
    OBVIOUS
  <2> HIDE DEF S
  <2> QED BY <1>2, <1>3, <2>1, SetInduction
<1>5. PICK f : \A t \in ColumnTypes : f[t] = Step(f, t)
  <2>1. K(MaxNesting)
    BY <1>0, <1>4
  <2> QED BY <1>0, <2>1
<1> DEFINE F == [t \in ColumnTypes |-> f[t]]
<1>6. ASSUME NEW t \in ColumnTypes
      PROVE  F[t] = Step(F, t)
  <2>1. Formed(t, ColumnTypes)
    BY ColumnTypesFormed
  <2>2. \A u \in ColumnTypes : F[u] = f[u]
    OBVIOUS
  <2>3. F[t] = Step(f, t)
    BY <1>5
  <2> HIDE DEF F
  <2> QED BY <1>1, <2>1, <2>2, <2>3
<1>7. F = [t \in ColumnTypes |-> F[t]]
  OBVIOUS
<1> HIDE DEF F
<1>8. F = [t \in ColumnTypes |-> Step(F, t)]
  BY <1>6, <1>7
<1> QED BY <1>8 DEF Step

LEMMA TextsUnfold ==
  ASSUME NEW t \in ColumnTypes
  PROVE  TypeText[t] = TextStep(TypeText, t) /\ Within[t] = WithinStep(Within, t)
<1>1. \E f : f = [u \in ColumnTypes |-> TextStep(f, u)]
  <2>1. PICK f : f = [u \in ColumnTypes |-> EitherStep(TRUE, f, u)]
    BY TextsExist
  <2> QED BY <2>1 DEF EitherStep
<1>2. \E f : f = [u \in ColumnTypes |-> WithinStep(f, u)]
  <2>1. PICK f : f = [u \in ColumnTypes |-> EitherStep(FALSE, f, u)]
    BY TextsExist
  <2> QED BY <2>1 DEF EitherStep
<1>3. TypeText = [u \in ColumnTypes |-> TextStep(TypeText, u)]
  BY <1>1, TextsAre
<1>4. Within = [u \in ColumnTypes |-> WithinStep(Within, u)]
  BY <1>2, TextsAre
<1> QED BY <1>3, <1>4

-----------------------------------------------------------------------------
(* Texts in texts.                                                         *)

\* The text from position k + 1 on begins with part.
At(text, k, part) ==
    k + Len(part) <= Len(text) /\ \A i \in 1..Len(part) : text[k + i] = part[i]

LEMMA ConcatAt ==
  ASSUME NEW a \in Seq(Tokens), NEW b \in Seq(Tokens)
  PROVE  /\ a \o b \in Seq(Tokens)
         /\ Len(a \o b) = Len(a) + Len(b)
         /\ At(a \o b, 0, a)
         /\ At(a \o b, Len(a), b)
<1> DEFINE c == a \o b
<1>1. /\ c \in Seq(Tokens) /\ Len(c) = Len(a) + Len(b)
      /\ \A i \in 1..(Len(a) + Len(b)) : c[i] = IF i <= Len(a) THEN a[i] ELSE b[i - Len(a)]
  BY ConcatProperties
<1>2. Len(a) \in Nat /\ Len(b) \in Nat
  OBVIOUS
<1> HIDE DEF c
<1>3. At(c, 0, a)
  BY <1>1, <1>2 DEF At
<1>4. At(c, Len(a), b)
  <2>1. ASSUME NEW i \in 1..Len(b)
        PROVE  c[Len(a) + i] = b[i]
    <3>1. Len(a) + i \in 1..(Len(a) + Len(b)) /\ ~(Len(a) + i <= Len(a)) /\ (Len(a) + i) - Len(a) = i
      BY <1>2
    <3> QED BY <1>1, <3>1
  <2> QED BY <1>1, <1>2, <2>1 DEF At
<1> QED BY <1>1, <1>3, <1>4 DEF c

LEMMA AtAt ==
  ASSUME NEW a \in Seq(Tokens), NEW b \in Seq(Tokens), NEW c \in Seq(Tokens),
         NEW k \in Nat, NEW j \in Nat, At(a, k, b), At(b, j, c)
  PROVE  At(a, k + j, c)
<1>1. Len(a) \in Nat /\ Len(b) \in Nat /\ Len(c) \in Nat
  OBVIOUS
<1>2. ASSUME NEW i \in 1..Len(c)
      PROVE  a[(k + j) + i] = c[i]
  <2>1. j + i \in 1..Len(b) /\ (k + j) + i = k + (j + i)
    BY <1>1 DEF At
  <2>2. a[k + (j + i)] = b[j + i] /\ b[j + i] = c[i]
    BY <2>1 DEF At
  <2> QED BY <2>1, <2>2
<1>3. (k + j) + Len(c) <= Len(a)
  BY <1>1 DEF At
<1> QED BY <1>2, <1>3 DEF At

LEMMA OpenedJoin ==
  ASSUME NEW text, NEW from \in Int, NEW mid \in Int, NEW to \in Int, from <= mid, mid <= to
  PROVE  Opened(text, from, to) = Opened(text, from, mid) + Opened(text, mid, to)
<1> DEFINE K(k) == \A i \in Int : i <= mid /\ mid - i <= k =>
                     Opened(text, i, to) = Opened(text, i, mid) + Opened(text, mid, to)
           S == {k \in Nat : K(k)}
<1>1. 0 \in S
  <2> SUFFICES ASSUME NEW i \in Int, i <= mid, mid - i <= 0
               PROVE  Opened(text, i, to) = Opened(text, i, mid) + Opened(text, mid, to)
    OBVIOUS
  <2>1. i = mid
    OBVIOUS
  <2>2. Opened(text, mid, mid) = 0 /\ Opened(text, mid, to) \in Int
    BY OpenedFrom
  <2> QED BY <2>1, <2>2
<1>2. ASSUME NEW k \in S
      PROVE  k + 1 \in S
  <2> SUFFICES ASSUME NEW i \in Int, i <= mid, mid - i <= k + 1
               PROVE  Opened(text, i, to) = Opened(text, i, mid) + Opened(text, mid, to)
    OBVIOUS
  <2>1. CASE mid - i <= k
    BY <2>1
  <2>2. CASE i < mid
    <3>1. Opened(text, i + 1, to) = Opened(text, i + 1, mid) + Opened(text, mid, to)
      BY <2>2
    <3> HIDE DEF S, K
    <3>2. /\ Opened(text, i, to) = Nesting(text[i]) + Opened(text, i + 1, to)
          /\ Opened(text, i + 1, to) \in Int
      BY <2>2, OpenedFrom
    <3>3. /\ Opened(text, i, mid) = Nesting(text[i]) + Opened(text, i + 1, mid)
          /\ Opened(text, i + 1, mid) \in Int
      BY <2>2, OpenedFrom
    <3>4. Opened(text, mid, to) \in Int
      BY OpenedFrom
    <3> QED BY <3>1, <3>2, <3>3, <3>4, NestingInt
  <2> QED BY <2>1, <2>2
<1>3. S = Nat
  <2>1. S \in SUBSET Nat
    OBVIOUS
  <2> HIDE DEF S
  <2> QED BY <1>1, <1>2, <2>1, SetInduction
<1>4. mid - from \in S
  <2> HIDE DEF S
  <2> QED BY <1>3
<1> QED BY <1>4

LEMMA OpenedAt ==
  ASSUME NEW text \in Seq(Tokens), NEW part \in Seq(Tokens), NEW k \in Nat, At(text, k, part),
         NEW to \in 1..(Len(part) + 1)
  PROVE  Opened(text, k + 1, k + to) = Opened(part, 1, to)
<1> DEFINE K(n) == \A i \in 1..to : to - i <= n => Opened(text, k + i, k + to) = Opened(part, i, to)
           S == {n \in Nat : K(n)}
<1>0. Len(part) \in Nat /\ to \in Nat
  OBVIOUS
<1>1. 0 \in S
  <2> SUFFICES ASSUME NEW i \in 1..to, to - i <= 0
               PROVE  Opened(text, k + i, k + to) = Opened(part, i, to)
    OBVIOUS
  <2>1. i = to
    BY <1>0
  <2>2. Opened(text, k + to, k + to) = 0
    BY <1>0, OpenedFrom
  <2>3. Opened(part, to, to) = 0
    BY <1>0, OpenedFrom
  <2> QED BY <2>1, <2>2, <2>3
<1>2. ASSUME NEW n \in S
      PROVE  n + 1 \in S
  <2> SUFFICES ASSUME NEW i \in 1..to, to - i <= n + 1
               PROVE  Opened(text, k + i, k + to) = Opened(part, i, to)
    OBVIOUS
  <2>1. CASE to - i <= n
    BY <2>1
  <2>2. CASE i < to
    <3>1. Opened(text, k + (i + 1), k + to) = Opened(part, i + 1, to)
      BY <1>0, <2>2
    <3> HIDE DEF S, K
    <3>2. text[k + i] = part[i]
      BY <1>0, <2>2 DEF At
    <3>3. Opened(text, k + i, k + to) = Nesting(text[k + i]) + Opened(text, (k + i) + 1, k + to)
      BY <1>0, <2>2, OpenedFrom
    <3>4. Opened(part, i, to) = Nesting(part[i]) + Opened(part, i + 1, to)
      BY <1>0, <2>2, OpenedFrom
    <3>5. (k + i) + 1 = k + (i + 1)
      BY <1>0
    <3> QED BY <3>1, <3>2, <3>3, <3>4, <3>5
  <2> QED BY <1>0, <2>1, <2>2
<1>3. S = Nat
  <2>1. S \in SUBSET Nat
    OBVIOUS
  <2> HIDE DEF S
  <2> QED BY <1>1, <1>2, <2>1, SetInduction
<1>4. to - 1 \in S
  <2> HIDE DEF S
  <2> QED BY <1>0, <1>3
<1> QED BY <1>0, <1>4

\* Every '>' closes an opener, and no separator comes after more '>' than openers.
Balanced(x) ==
    /\ x \in Seq(Tokens)
    /\ Opened(x, 1, Len(x) + 1) = 0
    /\ \A i \in 1..Len(x) : x[i] = Comma => Opened(x, 1, i) >= 0

\* What is more, all separators are nested.
Sealed(x) ==
    /\ x \in Seq(Tokens) /\ x # <<>>
    /\ Opened(x, 1, Len(x) + 1) = 0
    /\ \A i \in 1..Len(x) : x[i] = Comma => Opened(x, 1, i) >= 1

LEMMA TokensDiffer ==
  /\ Comma \notin Openers /\ Comma # ">" /\ Comma # ":" /\ Comma # "9" /\ Comma # "decimal("
  /\ Comma # ")" /\ Comma # "int"
  /\ Comma \in Meaningful /\ Openers \subseteq Meaningful /\ Meaningful \subseteq Tokens
BY Zenon DEF Comma, Openers, Meaningful, Tokens

LEMMA NestingOf ==
  /\ \A c \in Openers : Nesting(c) = 1
  /\ Nesting(">") = -1
  /\ Nesting(Comma) = 0
  /\ \A c : c \notin Openers /\ c # ">" => Nesting(c) = 0
<1>1. ">" \notin Openers
  BY DEF Openers
<1> QED BY <1>1, TokensDiffer DEF Nesting

LEMMA OpenedOne ==
  ASSUME NEW c
  PROVE  Opened(<<c>>, 1, 1) = 0 /\ Opened(<<c>>, 1, 2) = Nesting(c)
<1> DEFINE x == <<c>>
<1>1. x[1] = c
  OBVIOUS
<1> HIDE DEF x
<1>2. Opened(x, 1, 1) = 0
  BY OpenedFrom
<1>3. Opened(x, 2, 2) = 0
  BY OpenedFrom
<1>4. Opened(x, 1, 2) = Nesting(x[1]) + Opened(x, 2, 2)
  <2>1. 1 < 2 => Opened(x, 1, 2) = Nesting(x[1]) + Opened(x, 1 + 1, 2)
    BY OpenedFrom
  <2> QED BY <2>1
<1> QED BY <1>1, <1>2, <1>3, <1>4, NestingInt DEF x

LEMMA ConcatOpened ==
  ASSUME NEW a \in Seq(Tokens), NEW b \in Seq(Tokens)
  PROVE  /\ \A to \in 1..(Len(a) + 1) : Opened(a \o b, 1, to) = Opened(a, 1, to)
         /\ \A to \in 1..(Len(b) + 1) :
              Opened(a \o b, 1, Len(a) + to) = Opened(a, 1, Len(a) + 1) + Opened(b, 1, to)
<1> DEFINE c == a \o b
<1>0. Len(a) \in Nat /\ Len(b) \in Nat
  OBVIOUS
<1>1. c \in Seq(Tokens) /\ At(c, 0, a) /\ At(c, Len(a), b)
  BY ConcatAt
<1> HIDE DEF c
<1>2. ASSUME NEW to \in 1..(Len(a) + 1)
      PROVE  Opened(c, 1, to) = Opened(a, 1, to)
  <2>1. Opened(c, 0 + 1, 0 + to) = Opened(a, 1, to)
    BY <1>1, OpenedAt
  <2> QED BY <1>0, <2>1
<1>3. ASSUME NEW to \in 1..(Len(b) + 1)
      PROVE  Opened(c, 1, Len(a) + to) = Opened(a, 1, Len(a) + 1) + Opened(b, 1, to)
  <2>1. Opened(c, Len(a) + 1, Len(a) + to) = Opened(b, 1, to)
    BY <1>0, <1>1, OpenedAt
  <2>2. Opened(c, 1, Len(a) + 1) = Opened(a, 1, Len(a) + 1)
    BY <1>0, <1>2
  <2>3. Opened(c, 1, Len(a) + to) = Opened(c, 1, Len(a) + 1) + Opened(c, Len(a) + 1, Len(a) + to)
    BY <1>0, OpenedJoin
  <2> QED BY <2>1, <2>2, <2>3
<1> QED BY <1>2, <1>3 DEF c

LEMMA ConcatBalanced ==
  ASSUME NEW a, NEW b
  PROVE  /\ Balanced(a) /\ Balanced(b) => Balanced(a \o b)
         /\ Sealed(a) /\ Sealed(b) => Sealed(a \o b)
<1> DEFINE c == a \o b
<1>1. ASSUME a \in Seq(Tokens), b \in Seq(Tokens), NEW least \in Nat,
             Opened(a, 1, Len(a) + 1) = 0, Opened(b, 1, Len(b) + 1) = 0,
             \A i \in 1..Len(a) : a[i] = Comma => Opened(a, 1, i) >= least,
             \A i \in 1..Len(b) : b[i] = Comma => Opened(b, 1, i) >= least
      PROVE  /\ c \in Seq(Tokens) /\ Opened(c, 1, Len(c) + 1) = 0
             /\ \A i \in 1..Len(c) : c[i] = Comma => Opened(c, 1, i) >= least
  <2>0. Len(a) \in Nat /\ Len(b) \in Nat
    BY <1>1
  <2>1. c \in Seq(Tokens) /\ Len(c) = Len(a) + Len(b) /\ At(c, 0, a) /\ At(c, Len(a), b)
    BY <1>1, ConcatAt
  <2>2. /\ \A to \in 1..(Len(a) + 1) : Opened(c, 1, to) = Opened(a, 1, to)
        /\ \A to \in 1..(Len(b) + 1) :
             Opened(c, 1, Len(a) + to) = Opened(a, 1, Len(a) + 1) + Opened(b, 1, to)
    BY <1>1, ConcatOpened
  <2> HIDE DEF c
  <2>3. Opened(c, 1, Len(c) + 1) = 0
    <3>1. Len(b) + 1 \in 1..(Len(b) + 1) /\ Len(c) + 1 = Len(a) + (Len(b) + 1)
      BY <2>0, <2>1
    <3> QED BY <1>1, <2>2, <3>1
  <2>4. ASSUME NEW i \in 1..Len(c), c[i] = Comma
        PROVE  Opened(c, 1, i) >= least
    <3>1. CASE i <= Len(a)
      <4>1. i \in 1..Len(a) /\ i \in 1..(Len(a) + 1) /\ 0 + i = i
        BY <2>0, <2>1, <3>1
      <4>2. a[i] = Comma
        BY <2>1, <2>4, <4>1 DEF At
      <4> QED BY <1>1, <2>2, <4>1, <4>2
    <3>2. CASE i > Len(a)
      <4> DEFINE j == i - Len(a)
      <4>1. j \in 1..Len(b) /\ j \in 1..(Len(b) + 1) /\ Len(a) + j = i
        BY <2>0, <2>1, <3>2
      <4> HIDE DEF j
      <4>2. b[j] = Comma
        BY <2>1, <2>4, <4>1 DEF At
      <4>3. Opened(c, 1, i) = Opened(b, 1, j)
        <5>1. Opened(b, 1, j) \in Int
          BY <4>1, OpenedFrom
        <5> QED BY <1>1, <2>2, <4>1, <5>1
      <4> QED BY <1>1, <4>1, <4>2, <4>3
    <3> QED BY <2>0, <3>1, <3>2
  <2> QED BY <2>1, <2>3, <2>4
<1>2. Balanced(a) /\ Balanced(b) => Balanced(c)
  BY <1>1 DEF Balanced
<1>3. Sealed(a) /\ Sealed(b) => Sealed(c)
  <2>1. SUFFICES ASSUME Sealed(a), Sealed(b) PROVE Sealed(c)
    OBVIOUS
  <2>2. c # <<>>
    BY <2>1 DEF Sealed
  <2> HIDE DEF c
  <2> QED BY <1>1, <2>1, <2>2 DEF Sealed
<1> QED BY <1>2, <1>3

LEMMA SealedBalanced ==
  ASSUME NEW x, Sealed(x)
  PROVE  Balanced(x)
<1>1. \A i \in 1..Len(x) : Opened(x, 1, i) \in Int
  BY OpenedFrom
<1> QED BY <1>1 DEF Sealed, Balanced

LEMMA WrapSealed ==
  ASSUME NEW opener \in Openers, NEW body, Balanced(body)
  PROVE  Sealed(<<opener>> \o body \o <<">">>)
<1> DEFINE first == <<opener>>
           last == <<">">>
           y == first \o body
           x == y \o last
<1>1. /\ first \in Seq(Tokens) /\ Len(first) = 1 /\ first[1] = opener
      /\ last \in Seq(Tokens) /\ Len(last) = 1 /\ last[1] = ">"
  BY TokensDiffer DEF Meaningful
<1>2. Opened(first, 1, 2) = 1 /\ Opened(last, 1, 2) = -1 /\ Opened(first, 1, 1) = 0
  BY OpenedOne, NestingOf
<1>3. body \in Seq(Tokens) /\ Len(body) \in Nat
  BY DEF Balanced
<1> HIDE DEF first, last
<1>4. /\ y \in Seq(Tokens) /\ Len(y) = 1 + Len(body) /\ At(y, 0, first) /\ At(y, 1, body)
      /\ \A to \in 1..(Len(body) + 1) : Opened(y, 1, 1 + to) = 1 + Opened(body, 1, to)
  <2>1. \A to \in 1..(Len(body) + 1) : Opened(y, 1, Len(first) + to)
                                         = Opened(first, 1, Len(first) + 1) + Opened(body, 1, to)
    BY <1>1, <1>3, ConcatOpened
  <2>2. Len(first) + 1 = 2
    BY <1>1
  <2> QED BY <1>1, <1>2, <1>3, <2>1, <2>2, ConcatAt
<1> HIDE DEF y
<1>5. /\ x \in Seq(Tokens) /\ Len(x) = Len(y) + 1 /\ At(x, 0, y) /\ At(x, Len(y), last)
      /\ \A to \in 1..(Len(y) + 1) : Opened(x, 1, to) = Opened(y, 1, to)
      /\ \A to \in 1..2 : Opened(x, 1, Len(y) + to) = Opened(y, 1, Len(y) + 1) + Opened(last, 1, to)
  <2>1. \A to \in 1..(Len(last) + 1) : Opened(x, 1, Len(y) + to)
                                         = Opened(y, 1, Len(y) + 1) + Opened(last, 1, to)
    BY <1>1, <1>4, ConcatOpened
  <2>2. \A to \in 1..(Len(y) + 1) : Opened(x, 1, to) = Opened(y, 1, to)
    BY <1>1, <1>4, ConcatOpened
  <2>3. Len(last) + 1 = 2
    BY <1>1
  <2>4. /\ x \in Seq(Tokens) /\ Len(x) = Len(y) + Len(last)
        /\ At(x, 0, y) /\ At(x, Len(y), last)
    BY <1>1, <1>4, ConcatAt, Zenon
  <2> HIDE DEF x
  <2> QED BY <1>1, <2>1, <2>2, <2>3, <2>4
<1> HIDE DEF x
<1>6. Opened(x, 1, Len(x) + 1) = 0
  <2>1. Opened(y, 1, 1 + (Len(body) + 1)) = 1 + 0
    BY <1>3, <1>4 DEF Balanced
  <2>2. Len(x) + 1 = Len(y) + 2 /\ Len(y) + 1 = 1 + (Len(body) + 1)
    BY <1>3, <1>4, <1>5
  <2>3. Opened(x, 1, Len(y) + 2) = Opened(y, 1, Len(y) + 1) + Opened(last, 1, 2)
    BY <1>5
  <2> QED BY <1>2, <2>1, <2>2, <2>3
<1>7. ASSUME NEW i \in 1..Len(x), x[i] = Comma
      PROVE  Opened(x, 1, i) >= 1
  <2>1. i # 1
    <3>1. x[1] = opener
      BY <1>1, <1>3, <1>4, <1>5 DEF At
    <3> QED BY <1>7, <3>1, TokensDiffer
  <2>2. i # Len(y) + 1
    <3>1. x[Len(y) + 1] = ">"
      BY <1>1, <1>5 DEF At
    <3> QED BY <1>7, <3>1, TokensDiffer
  <2> DEFINE j == i - 1
  <2>3. j \in 1..Len(body) /\ 1 + j = i /\ 0 + i = i /\ i \in 1..Len(y)
    BY <1>3, <1>4, <1>5, <2>1, <2>2
  <2> HIDE DEF j
  <2>4. x[i] = body[j]
    BY <1>4, <1>5, <2>3 DEF At
  <2>5. Opened(body, 1, j) >= 0 /\ Opened(body, 1, j) \in Int
    BY <1>7, <2>3, <2>4, OpenedFrom DEF Balanced
  <2>6. Opened(x, 1, i) = 1 + Opened(body, 1, j)
    BY <1>3, <1>4, <1>5, <2>3
  <2> QED BY <2>5, <2>6
<1>8. x # <<>>
  BY <1>3, <1>4, <1>5
<1>9. Sealed(x)
  BY <1>5, <1>6, <1>7, <1>8 DEF Sealed
<1> QED BY <1>9 DEF x, y, first, last

\* How a field of type u is written.
Field(i, u) == <<FieldNames[i], ":">> \o TypeText[u]

\* The first n texts with a separator between any two.
JoinStep(texts, f, n) ==
    IF n = 0 THEN <<>>
    ELSE IF n = 1 THEN texts[1]
    ELSE f[n - 1] \o <<Comma>> \o texts[n]

Join(texts) == CHOOSE f : f = [n \in 0..Len(texts) |-> JoinStep(texts, f, n)]

LEMMA WithCommasIs ==
  ASSUME NEW texts
  PROVE  WithCommas(texts) = Join(texts)[Len(texts)]
BY Zenon DEF WithCommas, Join, JoinStep

LEMMA JoinUnfold ==
  ASSUME NEW texts, NEW N \in Nat, Len(texts) = N
  PROVE  \A n \in 0..N : Join(texts)[n] = JoinStep(texts, Join(texts), n)
<1> DEFINE Step(f, n) == JoinStep(texts, f, n)
           K(k) == \E f : \A n \in 0..N : n <= k => f[n] = Step(f, n)
           S == {k \in Nat : K(k)}
<1>1. ASSUME NEW n \in 0..N, NEW f, NEW g, n >= 2 => f[n - 1] = g[n - 1]
      PROVE  Step(f, n) = Step(g, n)
  <2>1. CASE n = 0 \/ n = 1
    BY <2>1 DEF JoinStep
  <2>2. CASE n >= 2
    BY <1>1, <2>2 DEF JoinStep
  <2> QED BY <2>1, <2>2
<1> HIDE DEF Step
<1>2. 0 \in S
  <2> DEFINE f == [n \in 0..N |-> Step(N, n)]
  <2>1. f[0] = Step(N, 0)
    OBVIOUS
  <2>2. Step(N, 0) = Step(f, 0)
    <3> HIDE DEF f
    <3>1. 0 \in 0..N /\ ~(0 >= 2)
      OBVIOUS
    <3> QED BY <1>1, <3>1
  <2> HIDE DEF f
  <2>3. \A n \in 0..N : n <= 0 => f[n] = Step(f, n)
    BY <2>1, <2>2
  <2> QED BY <2>3
<1>3. ASSUME NEW k \in S
      PROVE  k + 1 \in S
  <2>1. k \in Nat
    OBVIOUS
  <2>2. PICK f : \A n \in 0..N : n <= k => f[n] = Step(f, n)
    OBVIOUS
  <2> DEFINE g == [n \in 0..N |-> IF n <= k THEN f[n] ELSE Step(f, n)]
  <2>3. ASSUME NEW n \in 0..N, n <= k + 1
        PROVE  g[n] = Step(g, n)
    <3>1. g[n] = Step(f, n)
      BY <2>2
    <3>2. n >= 2 => g[n - 1] = f[n - 1]
      BY <2>1, <2>3
    <3> HIDE DEF g
    <3>3. Step(f, n) = Step(g, n)
      BY <1>1, <3>2
    <3> QED BY <3>1, <3>3
  <2>4. K(k + 1)
    <3> HIDE DEF g
    <3> QED BY <2>3
  <2> HIDE DEF K
  <2> QED BY <2>1, <2>4
<1>4. S = Nat
  <2>1. S \in SUBSET Nat
    OBVIOUS
  <2> HIDE DEF S
  <2> QED BY <1>2, <1>3, <2>1, SetInduction
<1>5. PICK f : \A n \in 0..N : f[n] = Step(f, n)
  <2>1. K(N)
    <3> HIDE DEF K
    <3> QED BY <1>4
  <2> QED BY <2>1
<1> DEFINE F == [n \in 0..N |-> f[n]]
<1>6. ASSUME NEW n \in 0..N
      PROVE  F[n] = Step(F, n)
  <2>1. n >= 2 => F[n - 1] = f[n - 1]
    OBVIOUS
  <2>2. F[n] = Step(f, n)
    BY <1>5
  <2> HIDE DEF F
  <2>3. Step(f, n) = Step(F, n)
    BY <1>1, <2>1
  <2> QED BY <2>2, <2>3
<1>7. F = [n \in 0..N |-> F[n]]
  OBVIOUS
<1> HIDE DEF F
<1>8. F = [n \in 0..N |-> Step(F, n)]
  BY <1>6, <1>7
<1>9. Join(texts) = [n \in 0..N |-> Step(Join(texts), n)]
  <2>1. \E h : h = [n \in 0..Len(texts) |-> JoinStep(texts, h, n)]
    BY <1>8 DEF Step
  <2>2. Join(texts) = [n \in 0..Len(texts) |-> JoinStep(texts, Join(texts), n)]
    BY <2>1, Zenon DEF Join
  <2> QED BY <2>2 DEF Step
<1> QED BY <1>9 DEF Step

\* Two members.
Both(a, b) == a \o <<Comma>> \o b

\* How the joined text grows.
Joins(texts, N) ==
    /\ N = 0 => WithCommas(texts) = <<>>
    /\ N >= 1 => Join(texts)[1] = texts[1]
    /\ \A n \in 2..N : Join(texts)[n] = Both(Join(texts)[n - 1], texts[n])
    /\ WithCommas(texts) = Join(texts)[N]

LEMMA JoinGrows ==
  ASSUME NEW texts, NEW N \in Nat, Len(texts) = N
  PROVE  Joins(texts, N)
<1>1. \A n \in 0..N : Join(texts)[n] = JoinStep(texts, Join(texts), n)
  BY JoinUnfold
<1>2. WithCommas(texts) = Join(texts)[N]
  BY WithCommasIs, Zenon
<1>3. N = 0 => WithCommas(texts) = <<>>
  <2>1. 0 \in 0..N
    OBVIOUS
  <2> QED BY <1>1, <1>2, <2>1, Zenon DEF JoinStep
<1>4. N >= 1 => Join(texts)[1] = texts[1]
  BY <1>1 DEF JoinStep
<1>5. ASSUME NEW n \in 2..N
      PROVE  Join(texts)[n] = Both(Join(texts)[n - 1], texts[n])
  <2>1. n \in 0..N /\ n # 0 /\ n # 1
    OBVIOUS
  <2> QED BY <1>1, <2>1, Zenon DEF JoinStep, Both
<1> QED BY <1>2, <1>3, <1>4, <1>5 DEF Joins

LEMMA WithCommasBoth ==
  ASSUME NEW a, NEW b
  PROVE  WithCommas(<<a, b>>) = Both(a, b)
<1> DEFINE texts == <<a, b>>
           N == 2
<1>1. N \in Nat /\ Len(texts) = N /\ texts[1] = a /\ texts[2] = b /\ N \in 2..N /\ N - 1 = 1 /\ N >= 1
  OBVIOUS
<1> HIDE DEF texts, N
<1>2. Joins(texts, N)
  BY <1>1, JoinGrows
<1>3. WithCommas(texts) = Both(Join(texts)[N - 1], texts[N]) /\ Join(texts)[1] = texts[1]
  BY <1>1, <1>2 DEF Joins
<1>4. WithCommas(texts) = Both(a, b)
  BY <1>1, <1>3 DEF N
<1> QED BY <1>4 DEF texts

\* How the fields of a struct are written.
FieldTexts(n, m) == [i \in 1..n |-> Field(i, m[i])]

DecimalText == <<"decimal(">> \o Both(<<"9">>, <<"9">>) \o <<")">>

LEMMA TextForms ==
  ASSUME NEW t \in ColumnTypes
  PROVE  /\ t = Integer => TypeText[t] = <<"int">>
         /\ t = Decimal => TypeText[t] = DecimalText
         /\ \A u : t = List(u) => TypeText[t] = <<"array<">> \o TypeText[u] \o <<">">>
         /\ \A u, v : t = Map(u, v) =>
              TypeText[t] = <<"map<">> \o Both(TypeText[u], TypeText[v]) \o <<">">>
         /\ \A n, m : t = Struct(NamesFor(n), m) /\ DOMAIN m = 1..n =>
              TypeText[t] = <<"struct<">> \o WithCommas(FieldTexts(n, m)) \o <<">">>
<1> DEFINE fields == [i \in DOMAIN t.of |-> <<t.names[i], ":">> \o TypeText[t.of[i]]]
<1>1. TypeText[t] = TextStep(TypeText, t)
  BY TextsUnfold
<1>2. t = Integer => TypeText[t] = <<"int">>
  BY <1>1, Kinds DEF TextStep
<1>3. ASSUME t = Decimal
      PROVE  TypeText[t] = DecimalText
  <2>1. t.kind = "decimal"
    BY <1>3, Kinds
  <2>2. TypeText[t] = <<"decimal(">> \o WithCommas(<<<<"9">>, <<"9">>>>) \o <<")">>
    BY <1>1, <2>1 DEF TextStep
  <2>3. WithCommas(<<<<"9">>, <<"9">>>>) = Both(<<"9">>, <<"9">>)
    BY WithCommasBoth
  <2> QED BY <2>2, <2>3 DEF DecimalText
<1>4. ASSUME NEW u, t = List(u)
      PROVE  TypeText[t] = <<"array<">> \o TypeText[u] \o <<">">>
  <2>1. t.kind = "list" /\ t.of = <<u>> /\ t.of[1] = u
    BY <1>4, Kinds
  <2> QED BY <1>1, <2>1 DEF TextStep
<1>5. ASSUME NEW u, NEW v, t = Map(u, v)
      PROVE  TypeText[t] = <<"map<">> \o Both(TypeText[u], TypeText[v]) \o <<">">>
  <2>1. t.kind = "map" /\ t.of = <<u, v>> /\ t.of[1] = u /\ t.of[2] = v
    BY <1>5, Kinds
  <2>2. TypeText[t] = <<"map<">> \o WithCommas(<<TypeText[u], TypeText[v]>>) \o <<">">>
    BY <1>1, <2>1 DEF TextStep
  <2>3. WithCommas(<<TypeText[u], TypeText[v]>>) = Both(TypeText[u], TypeText[v])
    BY WithCommasBoth
  <2> QED BY <2>2, <2>3
<1>6. t.kind = "struct" => TypeText[t] = <<"struct<">> \o WithCommas(fields) \o <<">">>
  BY <1>1 DEF TextStep
<1>7. ASSUME NEW n, NEW m, t = Struct(NamesFor(n), m), DOMAIN m = 1..n
      PROVE  TypeText[t] = <<"struct<">> \o WithCommas(FieldTexts(n, m)) \o <<">">>
  <2>1. t.kind = "struct" /\ t.of = m /\ t.names = NamesFor(n)
    BY <1>7, Kinds
  <2>2. fields = [i \in 1..n |-> <<t.names[i], ":">> \o TypeText[t.of[i]]]
    BY <1>7, <2>1, Zenon
  <2>3. \A i \in 1..n : <<t.names[i], ":">> \o TypeText[t.of[i]] = Field(i, m[i])
    BY <2>1, Zenon DEF Field, NamesFor
  <2>4. fields = FieldTexts(n, m)
    <3> HIDE DEF fields
    <3> QED BY <2>2, <2>3 DEF FieldTexts
  <2> HIDE DEF fields
  <2> QED BY <1>6, <2>1, <2>4, Zenon
<1> QED BY <1>2, <1>3, <1>4, <1>5, <1>7

LEMMA ConcatOfTwo ==
  ASSUME NEW a, NEW b
  PROVE  <<a>> \o <<b>> = <<a, b>>
<1> DEFINE S == {a, b}
           x == <<a>>
           y == <<b>>
           z == <<a, b>>
<1>1. /\ x \in Seq(S) /\ Len(x) = 1 /\ x[1] = a
      /\ y \in Seq(S) /\ Len(y) = 1 /\ y[1] = b
      /\ z \in Seq(S) /\ Len(z) = 2 /\ z[1] = a /\ z[2] = b
  OBVIOUS
<1> HIDE DEF x, y, z, S
<1>2. /\ x \o y \in Seq(S) /\ Len(x \o y) = 2
      /\ \A i \in 1..2 : (x \o y)[i] = IF i <= 1 THEN x[i] ELSE y[i - 1]
  <2>1. /\ x \o y \in Seq(S)
        /\ Len(x \o y) = Len(x) + Len(y)
        /\ \A i \in 1..(Len(x) + Len(y)) :
             (x \o y)[i] = IF i <= Len(x) THEN x[i] ELSE y[i - Len(x)]
    BY <1>1, ConcatProperties
  <2> QED BY <1>1, <2>1
<1>3. \A i \in 1..2 : (x \o y)[i] = z[i]
  <2>1. (x \o y)[1] = x[1] /\ (x \o y)[2] = y[2 - 1]
    BY <1>2
  <2>2. (x \o y)[1] = z[1] /\ (x \o y)[2] = z[2]
    BY <1>1, <2>1
  <2>3. 1..2 = {1, 2}
    OBVIOUS
  <2> QED BY <2>2, <2>3, Zenon
<1> DEFINE w == x \o y
<1>4. w \in Seq(S) /\ Len(w) = Len(z) /\ \A i \in 1..Len(w) : w[i] = z[i]
  BY <1>1, <1>2, <1>3
<1> HIDE DEF w
<1>5. w = z
  BY <1>1, <1>4, SeqEqual
<1> QED BY <1>5 DEF w, x, y, z

\* What the first separator of a decimal leaves of it.
CutDecimal == <<"decimal(", "9">>

LEMMA LeavesBalanced ==
  /\ Sealed(<<"int">>)
  /\ Balanced(<<Comma>>)
  /\ Balanced(DecimalText)
  /\ Balanced(<<>>)
  /\ \A i \in DOMAIN FieldNames : Sealed(<<FieldNames[i], ":">>)
  /\ Sealed(CutDecimal)
<1>1. \A c \in Tokens : <<c>> \in Seq(Tokens) /\ Len(<<c>>) = 1 /\ <<c>>[1] = c /\ <<c>> # <<>>
  OBVIOUS
<1>2. ASSUME NEW c \in Tokens, Nesting(c) = 0
      PROVE  Balanced(<<c>>) /\ (c # Comma => Sealed(<<c>>))
  <2> DEFINE x == <<c>>
  <2>1. x \in Seq(Tokens) /\ Len(x) = 1 /\ x[1] = c /\ x # <<>>
    BY <1>1
  <2>2. Opened(x, 1, 1) = 0 /\ Opened(x, 1, 2) = 0
    BY <1>2, OpenedOne
  <2> HIDE DEF x
  <2>3. Balanced(x)
    BY <2>1, <2>2 DEF Balanced
  <2>4. c # Comma => Sealed(x)
    BY <2>1, <2>2 DEF Sealed
  <2> QED BY <2>3, <2>4 DEF x
<1>3. /\ "int" \in Tokens /\ "decimal(" \in Tokens /\ "9" \in Tokens /\ ")" \in Tokens /\ ":" \in Tokens
      /\ Comma \in Tokens
  BY Zenon DEF Tokens, Meaningful
<1>4. /\ Nesting("int") = 0 /\ Nesting("decimal(") = 0 /\ Nesting("9") = 0 /\ Nesting(")") = 0
      /\ Nesting(":") = 0 /\ Nesting(Comma) = 0
  BY NestingOf DEF Openers
<1>5. Sealed(<<"int">>) /\ Sealed(<<":">>)
  BY <1>2, <1>3, <1>4, TokensDiffer
<1>6. Balanced(<<Comma>>) /\ Balanced(<<"9">>) /\ Balanced(<<")">>) /\ Balanced(<<"decimal(">>)
  BY <1>2, <1>3, <1>4
<1>7. Balanced(DecimalText)
  BY <1>6, ConcatBalanced DEF DecimalText, Both
<1>8. Balanced(<<>>)
  <2>1. Opened(<<>>, 1, 1) = 0
    BY OpenedFrom
  <2>2. <<>> \in Seq(Tokens) /\ Len(<<>>) = 0
    OBVIOUS
  <2> QED BY <2>1, <2>2 DEF Balanced
<1>9. ASSUME NEW i \in DOMAIN FieldNames
      PROVE  Sealed(<<FieldNames[i], ":">>)
  <2> DEFINE name == FieldNames[i]
  <2>1. name \in Tokens /\ name \notin Structural
    BY NamesOfFields
  <2>2. name # Comma /\ name \notin Openers /\ name # ">"
    BY <2>1, Zenon DEF Structural
  <2> HIDE DEF name
  <2>3. Sealed(<<name>>)
    BY <1>2, <2>1, <2>2, NestingOf
  <2>4. Sealed(<<name>> \o <<":">>)
    BY <1>5, <2>3, ConcatBalanced
  <2>5. <<name>> \o <<":">> = <<name, ":">>
    BY ConcatOfTwo
  <2> QED BY <2>4, <2>5 DEF name
<1>10. Sealed(CutDecimal)
  <2>1. Sealed(<<"decimal(">>) /\ Sealed(<<"9">>)
    BY <1>2, <1>3, <1>4, TokensDiffer
  <2>2. Sealed(<<"decimal(">> \o <<"9">>)
    BY <2>1, ConcatBalanced
  <2>3. <<"decimal(">> \o <<"9">> = CutDecimal
    BY ConcatOfTwo DEF CutDecimal
  <2> QED BY <2>2, <2>3
<1> QED BY <1>5, <1>6, <1>7, <1>8, <1>9, <1>10

\* Text that may stand between an opener and its '>', or between separators.
TextOK(t) == Balanced(TypeText[t]) /\ (t # Decimal => Sealed(TypeText[t]))

LEMMA FieldBalanced ==
  ASSUME NEW i \in DOMAIN FieldNames, NEW u, TextOK(u)
  PROVE  Balanced(Field(i, u)) /\ (u # Decimal => Sealed(Field(i, u)))
<1> DEFINE name == <<FieldNames[i], ":">>
<1>1. Sealed(name) /\ Balanced(name)
  BY LeavesBalanced, SealedBalanced
<1> HIDE DEF name
<1>2. Balanced(name \o TypeText[u]) /\ (u # Decimal => Sealed(name \o TypeText[u]))
  BY <1>1, ConcatBalanced DEF TextOK
<1> QED BY <1>2 DEF Field, name

LEMMA JoinBalanced ==
  ASSUME NEW N \in Nat, NEW texts, Len(texts) = N, \A i \in 1..N : Balanced(texts[i])
  PROVE  Balanced(WithCommas(texts))
<1>1. Joins(texts, N)
  BY JoinGrows
<1>2. CASE N = 0
  BY <1>1, <1>2, LeavesBalanced DEF Joins
<1>3. CASE N # 0
  <2> DEFINE S == {k \in Nat : k + 1 <= N => Balanced(Join(texts)[k + 1])}
  <2>1. 0 \in S
    <3>1. 1 \in 1..N /\ Join(texts)[1] = texts[1]
      BY <1>1, <1>3 DEF Joins
    <3> QED BY <3>1
  <2>2. ASSUME NEW k \in S
        PROVE  k + 1 \in S
    <3> SUFFICES ASSUME (k + 1) + 1 <= N PROVE Balanced(Join(texts)[(k + 1) + 1])
      OBVIOUS
    <3> DEFINE n == (k + 1) + 1
    <3>1. n \in 2..N /\ n \in 1..N /\ n - 1 = k + 1 /\ Balanced(Join(texts)[k + 1])
      OBVIOUS
    <3> HIDE DEF n, S
    <3>2. Join(texts)[n] = Both(Join(texts)[n - 1], texts[n]) /\ Balanced(texts[n])
      BY <1>1, <3>1 DEF Joins
    <3>3. Balanced(Join(texts)[n])
      BY <3>1, <3>2, LeavesBalanced, ConcatBalanced DEF Both
    <3> QED BY <3>3 DEF n
  <2>3. S = Nat
    <3>1. S \in SUBSET Nat
      OBVIOUS
    <3> HIDE DEF S
    <3> QED BY <2>1, <2>2, <3>1, SetInduction
  <2>4. N - 1 \in S
    <3> HIDE DEF S
    <3> QED BY <1>3, <2>3
  <2>5. Balanced(Join(texts)[N])
    BY <1>3, <2>4
  <2> QED BY <1>1, <2>5 DEF Joins
<1> QED BY <1>2, <1>3

LEMMA TextsOK == \A t \in ColumnTypes : TextOK(t)
<1> DEFINE G == {t \in ColumnTypes : TextOK(t)}
<1>1. ASSUME NEW a, NEW b, Balanced(a), Balanced(b)
      PROVE  Balanced(Both(a, b))
  BY <1>1, LeavesBalanced, ConcatBalanced DEF Both
<1>2. "array<" \in Openers /\ "map<" \in Openers /\ "struct<" \in Openers
  BY DEF Openers
<1>3. ASSUME NEW t \in ColumnTypes, Formed(t, G \cap ColumnTypes)
      PROVE  TextOK(t)
  <2>1. CASE t = Integer
    <3>1. Sealed(TypeText[t])
      BY <2>1, TextForms, LeavesBalanced
    <3> QED BY <3>1, SealedBalanced DEF TextOK
  <2>2. CASE t = Decimal
    <3>1. Balanced(TypeText[t])
      BY <2>2, TextForms, LeavesBalanced
    <3> QED BY <2>2, <3>1 DEF TextOK
  <2>3. SUFFICES ASSUME t # Integer, t # Decimal PROVE Sealed(TypeText[t])
    BY <2>1, <2>2, SealedBalanced DEF TextOK
  <2>4. CASE \E u \in G : t = List(u)
    <3>1. PICK u \in G : t = List(u)
      BY <2>4
    <3>2. Balanced(TypeText[u])
      BY DEF TextOK
    <3>3. Sealed(<<"array<">> \o TypeText[u] \o <<">">>)
      BY <1>2, <3>2, WrapSealed
    <3> QED BY <3>1, <3>3, TextForms
  <2>5. CASE \E u \in G, v \in G : t = Map(u, v)
    <3>1. PICK u \in G, v \in G : t = Map(u, v)
      BY <2>5
    <3>2. Balanced(Both(TypeText[u], TypeText[v]))
      BY <1>1 DEF TextOK
    <3>3. Sealed(<<"map<">> \o Both(TypeText[u], TypeText[v]) \o <<">">>)
      BY <1>2, <3>2, WrapSealed
    <3>4. TypeText[t] = <<"map<">> \o Both(TypeText[u], TypeText[v]) \o <<">">>
      BY <3>1, TextForms
    <3> QED BY <3>3, <3>4
  <2>6. CASE \E n \in 0..Len(FieldNames) : \E m \in [1..n -> G] : t = Struct(NamesFor(n), m)
    <3>1. PICK n \in 0..Len(FieldNames) : \E m \in [1..n -> G] : t = Struct(NamesFor(n), m)
      BY <2>6
    <3>2. PICK m \in [1..n -> G] : t = Struct(NamesFor(n), m)
      BY <3>1
    <3> DEFINE texts == FieldTexts(n, m)
    <3>3. n \in Nat /\ Len(texts) = n
      BY <3>1, NamesOfFields DEF FieldTexts
    <3>4. ASSUME NEW i \in 1..n
          PROVE  Balanced(texts[i])
      <4>1. i \in DOMAIN FieldNames /\ TextOK(m[i])
        BY <3>3, NamesOfFields
      <4> QED BY <4>1, FieldBalanced DEF FieldTexts
    <3> HIDE DEF texts
    <3>5. Sealed(<<"struct<">> \o WithCommas(texts) \o <<">">>)
      BY <1>2, <3>3, <3>4, JoinBalanced, WrapSealed
    <3>6. \A a, b : t = Struct(NamesFor(a), b) /\ DOMAIN b = 1..a =>
            TypeText[t] = <<"struct<">> \o WithCommas(FieldTexts(a, b)) \o <<">">>
      BY TextForms, Zenon
    <3>7. TypeText[t] = <<"struct<">> \o WithCommas(texts) \o <<">">>
      BY <3>2, <3>6, Zenon DEF texts
    <3> QED BY <3>5, <3>7, Zenon
  <2> QED BY <1>3, <2>3, <2>4, <2>5, <2>6 DEF Formed
<1>4. ColumnTypes \subseteq G
  <2>1. \A t \in ColumnTypes : Formed(t, G \cap ColumnTypes) => t \in G
    BY <1>3
  <2> HIDE DEF G
  <2> QED BY <2>1, TypesInduction
<1> QED BY <1>4

-----------------------------------------------------------------------------
(* Splitting the text of a map or of a struct.                             *)

\* From position k + 1 on the text has a piece whose separators are all nested,
\* and there it is cut: by a separator or by the end.
Cut(text, typeEnd, k, piece) ==
    /\ text \in Seq(Tokens) /\ typeEnd \in 1..Len(text)
    /\ k \in Nat \ {0}
    /\ Sealed(piece) /\ At(text, k, piece)
    /\ k + Len(piece) + 1 <= typeEnd
    /\ k + Len(piece) + 1 = typeEnd \/ text[k + Len(piece) + 1] = Comma

LEMMA CutFound ==
  ASSUME NEW text, NEW typeEnd, NEW k, NEW piece, Cut(text, typeEnd, k, piece)
  PROVE  /\ NextSep(text, typeEnd, k + 1, 0).at = k + Len(piece) + 1
         /\ NextSep(text, typeEnd, k + 1, 0).opens = 0
         /\ SubSeq(text, k + 1, k + Len(piece)) = piece
<1> DEFINE sep == NextSep(text, typeEnd, k + 1, 0)
           n == Len(piece)
           e == k + n + 1
<1>1. /\ text \in Seq(Tokens) /\ typeEnd \in 1..Len(text) /\ Len(text) \in Nat
      /\ piece \in Seq(Tokens) /\ n \in Nat \ {0} /\ k \in Nat \ {0}
      /\ k + n <= Len(text) /\ e <= typeEnd
      /\ e = typeEnd \/ text[e] = Comma
      /\ \A i \in 1..n : text[k + i] = piece[i]
  BY DEF Cut, Sealed, At
<1>2. FirstSep(text, typeEnd, k + 1, 0, sep)
  <2>1. k + 1 \in 1..(typeEnd - 1) /\ 0 \in Int
    BY <1>1
  <2> HIDE DEF sep, n
  <2> QED BY <1>1, <2>1, NextSepFindsFirst DEF sep
<1>3. ASSUME NEW i \in 1..(n + 1)
      PROVE  Opened(text, k + 1, k + i) = Opened(piece, 1, i)
  BY <1>1, OpenedAt DEF Cut
<1>4. Opened(text, k + 1, e) = 0
  <2>1. n + 1 \in 1..(n + 1) /\ k + (n + 1) = e
    BY <1>1
  <2>2. Opened(text, k + 1, k + (n + 1)) = Opened(piece, 1, n + 1)
    BY <1>3, <2>1
  <2> QED BY <2>1, <2>2 DEF Cut, Sealed
<1>5. ASSUME NEW i \in (k + 1)..(k + n)
      PROVE  ~Separator(text, k + 1, 0, i)
  <2>1. SUFFICES ASSUME text[i] = Comma PROVE Opened(text, k + 1, i) >= 1
    BY OpenedFrom, <1>1 DEF Separator
  <2>2. i - k \in 1..n /\ k + (i - k) = i /\ i - k \in 1..(n + 1)
    BY <1>1
  <2>3. piece[i - k] = Comma
    BY <1>1, <2>1, <2>2
  <2>4. Opened(piece, 1, i - k) >= 1
    BY <2>2, <2>3 DEF Cut, Sealed
  <2>5. Opened(text, k + 1, k + (i - k)) = Opened(piece, 1, i - k)
    BY <1>3, <2>2
  <2> QED BY <2>2, <2>4, <2>5
<1>6. e # typeEnd => Separator(text, k + 1, 0, e)
  BY <1>1, <1>4 DEF Separator
<1>7. sep.at = e
  <2>1. /\ sep.at \in (k + 1)..typeEnd
        /\ sep.at # typeEnd => Separator(text, k + 1, 0, sep.at)
        /\ \A i \in (k + 1)..(sep.at - 1) : ~Separator(text, k + 1, 0, i)
    BY <1>2 DEF FirstSep
  <2> HIDE DEF sep, n
  <2>2. ~(sep.at < e)
    BY <1>1, <1>5, <2>1
  <2>3. ~(sep.at > e)
    BY <1>1, <1>6, <2>1
  <2> QED BY <1>1, <2>1, <2>2, <2>3
<1>8. sep.opens = 0
  <2>1. sep.opens = 0 + Opened(text, k + 1, sep.at)
    BY <1>2 DEF FirstSep
  <2> HIDE DEF sep, n
  <2> QED BY <1>4, <1>7, <2>1
<1>9. SubSeq(text, k + 1, k + n) = piece
  <2> HIDE DEF n
  <2>1. k \in Nat /\ k + n <= Len(text) /\ \A i \in 1..n : text[k + i] = piece[i]
    BY <1>1
  <2> QED BY <1>1, <2>1, SubSeqIs DEF n
<1> QED BY <1>7, <1>8, <1>9

SplitFrom(text, typeEnd, cur) == Split(text, typeEnd)[<<cur, 0>>]

\* Of the text from k + 1 on, the piece is the first member.
FirstMember(text, typeEnd, k, piece) ==
    /\ k + Len(piece) + 1 = typeEnd =>
         /\ SplitFrom(text, typeEnd, k + 1).texts = <<piece>>
         /\ SplitFrom(text, typeEnd, k + 1).overran = FALSE
    /\ k + Len(piece) + 1 # typeEnd =>
         LET rest == SplitFrom(text, typeEnd, k + Len(piece) + 2)
         IN  /\ SplitFrom(text, typeEnd, k + 1).texts = <<piece>> \o rest.texts
             /\ SplitFrom(text, typeEnd, k + 1).overran = rest.overran

LEMMA CutSplit ==
  ASSUME NEW text, NEW typeEnd, NEW k, NEW piece, Cut(text, typeEnd, k, piece)
  PROVE  FirstMember(text, typeEnd, k, piece)
<1> DEFINE f == Split(text, typeEnd)
           p == <<k + 1, 0>>
           sep == NextSep(text, typeEnd, k + 1, 0)
           next == k + Len(piece) + 1
           rest == f[<<next + 1, 0>>]
           member == SubSeq(text, k + 1, k + Len(piece))
<1>1. /\ text \in Seq(Tokens) /\ typeEnd \in 1..Len(text) /\ k \in Nat \ {0}
      /\ Len(piece) \in Nat /\ p \in Places /\ p[1] = k + 1 /\ p[2] = 0
  BY DEF Cut, Sealed, Places
<1>2. sep.at = next /\ sep.opens = 0 /\ member = piece /\ next - 1 = k + Len(piece) /\ next # 0
  <2>1. sep.at = next /\ sep.opens = 0 /\ member = piece
    BY CutFound
  <2>2. next - 1 = k + Len(piece) /\ next # 0
    BY <1>1
  <2> QED BY <2>1, <2>2
<1>3. f[p] = SplitStep(text, typeEnd, f, p)
  <2> HIDE DEF p, f
  <2> QED BY <1>1, SplitUnfold DEF f
<1>4. SplitStep(text, typeEnd, f, p) =
        IF sep.at = 0 THEN [texts |-> <<>>, overran |-> TRUE]
        ELSE IF sep.at = typeEnd
             THEN [texts |-> <<SubSeq(text, k + 1, sep.at - 1)>>, overran |-> FALSE]
        ELSE [texts |-> <<SubSeq(text, k + 1, sep.at - 1)>> \o f[<<sep.at + 1, sep.opens>>].texts,
              overran |-> f[<<sep.at + 1, sep.opens>>].overran]
  BY <1>1, Zenon DEF SplitStep
<1>5. /\ sep.at # 0
      /\ SubSeq(text, k + 1, sep.at - 1) = piece
      /\ f[<<sep.at + 1, sep.opens>>] = rest
  <2> HIDE DEF sep, f
  <2> QED BY <1>2
<1>6. f[p] = IF next = typeEnd THEN [texts |-> <<piece>>, overran |-> FALSE]
             ELSE [texts |-> <<piece>> \o rest.texts, overran |-> rest.overran]
  <2>1. sep.at = next
    BY <1>2
  <2> HIDE DEF sep, f, p, rest, next, member
  <2> QED BY <1>3, <1>4, <1>5, <2>1
<1>7. /\ next = typeEnd => f[p].texts = <<piece>> /\ f[p].overran = FALSE
      /\ next # typeEnd => f[p].texts = <<piece>> \o rest.texts /\ f[p].overran = rest.overran
  <2> DEFINE one == <<piece>>
             more == <<piece>> \o rest.texts
             last == rest.overran
  <2>1. f[p] = IF next = typeEnd THEN [texts |-> one, overran |-> FALSE]
               ELSE [texts |-> more, overran |-> last]
    BY <1>6
  <2>2. /\ next = typeEnd => f[p].texts = one /\ f[p].overran = FALSE
        /\ next # typeEnd => f[p].texts = more /\ f[p].overran = last
    <3> HIDE DEF f, p, rest, next, one, more, last
    <3>1. CASE next = typeEnd
      <4>1. f[p] = [texts |-> one, overran |-> FALSE]
        BY <2>1, <3>1, Zenon
      <4> DEFINE here == f[p]
      <4> HIDE DEF here
      <4>2. here.texts = one /\ here.overran = FALSE
        BY <4>1 DEF here
      <4> QED BY <3>1, <4>2, Zenon DEF here
    <3>2. CASE next # typeEnd
      <4>1. f[p] = [texts |-> more, overran |-> last]
        BY <2>1, <3>2, Zenon
      <4> DEFINE here == f[p]
      <4> HIDE DEF here
      <4>2. here.texts = more /\ here.overran = last
        BY <4>1 DEF here
      <4> QED BY <3>2, <4>2, Zenon DEF here
    <3> QED BY <3>1, <3>2
  <2> QED BY <2>2, Zenon
<1>8. f[p] = SplitFrom(text, typeEnd, k + 1) /\ rest = SplitFrom(text, typeEnd, k + Len(piece) + 2)
  <2>1. next + 1 = k + Len(piece) + 2
    BY <1>1
  <2>2. rest = f[<<k + Len(piece) + 2, 0>>]
    BY <2>1, Zenon
  <2> QED BY <2>2, Zenon DEF SplitFrom
<1> QED BY <1>7, <1>8, Zenon DEF FirstMember

\* A piece that reaches to the end.
LEMMA OneMember ==
  ASSUME NEW text, NEW u, Cut(text, Len(text), 1, u), 1 + Len(u) + 1 = Len(text)
  PROVE  /\ Members(text, Len(text)).texts = <<u>>
         /\ Members(text, Len(text)).overran = FALSE
<1>1. /\ SplitFrom(text, Len(text), 1 + 1).texts = <<u>>
      /\ SplitFrom(text, Len(text), 1 + 1).overran = FALSE
  <2>1. FirstMember(text, Len(text), 1, u)
    BY CutSplit, Zenon
  <2> QED BY <2>1, Zenon DEF FirstMember
<1>2. Members(text, Len(text)) = SplitFrom(text, Len(text), 2)
  BY MembersIsSplit, Zenon DEF SplitFrom
<1> QED BY <1>1, <1>2

\* A first piece that another one follows.
LEMMA FirstOfMembers ==
  ASSUME NEW text, NEW u, Cut(text, Len(text), 1, u), 1 + Len(u) + 1 # Len(text)
  PROVE  LET rest == SplitFrom(text, Len(text), 1 + Len(u) + 2)
         IN  /\ Members(text, Len(text)).texts = <<u>> \o rest.texts
             /\ Members(text, Len(text)).overran = rest.overran
             /\ rest.texts \in Seq(Pieces(text))
<1> DEFINE cur == 1 + Len(u) + 2
           p == <<cur, 0>>
           rest == SplitFrom(text, Len(text), cur)
<1>1. /\ p \in Places /\ p[1] >= 2
      /\ text \in Seq(Tokens) /\ Len(text) \in 1..Len(text)
  BY DEF Cut, Sealed, Places
<1>2. /\ SplitFrom(text, Len(text), 1 + 1).texts = <<u>> \o rest.texts
      /\ SplitFrom(text, Len(text), 1 + 1).overran = rest.overran
  <2>1. FirstMember(text, Len(text), 1, u)
    BY CutSplit, Zenon
  <2> QED BY <2>1, Zenon DEF FirstMember
<1>3. Members(text, Len(text)) = SplitFrom(text, Len(text), 2)
  BY MembersIsSplit, Zenon DEF SplitFrom
<1>4. SplitOK(text, Len(text), p)
  <2> HIDE DEF p
  <2> QED BY <1>1, SplitShape
<1>5. rest.texts \in Seq(Pieces(text))
  BY <1>4, Zenon DEF SplitOK, SplitFrom
<1> QED BY <1>2, <1>3, <1>5

-----------------------------------------------------------------------------
(* What a text is converted to, by what it starts with.                    *)

LEMMA LastIsEnd ==
  ASSUME NEW text \in Seq(Tokens), text # <<>>, NEW token, text[Len(text)] = token
  PROVE  FindLast(text, token) = Len(text)
<1> DEFINE S == {i \in 1..Len(text) : text[i] = token}
<1>1. FindLast(text, token) = IF S # {} THEN Max(S) ELSE 0
  BY Zenon DEF FindLast, SelectLastInSeq
<1>2. Len(text) \in Nat /\ Len(text) \in S /\ \A y \in S : y \in Int /\ Len(text) >= y
  OBVIOUS
<1>3. Max(S) \in S /\ \A y \in S : Max(S) >= y
  <2> HIDE DEF S
  <2> QED BY <1>2 DEF Max
<1> HIDE DEF S
<1> QED BY <1>1, <1>2, <1>3

LEMMA FirstIsAt ==
  ASSUME NEW text \in Seq(Tokens), NEW token
  PROVE  /\ \A k \in 1..Len(text) :
              text[k] = token /\ (\A i \in 1..(k - 1) : text[i] # token) => Find(text, token) = k
         /\ (\A i \in 1..Len(text) : text[i] # token) => Find(text, token) = 0
<1> DEFINE S == {i \in 1..Len(text) : text[i] = token}
<1>1. Find(text, token) = IF S # {} THEN Min(S) ELSE 0
  BY Zenon DEF Find, SelectInSeq
<1>2. ASSUME NEW k \in 1..Len(text), text[k] = token, \A i \in 1..(k - 1) : text[i] # token
      PROVE  Find(text, token) = k
  <2>1. k \in Nat /\ k \in S /\ \A y \in S : y \in Int /\ k <= y
    BY <1>2
  <2>2. Min(S) \in S /\ \A y \in S : Min(S) <= y
    <3> HIDE DEF S
    <3> QED BY <2>1 DEF Min
  <2> DEFINE m == Min(S)
  <2>3. m \in Int /\ m <= k /\ k <= m
    BY <2>1, <2>2
  <2> HIDE DEF S, m
  <2>4. m = k
    BY <2>1, <2>3
  <2> QED BY <1>1, <2>1, <2>4 DEF m
<1>3. ASSUME \A i \in 1..Len(text) : text[i] # token
      PROVE  Find(text, token) = 0
  BY <1>1, <1>3
<1> QED BY <1>2, <1>3

\* The texts the conversion takes for those of lists, maps and structs.
LEMMA NestedConversion ==
  ASSUME NEW text \in Seq(Tokens), text # <<>>, text[Len(text)] = ">"
  PROVE  LET C == TypeToLogicalType
             child == SubSeq(text, 2, Len(text) - 1)
             members == Members(text, Len(text))
             types == TypesOf(C, members.texts)
             fields == FieldsOf(C, members.texts)
         IN  /\ text[1] = "array<" =>
                  C[text] = Combined(<<C[child]>>, FALSE, List(C[child]))
             /\ text[1] = "map<" =>
                  C[text] = Combined(types, members.overran,
                                     IF Len(types) = 2 THEN MapOf(types) ELSE Error)
             /\ text[1] = "struct<" =>
                  C[text] = Combined(fields, members.overran,
                                     Struct(NamesOf(members.texts), fields))
<1> DEFINE C == TypeToLogicalType
           typeEnd == FindLast(text, ">")
           members == Members(text, typeEnd)
           types == TypesOf(C, members.texts)
           fields == FieldsOf(C, members.texts)
           child == C[SubSeq(text, 2, typeEnd - 1)]
           list == Combined(<<child>>, FALSE, List(child))
           map == Combined(types, members.overran, IF Len(types) = 2 THEN MapOf(types) ELSE Error)
           struct == Combined(fields, members.overran, Struct(NamesOf(members.texts), fields))
<1>1. typeEnd = Len(text) /\ Len(text) # 0
  BY LastIsEnd
<1>2. C[text] =
        CASE text = <<"int">> -> Integer
          [] Starts(text, "decimal(") /\ Find(text, ")") # 0 -> DecimalOf(text)
          [] Starts(text, "array<") /\ typeEnd # 0 -> list
          [] Starts(text, "map<") /\ typeEnd # 0 -> map
          [] Starts(text, "struct<") /\ typeEnd # 0 -> struct
          [] OTHER -> Error
  BY TypeToLogicalTypeUnfold, Zenon DEF Conversion
<1>3. \A token : Starts(text, token) <=> text[1] = token
  BY DEF Starts
<1>4. text = <<"int">> => text[1] = "int"
  OBVIOUS
<1>5. /\ text[1] = "array<" => C[text] = list
      /\ text[1] = "map<" => C[text] = map
      /\ text[1] = "struct<" => C[text] = struct
  <2>1. typeEnd # 0
    BY <1>1
  <2> HIDE DEF C, list, map, struct, typeEnd
  <2> QED BY <1>2, <1>3, <1>4, <2>1
<1> QED BY <1>1, <1>5, Zenon

LEMMA LeafConversion ==
  ASSUME NEW text \in Seq(Tokens)
  PROVE  /\ text = <<"int">> => TypeToLogicalType[text] = Integer
         /\ text # <<>> /\ text[1] = "decimal(" =>
              TypeToLogicalType[text] = IF Find(text, ")") # 0 THEN DecimalOf(text) ELSE Error
<1> DEFINE C == TypeToLogicalType
           typeEnd == FindLast(text, ">")
           members == Members(text, typeEnd)
           types == TypesOf(C, members.texts)
           fields == FieldsOf(C, members.texts)
           child == C[SubSeq(text, 2, typeEnd - 1)]
           list == Combined(<<child>>, FALSE, List(child))
           map == Combined(types, members.overran, IF Len(types) = 2 THEN MapOf(types) ELSE Error)
           struct == Combined(fields, members.overran, Struct(NamesOf(members.texts), fields))
<1>2. C[text] =
        CASE text = <<"int">> -> Integer
          [] Starts(text, "decimal(") /\ Find(text, ")") # 0 -> DecimalOf(text)
          [] Starts(text, "array<") /\ typeEnd # 0 -> list
          [] Starts(text, "map<") /\ typeEnd # 0 -> map
          [] Starts(text, "struct<") /\ typeEnd # 0 -> struct
          [] OTHER -> Error
  BY TypeToLogicalTypeUnfold, Zenon DEF Conversion
<1>3. \A token : Starts(text, token) <=> text # <<>> /\ text[1] = token
  BY DEF Starts
<1>4. text = <<"int">> => text[1] = "int" /\ text # <<>>
  OBVIOUS
<1>5. /\ text = <<"int">> => C[text] = Integer
      /\ text # <<>> /\ text[1] = "decimal(" =>
           C[text] = IF Find(text, ")") # 0 THEN DecimalOf(text) ELSE Error
  <2> HIDE DEF C, list, map, struct, typeEnd
  <2> QED BY <1>2, <1>3, <1>4
<1> QED BY <1>5, Zenon

-----------------------------------------------------------------------------
(* The layout of the server's texts.                                       *)

Wrap(opener, body) == <<opener>> \o body \o <<">">>

LEMMA WrapLayout ==
  ASSUME NEW opener \in Openers, NEW body \in Seq(Tokens)
  PROVE  /\ Wrap(opener, body) \in Seq(Tokens) /\ Wrap(opener, body) # <<>>
         /\ Len(Wrap(opener, body)) = Len(body) + 2
         /\ Wrap(opener, body)[1] = opener
         /\ Wrap(opener, body)[Len(body) + 2] = ">"
         /\ At(Wrap(opener, body), 1, body)
<1> DEFINE first == <<opener>>
           last == <<">">>
           y == first \o body
           x == y \o last
<1>1. /\ first \in Seq(Tokens) /\ Len(first) = 1 /\ first[1] = opener
      /\ last \in Seq(Tokens) /\ Len(last) = 1 /\ last[1] = ">"
      /\ Len(body) \in Nat
  BY TokensDiffer DEF Meaningful
<1> HIDE DEF first, last
<1>2. y \in Seq(Tokens) /\ Len(y) = 1 + Len(body) /\ At(y, 0, first) /\ At(y, 1, body)
  <2>1. /\ y \in Seq(Tokens) /\ Len(y) = Len(first) + Len(body)
        /\ At(y, 0, first) /\ At(y, Len(first), body)
    BY <1>1, ConcatAt, Zenon
  <2> HIDE DEF y
  <2> QED BY <1>1, <2>1
<1> HIDE DEF y
<1>3. x \in Seq(Tokens) /\ Len(x) = Len(y) + 1 /\ At(x, 0, y) /\ At(x, Len(y), last)
  <2>1. /\ x \in Seq(Tokens) /\ Len(x) = Len(y) + Len(last)
        /\ At(x, 0, y) /\ At(x, Len(y), last)
    BY <1>1, <1>2, ConcatAt, Zenon
  <2> HIDE DEF x
  <2> QED BY <1>1, <2>1
<1> HIDE DEF x
<1>4. At(x, 0 + 0, first) /\ At(x, 0 + 1, body)
  BY <1>1, <1>2, <1>3, AtAt
<1>5. At(x, 0, first) /\ At(x, 1, body)
  BY <1>4
<1>6. Len(x) = Len(body) + 2 /\ Len(y) + 1 = Len(body) + 2
  BY <1>1, <1>2, <1>3
<1>7. x[0 + 1] = first[1] /\ x[Len(y) + 1] = last[1]
  BY <1>1, <1>3, <1>5 DEF At
<1>8. x[1] = opener /\ x[Len(body) + 2] = ">" /\ x # <<>>
  BY <1>1, <1>3, <1>6, <1>7
<1>9. x = Wrap(opener, body)
  BY Zenon DEF x, y, first, last, Wrap
<1> QED BY <1>3, <1>5, <1>6, <1>8, <1>9

LEMMA BothLayout ==
  ASSUME NEW a \in Seq(Tokens), NEW b \in Seq(Tokens)
  PROVE  /\ Both(a, b) \in Seq(Tokens)
         /\ Len(Both(a, b)) = Len(a) + 1 + Len(b)
         /\ At(Both(a, b), 0, a)
         /\ Both(a, b)[Len(a) + 1] = Comma
         /\ At(Both(a, b), Len(a) + 1, b)
<1> DEFINE sep == <<Comma>>
           y == a \o sep
           x == y \o b
<1>1. sep \in Seq(Tokens) /\ Len(sep) = 1 /\ sep[1] = Comma /\ Len(a) \in Nat /\ Len(b) \in Nat
  BY TokensDiffer
<1> HIDE DEF sep
<1>2. y \in Seq(Tokens) /\ Len(y) = Len(a) + 1 /\ At(y, 0, a) /\ At(y, Len(a), sep)
  BY <1>1, ConcatAt
<1> HIDE DEF y
<1>3. x \in Seq(Tokens) /\ Len(x) = Len(y) + Len(b) /\ At(x, 0, y) /\ At(x, Len(y), b)
  BY <1>2, ConcatAt
<1> HIDE DEF x
<1>4. At(x, 0 + 0, a) /\ At(x, 0 + Len(a), sep)
  BY <1>1, <1>2, <1>3, AtAt
<1>5. At(x, 0, a) /\ At(x, Len(a), sep) /\ At(x, Len(a) + 1, b)
  BY <1>1, <1>2, <1>3, <1>4
<1>6. x[Len(a) + 1] = Comma
  BY <1>1, <1>5 DEF At
<1>7. x = Both(a, b)
  BY Zenon DEF x, y, sep, Both
<1>8. Len(x) = Len(a) + 1 + Len(b)
  BY <1>2, <1>3
<1> QED BY <1>3, <1>5, <1>6, <1>7, <1>8

LEMMA FieldLayout ==
  ASSUME NEW i \in DOMAIN FieldNames, NEW body \in Seq(Tokens)
  PROVE  LET x == <<FieldNames[i], ":">> \o body
         IN  /\ x \in Seq(Tokens)
             /\ Len(x) = Len(body) + 2
             /\ x[1] = FieldNames[i]
             /\ x[2] = ":"
             /\ At(x, 2, body)
<1> DEFINE name == <<FieldNames[i], ":">>
           x == name \o body
<1>1. name \in Seq(Tokens) /\ Len(name) = 2 /\ name[1] = FieldNames[i] /\ name[2] = ":"
  <2>1. name \in Seq(Tokens)
    BY LeavesBalanced DEF Sealed
  <2> QED BY <2>1
<1>2. Len(body) \in Nat
  OBVIOUS
<1> HIDE DEF name
<1>3. x \in Seq(Tokens) /\ Len(x) = 2 + Len(body) /\ At(x, 0, name) /\ At(x, 2, body)
  BY <1>1, ConcatAt
<1> HIDE DEF x
<1>4. x[0 + 1] = name[1] /\ x[0 + 2] = name[2]
  BY <1>1, <1>3 DEF At
<1>5. /\ x \in Seq(Tokens) /\ Len(x) = Len(body) + 2 /\ x[1] = FieldNames[i] /\ x[2] = ":"
      /\ At(x, 2, body)
  BY <1>1, <1>2, <1>3, <1>4
<1> QED BY <1>5 DEF x, name

LEMMA DecimalLayout ==
  /\ DecimalText \in Seq(Tokens) /\ Len(DecimalText) = 5
  /\ DecimalText[1] = "decimal("
  /\ DecimalText[2] = "9"
  /\ DecimalText[3] = Comma
  /\ DecimalText[4] = "9"
  /\ DecimalText[5] = ")"
<1> DEFINE nine == <<"9">>
           open == <<"decimal(">>
           close == <<")">>
           both == Both(nine, nine)
           y == open \o both
           x == y \o close
<1>1. /\ nine \in Seq(Tokens) /\ Len(nine) = 1 /\ nine[1] = "9"
      /\ open \in Seq(Tokens) /\ Len(open) = 1 /\ open[1] = "decimal("
      /\ close \in Seq(Tokens) /\ Len(close) = 1 /\ close[1] = ")"
  <2>1. "9" \in Tokens /\ "decimal(" \in Tokens /\ ")" \in Tokens
    BY Zenon DEF Tokens, Meaningful
  <2> QED BY <2>1
<1> HIDE DEF nine, open, close
<1>2. /\ both \in Seq(Tokens) /\ Len(both) = 3 /\ both[2] = Comma
      /\ At(both, 0, nine) /\ At(both, 2, nine)
  <2> DEFINE n == Len(nine)
  <2>1. n + 1 = 2 /\ n + 1 + n = 3
    BY <1>1
  <2>2. /\ both \in Seq(Tokens) /\ Len(both) = n + 1 + n /\ both[n + 1] = Comma
        /\ At(both, 0, nine) /\ At(both, n + 1, nine)
    BY <1>1, BothLayout, Zenon
  <2> HIDE DEF n, both
  <2> QED BY <2>1, <2>2
<1>3. both[1] = "9" /\ both[3] = "9"
  <2>1. both[0 + 1] = nine[1] /\ both[2 + 1] = nine[1]
    BY <1>1, <1>2 DEF At
  <2> QED BY <1>1, <2>1
<1> HIDE DEF both
<1>4. y \in Seq(Tokens) /\ Len(y) = 4 /\ At(y, 0, open) /\ At(y, 1, both)
  <2>1. /\ y \in Seq(Tokens) /\ Len(y) = Len(open) + Len(both)
        /\ At(y, 0, open) /\ At(y, Len(open), both)
    BY <1>1, <1>2, ConcatAt, Zenon
  <2> HIDE DEF y
  <2> QED BY <1>1, <1>2, <2>1
<1>5. y[1] = "decimal(" /\ y[2] = "9" /\ y[3] = Comma /\ y[4] = "9"
  <2> HIDE DEF y
  <2>1. y[0 + 1] = open[1] /\ y[1 + 1] = both[1] /\ y[1 + 2] = both[2] /\ y[1 + 3] = both[3]
    BY <1>1, <1>2, <1>4 DEF At
  <2> QED BY <1>1, <1>2, <1>3, <2>1
<1> HIDE DEF y
<1>6. x \in Seq(Tokens) /\ Len(x) = 5 /\ At(x, 0, y) /\ At(x, 4, close)
  <2>1. /\ x \in Seq(Tokens) /\ Len(x) = Len(y) + Len(close)
        /\ At(x, 0, y) /\ At(x, Len(y), close)
    BY <1>1, <1>4, ConcatAt, Zenon
  <2> HIDE DEF x
  <2> QED BY <1>1, <1>4, <2>1
<1> HIDE DEF x
<1>7. /\ x[0 + 1] = y[1] /\ x[0 + 2] = y[2] /\ x[0 + 3] = y[3] /\ x[0 + 4] = y[4]
      /\ x[4 + 1] = close[1]
  BY <1>1, <1>4, <1>6 DEF At
<1>8. x = DecimalText
  BY Zenon DEF x, y, both, nine, open, close, DecimalText
<1> QED BY <1>1, <1>5, <1>6, <1>7, <1>8

-----------------------------------------------------------------------------
(* The members that splitting a wrapped body finds.                        *)

\* What the scan for separators takes for the first piece of a member.
HeadOf(member, head) ==
    /\ member \in Seq(Tokens)
    /\ Sealed(head) /\ At(member, 0, head)
    /\ Len(head) = Len(member) \/ member[Len(head) + 1] = Comma

LEMMA WholeHead ==
  ASSUME NEW member, Sealed(member)
  PROVE  HeadOf(member, member)
<1>1. member \in Seq(Tokens) /\ Len(member) \in Nat
  BY DEF Sealed
<1>2. At(member, 0, member)
  BY <1>1 DEF At
<1> QED BY <1>1, <1>2 DEF HeadOf

LEMMA DecimalHead == HeadOf(DecimalText, CutDecimal)
<1>1. CutDecimal[1] = "decimal(" /\ CutDecimal[2] = "9" /\ Len(CutDecimal) = 2
  BY DEF CutDecimal
<1>2. Sealed(CutDecimal)
  BY LeavesBalanced
<1>3. At(DecimalText, 0, CutDecimal)
  BY <1>1, DecimalLayout DEF At
<1>4. DecimalText[Len(CutDecimal) + 1] = Comma
  BY <1>1, DecimalLayout
<1> QED BY <1>2, <1>3, <1>4, DecimalLayout DEF HeadOf

LEMMA FieldHead ==
  ASSUME NEW i \in DOMAIN FieldNames, NEW member, NEW head, HeadOf(member, head)
  PROVE  HeadOf(<<FieldNames[i], ":">> \o member, <<FieldNames[i], ":">> \o head)
<1> DEFINE name == <<FieldNames[i], ":">>
           x == name \o member
           h == name \o head
<1>1. Sealed(name)
  BY LeavesBalanced
<1>2. /\ member \in Seq(Tokens) /\ head \in Seq(Tokens)
      /\ Len(head) \in Nat /\ Len(member) \in Nat /\ Len(head) <= Len(member)
      /\ \A j \in 1..Len(head) : member[j] = head[j]
      /\ Len(head) = Len(member) \/ member[Len(head) + 1] = Comma
  BY DEF HeadOf, Sealed, At
<1>3. x \in Seq(Tokens) /\ Len(x) = Len(member) + 2 /\ x[1] = FieldNames[i] /\ x[2] = ":" /\ At(x, 2, member)
  BY <1>2, FieldLayout
<1>4. h \in Seq(Tokens) /\ Len(h) = Len(head) + 2 /\ h[1] = FieldNames[i] /\ h[2] = ":" /\ At(h, 2, head)
  BY <1>2, FieldLayout
<1>5. Sealed(h)
  <2> HIDE DEF name
  <2> QED BY <1>1, ConcatBalanced DEF HeadOf
<1> HIDE DEF x, h, name
<1>6. ASSUME NEW j \in 1..Len(h)
      PROVE  x[0 + j] = h[j]
  <2>1. CASE j = 1
    BY <1>3, <1>4, <2>1
  <2>2. CASE j = 2
    BY <1>3, <1>4, <2>2
  <2>3. CASE j > 2
    <3>1. j - 2 \in 1..Len(head) /\ j - 2 \in 1..Len(member) /\ 2 + (j - 2) = j /\ 0 + j = j
      BY <1>2, <1>4, <2>3
    <3>2. x[2 + (j - 2)] = member[j - 2] /\ h[2 + (j - 2)] = head[j - 2]
      BY <1>3, <1>4, <3>1 DEF At
    <3>3. member[j - 2] = head[j - 2]
      BY <1>2, <3>1
    <3> QED BY <3>1, <3>2, <3>3
  <2>4. j = 1 \/ j = 2 \/ j > 2
    BY <1>2, <1>4
  <2> QED BY <2>1, <2>2, <2>3, <2>4
<1>7. At(x, 0, h)
  BY <1>2, <1>3, <1>4, <1>6 DEF At
<1>8. Len(h) = Len(x) \/ x[Len(h) + 1] = Comma
  <2>1. CASE Len(head) = Len(member)
    BY <1>3, <1>4, <2>1
  <2>2. CASE Len(head) # Len(member)
    <3>1. Len(head) + 1 \in 1..Len(member) /\ 2 + (Len(head) + 1) = Len(h) + 1
      BY <1>2, <1>4, <2>2
    <3>2. x[2 + (Len(head) + 1)] = member[Len(head) + 1]
      BY <1>3, <3>1 DEF At
    <3>3. member[Len(head) + 1] = Comma
      BY <1>2, <2>2
    <3> QED BY <3>1, <3>2, <3>3
  <2> QED BY <2>1, <2>2
<1>9. HeadOf(x, h)
  BY <1>3, <1>5, <1>7, <1>8 DEF HeadOf
<1> QED BY <1>9 DEF x, h, name

LEMMA HeadCut ==
  ASSUME NEW text \in Seq(Tokens), NEW k \in Nat \ {0}, NEW member, NEW head,
         HeadOf(member, head), At(text, k, member), k + Len(member) + 1 <= Len(text),
         k + Len(member) + 1 = Len(text) \/ text[k + Len(member) + 1] = Comma
  PROVE  Cut(text, Len(text), k, head)
<1>1. /\ member \in Seq(Tokens) /\ head \in Seq(Tokens) /\ Len(text) \in Nat
      /\ Len(head) \in Nat /\ Len(member) \in Nat /\ Len(head) <= Len(member)
      /\ \A j \in 1..Len(head) : member[j] = head[j]
      /\ Len(head) = Len(member) \/ member[Len(head) + 1] = Comma
      /\ \A j \in 1..Len(member) : text[k + j] = member[j]
  BY DEF HeadOf, Sealed, At
<1>2. At(text, k, head)
  <2>1. k + Len(head) <= Len(text)
    BY <1>1
  <2>2. \A j \in 1..Len(head) : j \in 1..Len(member)
    BY <1>1
  <2> QED BY <1>1, <2>1, <2>2 DEF At
<1>3. Len(text) \in 1..Len(text) /\ k + Len(head) + 1 <= Len(text)
  BY <1>1
<1>4. k + Len(head) + 1 = Len(text) \/ text[k + Len(head) + 1] = Comma
  <2>1. CASE Len(head) = Len(member)
    BY <2>1
  <2>2. CASE Len(head) # Len(member)
    <3>1. Len(head) + 1 \in 1..Len(member) /\ k + (Len(head) + 1) = k + Len(head) + 1
      BY <1>1, <2>2
    <3> QED BY <1>1, <2>2, <3>1
  <2> QED BY <2>1, <2>2
<1> QED BY <1>2, <1>3, <1>4 DEF Cut, HeadOf

\* all is u and then the rest.
Appended(all, u, rest) ==
    /\ Len(all) = Len(rest) + 1
    /\ 1 \in DOMAIN all /\ all[1] = u
    /\ \A i \in 1..Len(rest) : i + 1 \in DOMAIN all /\ all[i + 1] = rest[i]

LEMMA AppendsFirst ==
  ASSUME NEW S, NEW rest \in Seq(S), NEW u
  PROVE  Appended(<<u>> \o rest, u, rest)
<1> DEFINE one == <<u>>
           T == S \cup {u}
           all == one \o rest
<1>1. one \in Seq(T) /\ rest \in Seq(T) /\ Len(one) = 1 /\ one[1] = u /\ Len(rest) \in Nat
  OBVIOUS
<1> HIDE DEF one, T
<1>2. /\ all \in Seq(T) /\ Len(all) = Len(one) + Len(rest)
      /\ \A i \in 1..(Len(one) + Len(rest)) :
           all[i] = IF i <= Len(one) THEN one[i] ELSE rest[i - Len(one)]
  BY <1>1, ConcatProperties
<1> HIDE DEF all
<1>3. DOMAIN all = 1..(1 + Len(rest)) /\ Len(all) = Len(rest) + 1
  BY <1>1, <1>2
<1>4. 1 \in DOMAIN all /\ all[1] = u
  BY <1>1, <1>2, <1>3
<1>5. ASSUME NEW i \in 1..Len(rest)
      PROVE  i + 1 \in DOMAIN all /\ all[i + 1] = rest[i]
  <2>1. i + 1 \in 1..(1 + Len(rest)) /\ ~(i + 1 <= 1) /\ (i + 1) - 1 = i
    BY <1>1
  <2> QED BY <1>1, <1>2, <1>3, <2>1
<1> QED BY <1>3, <1>4, <1>5, Zenon DEF all, one, Appended

\* The member at place i of what splitting the text gives is u.
MemberAt(text, i, u) ==
    i \in DOMAIN Members(text, Len(text)).texts /\ Members(text, Len(text)).texts[i] = u

\* Splitting the text gives these members, and no scan overruns.
MembersAre(text, texts) ==
    Members(text, Len(text)).texts = texts /\ Members(text, Len(text)).overran = FALSE

\* Where the i-th of the joined texts begins in the wrapped text: after this place.
Place(texts, i) == IF i = 1 THEN 1 ELSE Len(Join(texts)[i - 1]) + 2

\* The first n texts, joined: each is in its place, behind the separator of the
\* one before it.
JoinedUpTo(texts, n) ==
    /\ Join(texts)[n] \in Seq(Tokens)
    /\ Len(Join(texts)[n]) + 1 = Place(texts, n) + Len(texts[n])
    /\ \A i \in 1..n : /\ Place(texts, i) \in Nat \ {0}
                       /\ At(Join(texts)[n], Place(texts, i) - 1, texts[i])
    /\ \A i \in 1..(n - 1) : /\ Place(texts, i + 1) = Place(texts, i) + Len(texts[i]) + 1
                             /\ Join(texts)[n][Place(texts, i + 1) - 1] = Comma

LEMMA FirstJoined ==
  ASSUME NEW N \in Nat \ {0}, NEW texts, Len(texts) = N, texts[1] \in Seq(Tokens)
  PROVE  JoinedUpTo(texts, 1)
<1> DEFINE first == texts[1]
<1>1. Join(texts)[1] = first
  <2>1. Joins(texts, N) /\ N >= 1
    BY JoinGrows
  <2> QED BY <2>1, Zenon DEF Joins
<1>2. first \in Seq(Tokens) /\ Len(first) \in Nat
  OBVIOUS
<1> HIDE DEF first
<1>3. At(first, 0, first)
  BY <1>2 DEF At
<1>4. Place(texts, 1) = 1
  BY Zenon DEF Place
<1>5. \A i \in 1..1 : i = 1
  OBVIOUS
<1>6. \A i \in 1..(1 - 1) : FALSE
  OBVIOUS
<1>7. Place(texts, 1) - 1 = 0 /\ Place(texts, 1) \in Nat \ {0}
  BY <1>4
<1>8. Len(first) + 1 = Place(texts, 1) + Len(first)
  BY <1>2, <1>4
<1>9. \A i \in 1..1 : Place(texts, i) \in Nat \ {0} /\ At(first, Place(texts, i) - 1, texts[i])
  BY <1>3, <1>5, <1>7 DEF first
<1> QED BY <1>1, <1>2, <1>6, <1>8, <1>9 DEF JoinedUpTo, first

LEMMA NextJoined ==
  ASSUME NEW N \in Nat, NEW texts, Len(texts) = N, NEW n \in 1..N, n + 1 <= N,
         \A i \in 1..N : texts[i] \in Seq(Tokens), JoinedUpTo(texts, n)
  PROVE  JoinedUpTo(texts, n + 1)
<1> DEFINE a == Join(texts)[n]
           b == texts[n + 1]
           x == Join(texts)[n + 1]
           P(i) == Place(texts, i)
<1>1. x = Both(a, b)
  <2>1. n + 1 \in 2..N /\ (n + 1) - 1 = n
    OBVIOUS
  <2>2. Joins(texts, N)
    BY JoinGrows
  <2>3. x = Both(Join(texts)[(n + 1) - 1], b)
    BY <2>1, <2>2, Zenon DEF Joins
  <2> QED BY <2>1, <2>3, Zenon
<1>2. /\ a \in Seq(Tokens) /\ b \in Seq(Tokens) /\ Len(a) \in Nat /\ Len(b) \in Nat
      /\ \A i \in 1..n : texts[i] \in Seq(Tokens) /\ Len(texts[i]) \in Nat
  <2>1. a \in Seq(Tokens)
    BY Zenon DEF JoinedUpTo
  <2>2. b \in Seq(Tokens)
    OBVIOUS
  <2>3. \A i \in 1..n : texts[i] \in Seq(Tokens)
    OBVIOUS
  <2> HIDE DEF a, b
  <2> QED BY <2>1, <2>2, <2>3
<1>3. P(n + 1) = Len(a) + 2
  <2>1. n + 1 # 1 /\ (n + 1) - 1 = n
    OBVIOUS
  <2> QED BY <2>1, Zenon DEF Place
<1>4. /\ x \in Seq(Tokens) /\ Len(x) = Len(a) + 1 + Len(b)
      /\ At(x, 0, a) /\ x[Len(a) + 1] = Comma /\ At(x, Len(a) + 1, b)
  <2> HIDE DEF a, b, x
  <2>1. /\ Both(a, b) \in Seq(Tokens) /\ Len(Both(a, b)) = Len(a) + 1 + Len(b)
        /\ At(Both(a, b), 0, a) /\ Both(a, b)[Len(a) + 1] = Comma
        /\ At(Both(a, b), Len(a) + 1, b)
    BY <1>2, BothLayout, Zenon
  <2> QED BY <1>1, <2>1, Zenon
<1>5. /\ Len(a) + 1 = P(n) + Len(texts[n])
      /\ \A i \in 1..n : P(i) \in Nat \ {0} /\ At(a, P(i) - 1, texts[i])
      /\ \A i \in 1..(n - 1) : P(i + 1) = P(i) + Len(texts[i]) + 1 /\ a[P(i + 1) - 1] = Comma
  BY DEF JoinedUpTo
<1> HIDE DEF a, b, x, P
<1>6. ASSUME NEW i \in 1..(n + 1)
      PROVE  P(i) \in Nat \ {0} /\ At(x, P(i) - 1, texts[i])
  <2>1. CASE i = n + 1
    <3>1. P(i) - 1 = Len(a) + 1 /\ P(i) \in Nat \ {0}
      BY <1>2, <1>3, <2>1
    <3> QED BY <1>4, <2>1, <3>1 DEF b
  <2>2. CASE i # n + 1
    <3> DEFINE k == P(i) - 1
    <3>1. i \in 1..n /\ k \in Nat /\ 0 + k = k /\ At(a, k, texts[i]) /\ P(i) \in Nat \ {0}
      BY <1>5, <2>2
    <3> HIDE DEF k
    <3>2. At(x, 0 + k, texts[i])
      BY <1>2, <1>4, <3>1, AtAt
    <3> QED BY <3>1, <3>2 DEF k
  <2> QED BY <2>1, <2>2
<1>7. ASSUME NEW i \in 1..n
      PROVE  P(i + 1) = P(i) + Len(texts[i]) + 1 /\ x[P(i + 1) - 1] = Comma
  <2>1. CASE i = n
    <3>1. P(i) \in Nat /\ Len(texts[i]) \in Nat
      BY <1>2, <1>5
    <3>2. P(i + 1) - 1 = Len(a) + 1 /\ P(i + 1) = P(i) + Len(texts[i]) + 1
      BY <1>2, <1>3, <1>5, <2>1, <3>1
    <3> QED BY <1>4, <3>2
  <2>2. CASE i # n
    <3> DEFINE q == P(i + 1) - 1
    <3>1. i \in 1..(n - 1) /\ i + 1 \in 1..n
      BY <2>2
    <3>2. /\ P(i) \in Nat \ {0} /\ Len(texts[i]) \in Nat /\ Len(texts[i + 1]) \in Nat
          /\ P(i + 1) \in Nat \ {0}
      BY <1>2, <1>5, <3>1
    <3>3. P(i + 1) = P(i) + Len(texts[i]) + 1
      BY <1>5, <3>1
    <3>4. a[q] = Comma /\ q + Len(texts[i + 1]) <= Len(a)
      BY <1>5, <3>1 DEF At
    <3>5. q \in 1..Len(a) /\ 0 + q = q
      <4> DEFINE p == P(i + 1)
      <4>1. p \in Nat /\ p >= 2
        BY <3>2, <3>3
      <4>2. p - 1 <= Len(a)
        BY <3>2, <3>4, <4>1
      <4>3. Len(a) \in Nat
        BY <1>2
      <4> HIDE DEF p
      <4> QED BY <4>1, <4>2, <4>3 DEF p
    <3> HIDE DEF q
    <3>6. x[0 + q] = a[q]
      BY <1>4, <3>5 DEF At
    <3> QED BY <3>3, <3>4, <3>5, <3>6 DEF q
  <2> QED BY <2>1, <2>2
<1>8. Len(x) + 1 = P(n + 1) + Len(b)
  BY <1>2, <1>3, <1>4
<1>9. (n + 1) - 1 = n
  OBVIOUS
<1> QED BY <1>4, <1>6, <1>7, <1>8, <1>9 DEF JoinedUpTo, P, x, b

\* The texts in the order they have in the wrapped text, with what comes between them.
Laid(text, texts, N) ==
    /\ text \in Seq(Tokens) /\ Place(texts, 1) = 1
    /\ \A i \in 1..N :
         /\ texts[i] \in Seq(Tokens)
         /\ Place(texts, i) \in Nat \ {0} /\ At(text, Place(texts, i), texts[i])
         /\ Place(texts, i) + Len(texts[i]) + 1 <= Len(text)
         /\ i = N => Place(texts, i) + Len(texts[i]) + 1 = Len(text)
         /\ i # N => /\ Place(texts, i) + Len(texts[i]) + 1 = Place(texts, i + 1)
                     /\ text[Place(texts, i + 1)] = Comma
                     /\ Place(texts, i + 1) # Len(text)

LEMMA WrappedLaid ==
  ASSUME NEW opener \in Openers, NEW N \in Nat \ {0}, NEW texts, Len(texts) = N,
         \A i \in 1..N : texts[i] \in Seq(Tokens)
  PROVE  Laid(Wrap(opener, WithCommas(texts)), texts, N)
<1> DEFINE body == WithCommas(texts)
           text == Wrap(opener, body)
           P(i) == Place(texts, i)
           S == {k \in Nat : k + 1 <= N => JoinedUpTo(texts, k + 1)}
<1>1. 0 \in S
  <2>1. 1 \in 1..N
    OBVIOUS
  <2>2. JoinedUpTo(texts, 1)
    BY <2>1, FirstJoined
  <2> QED BY <2>2
<1>2. ASSUME NEW k \in S
      PROVE  k + 1 \in S
  <2> SUFFICES ASSUME (k + 1) + 1 <= N PROVE JoinedUpTo(texts, (k + 1) + 1)
    OBVIOUS
  <2> DEFINE n == k + 1
  <2>1. n \in 1..N /\ n + 1 <= N /\ JoinedUpTo(texts, n)
    OBVIOUS
  <2> HIDE DEF S, n
  <2>2. JoinedUpTo(texts, n + 1)
    BY <2>1, NextJoined
  <2> QED BY <2>2 DEF n
<1>3. S = Nat
  <2>1. S \in SUBSET Nat
    OBVIOUS
  <2> HIDE DEF S
  <2> QED BY <1>1, <1>2, <2>1, SetInduction
<1>4. JoinedUpTo(texts, N) /\ body = Join(texts)[N]
  <2>1. N - 1 \in Nat /\ (N - 1) + 1 = N
    OBVIOUS
  <2>2. N - 1 \in S
    <3> HIDE DEF S
    <3> QED BY <1>3, <2>1
  <2>3. JoinedUpTo(texts, (N - 1) + 1)
    BY <2>2
  <2>4. JoinedUpTo(texts, N)
    BY <2>1, <2>3, Zenon
  <2>5. Joins(texts, N)
    BY JoinGrows
  <2> QED BY <2>4, <2>5, Zenon DEF Joins
<1>5. /\ body \in Seq(Tokens) /\ Len(body) \in Nat /\ Len(body) + 1 = P(N) + Len(texts[N])
      /\ \A i \in 1..N : P(i) \in Nat \ {0} /\ At(body, P(i) - 1, texts[i])
      /\ \A i \in 1..(N - 1) : P(i + 1) = P(i) + Len(texts[i]) + 1 /\ body[P(i + 1) - 1] = Comma
  <2>1. Join(texts)[N] \in Seq(Tokens)
    BY <1>4 DEF JoinedUpTo
  <2> HIDE DEF body
  <2>2. Len(body) \in Nat
    BY <1>4, <2>1
  <2> QED BY <1>4, <2>1, <2>2 DEF JoinedUpTo
<1> HIDE DEF body, S
<1>6. text \in Seq(Tokens) /\ Len(text) = Len(body) + 2 /\ At(text, 1, body)
  BY <1>5, WrapLayout, Zenon
<1> HIDE DEF text, P
<1>7. P(1) = 1
  BY DEF P, Place
<1>8. ASSUME NEW i \in 1..N
      PROVE  /\ texts[i] \in Seq(Tokens) /\ Len(texts[i]) \in Nat
             /\ P(i) \in Nat \ {0} /\ At(text, P(i), texts[i])
             /\ P(i) + Len(texts[i]) + 1 <= Len(text)
  <2> DEFINE k == P(i) - 1
  <2>1. k \in Nat /\ 1 + k = P(i) /\ At(body, k, texts[i])
    BY <1>5
  <2>2. texts[i] \in Seq(Tokens) /\ Len(texts[i]) \in Nat
    OBVIOUS
  <2>3. k + Len(texts[i]) <= Len(body)
    BY <2>1 DEF At
  <2> HIDE DEF k
  <2>4. At(text, 1 + k, texts[i])
    BY <1>5, <1>6, <2>1, <2>2, AtAt
  <2>5. P(i) + Len(texts[i]) + 1 <= Len(text)
    BY <1>5, <1>6, <2>1, <2>2, <2>3
  <2> QED BY <1>5, <2>1, <2>2, <2>4, <2>5
<1>9. P(N) + Len(texts[N]) + 1 = Len(text)
  <2>1. P(N) \in Nat /\ Len(texts[N]) \in Nat
    BY <1>8
  <2> QED BY <1>5, <1>6, <2>1
<1>10. ASSUME NEW i \in 1..N, i # N
       PROVE  /\ P(i) + Len(texts[i]) + 1 = P(i + 1)
              /\ text[P(i + 1)] = Comma
              /\ P(i + 1) # Len(text)
  <2> DEFINE q == P(i + 1) - 1
  <2>1. i \in 1..(N - 1) /\ i + 1 \in 1..N
    BY <1>10
  <2>2. /\ P(i) \in Nat \ {0} /\ Len(texts[i]) \in Nat /\ P(i + 1) \in Nat \ {0}
        /\ Len(texts[i + 1]) \in Nat /\ P(i + 1) + Len(texts[i + 1]) + 1 <= Len(text)
    BY <1>8, <2>1
  <2>3. P(i + 1) = P(i) + Len(texts[i]) + 1
    BY <1>5, <2>1
  <2>4. body[q] = Comma
    BY <1>5, <2>1
  <2>5. q \in 1..Len(body) /\ 1 + q = P(i + 1) /\ P(i + 1) # Len(text)
    <3> DEFINE p == P(i + 1)
    <3>1. p \in Nat /\ p >= 2
      BY <2>2, <2>3
    <3>2. p + 1 <= Len(text)
      BY <2>2, <3>1
    <3>3. Len(body) \in Nat /\ Len(text) = Len(body) + 2
      BY <1>5, <1>6
    <3> HIDE DEF p
    <3> QED BY <3>1, <3>2, <3>3 DEF p
  <2> HIDE DEF q
  <2>6. text[1 + q] = body[q]
    BY <1>6, <2>5 DEF At
  <2> QED BY <2>3, <2>4, <2>5, <2>6
<1>11. Laid(text, texts, N)
  <2>1. \A i \in 1..N : i = N => P(i) + Len(texts[i]) + 1 = Len(text)
    BY <1>9
  <2> QED BY <1>6, <1>7, <1>8, <1>10, <2>1 DEF Laid, P
<1> QED BY <1>11 DEF text, body

\* What splitting gives from the i-th text on.
SplitAt(text, texts, i) == SplitFrom(text, Len(text), Place(texts, i) + 1)

LEMMA LaidFromTheStart ==
  ASSUME NEW N, NEW text, NEW texts, Laid(text, texts, N)
  PROVE  SplitAt(text, texts, 1) = Members(text, Len(text))
<1> DEFINE k == Place(texts, 1)
<1>1. k = 1
  BY Zenon DEF Laid
<1> HIDE DEF k
<1>2. k + 1 = 2
  BY <1>1
<1>3. Members(text, Len(text)) = SplitFrom(text, Len(text), 2)
  BY MembersIsSplit, Zenon DEF SplitFrom
<1> QED BY <1>2, <1>3, Zenon DEF SplitAt, k

LEMMA SplitGivesPieces ==
  ASSUME NEW text \in Seq(Tokens), text # <<>>, NEW cur \in Nat, cur >= 2
  PROVE  SplitFrom(text, Len(text), cur).texts \in Seq(Pieces(text))
<1> DEFINE p == <<cur, 0>>
<1>1. p \in Places /\ p[1] >= 2 /\ Len(text) \in 1..Len(text)
  BY DEF Places
<1>2. SplitOK(text, Len(text), p)
  <2> HIDE DEF p
  <2> QED BY <1>1, SplitShape
<1> QED BY <1>2, Zenon DEF SplitOK, SplitFrom

LEMMA PlacesCut ==
  ASSUME NEW N \in Nat \ {0}, NEW text, NEW texts, Laid(text, texts, N),
         NEW i \in 1..N, NEW head, HeadOf(texts[i], head)
  PROVE  Cut(text, Len(text), Place(texts, i), head)
<1> DEFINE k == Place(texts, i)
           u == texts[i]
<1>1. /\ text \in Seq(Tokens) /\ k \in Nat \ {0} /\ At(text, k, u)
      /\ k + Len(u) + 1 <= Len(text)
      /\ i = N => k + Len(u) + 1 = Len(text)
      /\ i # N => text[k + Len(u) + 1] = Comma
  BY DEF Laid
<1>2. HeadOf(u, head)
  OBVIOUS
<1> HIDE DEF k, u
<1>3. k + Len(u) + 1 = Len(text) \/ text[k + Len(u) + 1] = Comma
  BY <1>1
<1>4. Cut(text, Len(text), k, head)
  BY <1>1, <1>2, <1>3, HeadCut, Zenon
<1> QED BY <1>4 DEF k

\* In place j of s is u.
Has(s, j, u) == j \in DOMAIN s /\ s[j] = u

\* Of the texts from the i-th on the head of that one is the first to be found.
LEMMA HeadComesFirst ==
  ASSUME NEW N \in Nat \ {0}, NEW text, NEW texts, Laid(text, texts, N),
         NEW i \in 1..N, NEW head, HeadOf(texts[i], head)
  PROVE  Has(SplitAt(text, texts, i).texts, 1, head)
<1> DEFINE k == Place(texts, i)
           all == SplitFrom(text, Len(text), k + 1).texts
<1>1. Cut(text, Len(text), k, head)
  BY PlacesCut, Zenon
<1> HIDE DEF k
<1>2. FirstMember(text, Len(text), k, head)
  BY <1>1, CutSplit, Zenon
<1>3. /\ text \in Seq(Tokens) /\ text # <<>> /\ k \in Nat \ {0} /\ Len(head) \in Nat
  BY <1>1 DEF Cut, Sealed
<1>4. CASE k + Len(head) + 1 = Len(text)
  <2>1. all = <<head>>
    BY <1>2, <1>4, Zenon DEF FirstMember
  <2>2. 1 \in DOMAIN <<head>> /\ <<head>>[1] = head
    OBVIOUS
  <2> QED BY <2>1, <2>2, Zenon DEF Has, SplitAt, k
<1>5. CASE k + Len(head) + 1 # Len(text)
  <2> DEFINE cur == k + Len(head) + 2
             rest == SplitFrom(text, Len(text), cur).texts
  <2>1. all = <<head>> \o rest
    BY <1>2, <1>5, Zenon DEF FirstMember
  <2>2. cur \in Nat /\ cur >= 2
    BY <1>3
  <2> HIDE DEF cur
  <2>3. rest \in Seq(Pieces(text))
    BY <1>3, <2>2, SplitGivesPieces
  <2> HIDE DEF rest
  <2>4. Appended(<<head>> \o rest, head, rest)
    BY <2>3, AppendsFirst
  <2> QED BY <2>1, <2>4, Zenon DEF Appended, Has, SplitAt, k
<1> QED BY <1>4, <1>5

\* From the i-th text on, that text is found whole, and then what is found from the next on.
FoundWhole(text, texts, N, i) ==
    /\ i = N => /\ SplitAt(text, texts, i).texts = <<texts[i]>>
                /\ SplitAt(text, texts, i).overran = FALSE
    /\ i # N => /\ SplitAt(text, texts, i).texts = <<texts[i]>> \o SplitAt(text, texts, i + 1).texts
                /\ SplitAt(text, texts, i).overran = SplitAt(text, texts, i + 1).overran
                /\ SplitAt(text, texts, i + 1).texts \in Seq(Pieces(text))

\* So it is with a text whose separators are all nested.
LEMMA WholeTextFound ==
  ASSUME NEW N \in Nat \ {0}, NEW text, NEW texts, Laid(text, texts, N),
         NEW i \in 1..N, HeadOf(texts[i], texts[i])
  PROVE  FoundWhole(text, texts, N, i)
<1> DEFINE k == Place(texts, i)
           u == texts[i]
           next == Place(texts, i + 1)
<1>1. Cut(text, Len(text), k, u)
  BY PlacesCut, Zenon
<1>2. /\ k \in Nat \ {0} /\ Len(u) \in Nat /\ text \in Seq(Tokens) /\ text # <<>>
      /\ i = N => k + Len(u) + 1 = Len(text)
      /\ i # N => k + Len(u) + 1 = next /\ next # Len(text)
  BY <1>1 DEF Laid, Cut, Sealed
<1> HIDE DEF k, u, next
<1>3. FirstMember(text, Len(text), k, u)
  BY <1>1, CutSplit, Zenon
<1>4. ASSUME i = N
      PROVE  /\ SplitFrom(text, Len(text), k + 1).texts = <<u>>
             /\ SplitFrom(text, Len(text), k + 1).overran = FALSE
  BY <1>2, <1>3, <1>4, Zenon DEF FirstMember
<1>5. ASSUME i # N
      PROVE  LET rest == SplitFrom(text, Len(text), next + 1)
             IN  /\ SplitFrom(text, Len(text), k + 1).texts = <<u>> \o rest.texts
                 /\ SplitFrom(text, Len(text), k + 1).overran = rest.overran
                 /\ rest.texts \in Seq(Pieces(text))
  <2>1. k + Len(u) + 1 # Len(text) /\ k + Len(u) + 2 = next + 1 /\ next + 1 \in Nat /\ next + 1 >= 2
    BY <1>2, <1>5
  <2>2. /\ SplitFrom(text, Len(text), k + 1).texts
             = <<u>> \o SplitFrom(text, Len(text), k + Len(u) + 2).texts
        /\ SplitFrom(text, Len(text), k + 1).overran
             = SplitFrom(text, Len(text), k + Len(u) + 2).overran
    BY <1>3, <2>1, Zenon DEF FirstMember
  <2>3. SplitFrom(text, Len(text), next + 1).texts \in Seq(Pieces(text))
    BY <1>2, <2>1, SplitGivesPieces
  <2> QED BY <2>1, <2>2, <2>3, Zenon
<1> QED BY <1>4, <1>5, Zenon DEF FoundWhole, SplitAt, k, u, next

\* If the texts before it are found whole, the head of the d-th text is found in its place.
LEMMA HeadFound ==
  ASSUME NEW N \in Nat \ {0}, NEW text, NEW texts, Laid(text, texts, N),
         NEW d \in 1..N, NEW head, HeadOf(texts[d], head),
         \A j \in 1..(d - 1) : HeadOf(texts[j], texts[j])
  PROVE  MemberAt(text, d, head)
<1> DEFINE R(i) == SplitAt(text, texts, i).texts
           S == {k \in Nat : k < d => Has(R(d - k), k + 1, head)}
<1>1. 0 \in S
  <2>1. Has(R(d), 1, head)
    BY HeadComesFirst, Zenon
  <2> HIDE DEF R
  <2>2. d - 0 = d /\ 0 + 1 = 1
    OBVIOUS
  <2>3. Has(R(d - 0), 0 + 1, head)
    BY <2>1, <2>2, Zenon
  <2> QED BY <2>3
<1>2. ASSUME NEW k \in S
      PROVE  k + 1 \in S
  <2> SUFFICES ASSUME k + 1 < d PROVE Has(R(d - (k + 1)), (k + 1) + 1, head)
    BY DEF S
  <2> DEFINE i == d - (k + 1)
  <2>1. i \in 1..N /\ i \in 1..(d - 1) /\ i # N /\ i + 1 = d - k /\ k + 1 \in Nat
    OBVIOUS
  <2>2. Has(R(i + 1), k + 1, head)
    <3> HIDE DEF R
    <3> QED BY <2>1
  <2> HIDE DEF S, i
  <2>3. R(i) = <<texts[i]>> \o R(i + 1) /\ R(i + 1) \in Seq(Pieces(text))
    <3>1. HeadOf(texts[i], texts[i])
      BY <2>1
    <3>2. FoundWhole(text, texts, N, i)
      BY <2>1, <3>1, WholeTextFound, Zenon
    <3> QED BY <2>1, <3>2, Zenon DEF FoundWhole
  <2> HIDE DEF R
  <2>4. Appended(R(i), texts[i], R(i + 1))
    <3>1. Appended(<<texts[i]>> \o R(i + 1), texts[i], R(i + 1))
      BY <2>3, AppendsFirst
    <3> QED BY <2>3, <3>1, Zenon
  <2>5. k + 1 \in 1..Len(R(i + 1)) /\ R(i + 1)[k + 1] = head
    BY <2>2, <2>3 DEF Has
  <2>6. Has(R(i), (k + 1) + 1, head)
    BY <2>4, <2>5, Zenon DEF Appended, Has
  <2> QED BY <2>6 DEF i
<1>3. S = Nat
  <2>1. S \in SUBSET Nat
    OBVIOUS
  <2> HIDE DEF S
  <2> QED BY <1>1, <1>2, <2>1, SetInduction
<1>4. Has(R(1), d, head)
  <2> HIDE DEF R
  <2>1. d - 1 \in S /\ d - 1 < d /\ d - (d - 1) = 1 /\ (d - 1) + 1 = d
    <3> HIDE DEF S
    <3> QED BY <1>3
  <2>2. Has(R(d - (d - 1)), (d - 1) + 1, head)
    BY <2>1
  <2> QED BY <2>1, <2>2, Zenon
<1>5. R(1) = Members(text, Len(text)).texts
  BY LaidFromTheStart, Zenon
<1> QED BY <1>4, <1>5, Zenon DEF Has, MemberAt

\* If the separators of all texts are nested, splitting gives back the texts.
LEMMA AllFound ==
  ASSUME NEW N \in Nat \ {0}, NEW text, NEW texts, Laid(text, texts, N),
         texts = [i \in 1..N |-> texts[i]],
         \A j \in 1..N : HeadOf(texts[j], texts[j])
  PROVE  MembersAre(text, texts)
<1> DEFINE R(i) == SplitAt(text, texts, i)
           Ends(k) == R(N - k).overran = FALSE /\ Len(R(N - k).texts) = k + 1
           S == {k \in Nat : k < N => Ends(k)}
<1>1. 0 \in S
  <2>1. N \in 1..N /\ N - 0 = N /\ HeadOf(texts[N], texts[N])
    OBVIOUS
  <2>2. R(N).texts = <<texts[N]>> /\ R(N).overran = FALSE
    <3>1. FoundWhole(text, texts, N, N)
      BY <2>1, WholeTextFound, Zenon
    <3> QED BY <3>1, Zenon DEF FoundWhole
  <2>3. Len(<<texts[N]>>) = 0 + 1
    OBVIOUS
  <2> HIDE DEF R
  <2>4. Ends(0)
    BY <2>1, <2>2, <2>3, Zenon
  <2> HIDE DEF Ends
  <2> QED BY <2>4
<1>2. ASSUME NEW k \in S
      PROVE  k + 1 \in S
  <2> HIDE DEF Ends
  <2> SUFFICES ASSUME k + 1 < N PROVE Ends(k + 1)
    BY DEF S
  <2> DEFINE i == N - (k + 1)
  <2>1. i \in 1..N /\ i # N /\ i + 1 = N - k /\ k < N /\ HeadOf(texts[i], texts[i])
    OBVIOUS
  <2>2. R(i + 1).overran = FALSE /\ Len(R(i + 1).texts) = k + 1
    <3>1. Ends(k)
      BY <2>1
    <3> HIDE DEF R, i, S
    <3> QED BY <2>1, <3>1, Zenon DEF Ends
  <2>3. k + 1 \in Nat
    OBVIOUS
  <2> HIDE DEF S, i
  <2>4. /\ R(i).texts = <<texts[i]>> \o R(i + 1).texts
        /\ R(i).overran = R(i + 1).overran
        /\ R(i + 1).texts \in Seq(Pieces(text))
    <3>1. FoundWhole(text, texts, N, i)
      BY <2>1, WholeTextFound, Zenon
    <3> QED BY <2>1, <3>1, Zenon DEF FoundWhole
  <2> HIDE DEF R
  <2>5. Appended(<<texts[i]>> \o R(i + 1).texts, texts[i], R(i + 1).texts)
    BY <2>4, AppendsFirst
  <2>6. Len(R(i).texts) = Len(R(i + 1).texts) + 1
    BY <2>4, <2>5, Zenon DEF Appended
  <2>7. R(i).overran = FALSE /\ Len(R(i).texts) = (k + 1) + 1
    BY <2>2, <2>4, <2>6, Zenon
  <2> QED BY <2>7, Zenon DEF Ends, i
<1>3. S = Nat
  <2>1. S \in SUBSET Nat
    OBVIOUS
  <2> HIDE DEF S
  <2> QED BY <1>1, <1>2, <2>1, SetInduction
<1>4. R(1).overran = FALSE /\ Len(R(1).texts) = N
  <2> HIDE DEF R, Ends
  <2>1. N - 1 \in S /\ N - 1 < N /\ N - (N - 1) = 1 /\ (N - 1) + 1 = N
    <3> HIDE DEF S
    <3> QED BY <1>3
  <2>2. Ends(N - 1)
    BY <2>1
  <2> QED BY <2>1, <2>2, Zenon DEF Ends
<1> DEFINE found == Members(text, Len(text)).texts
<1>5. Members(text, Len(text)).overran = FALSE /\ Len(found) = N
  BY <1>4, LaidFromTheStart, Zenon
<1>6. ASSUME NEW d \in 1..N
      PROVE  found[d] = texts[d]
  <2>1. HeadOf(texts[d], texts[d]) /\ \A j \in 1..(d - 1) : HeadOf(texts[j], texts[j])
    OBVIOUS
  <2>2. MemberAt(text, d, texts[d])
    BY <2>1, HeadFound
  <2> QED BY <2>2, Zenon DEF MemberAt
<1>7. found \in Seq(Pieces(text))
  <2>1. text \in Seq(Tokens) /\ text # <<>>
    <3>1. HeadOf(texts[1], texts[1]) /\ 1 \in 1..N
      OBVIOUS
    <3>2. Cut(text, Len(text), Place(texts, 1), texts[1])
      BY <3>1, PlacesCut, Zenon
    <3> QED BY <3>2 DEF Cut
  <2>2. Len(text) \in 1..Len(text)
    BY <2>1
  <2> QED BY <2>1, <2>2, MembersShape, Zenon
<1> HIDE DEF found
<1>8. found = [i \in 1..N |-> found[i]]
  BY <1>5, <1>7
<1>9. found = texts
  BY <1>6, <1>8
<1> QED BY <1>5, <1>9, Zenon DEF MembersAre, found

-----------------------------------------------------------------------------
(* The conversion of the server's texts.                                   *)

Failed == {Error, Overrun}

LEMMA LeafTypes ==
  /\ TypeToLogicalType[<<"int">>] = Integer
  /\ TypeToLogicalType[DecimalText] = Decimal
  /\ TypeToLogicalType[CutDecimal] = Error
<1>1. <<"int">> \in Seq(Tokens) /\ CutDecimal \in Seq(Tokens)
  BY LeavesBalanced DEF Sealed
<1>2. TypeToLogicalType[<<"int">>] = Integer
  BY <1>1, LeafConversion
<1>3. TypeToLogicalType[CutDecimal] = Error
  <2>1. CutDecimal # <<>> /\ CutDecimal[1] = "decimal(" /\ CutDecimal[2] = "9" /\ Len(CutDecimal) = 2
    BY DEF CutDecimal
  <2>2. \A i \in 1..Len(CutDecimal) : CutDecimal[i] # ")"
    <3>1. \A i \in 1..Len(CutDecimal) : i = 1 \/ i = 2
      BY <2>1
    <3> QED BY <2>1, <3>1
  <2>3. Find(CutDecimal, ")") = 0
    BY <1>1, <2>2, FirstIsAt
  <2> QED BY <1>1, <2>1, <2>3, LeafConversion
<1>4. TypeToLogicalType[DecimalText] = Decimal
  <2> DEFINE text == DecimalText
  <2>1. /\ text \in Seq(Tokens) /\ Len(text) = 5 /\ text[1] = "decimal(" /\ text[2] = "9"
        /\ text[3] = Comma /\ text[4] = "9" /\ text[5] = ")" /\ text # <<>>
    <3>1. /\ text \in Seq(Tokens) /\ Len(text) = 5 /\ text[1] = "decimal(" /\ text[2] = "9"
          /\ text[3] = Comma /\ text[4] = "9" /\ text[5] = ")"
      BY DecimalLayout
    <3> HIDE DEF text
    <3> QED BY <3>1
  <2> HIDE DEF text
  <2>2. Find(text, ")") = 5
    <3>1. \A i \in 1..(5 - 1) : i = 1 \/ i = 2 \/ i = 3 \/ i = 4
      OBVIOUS
    <3>2. text[1] # ")" /\ text[2] # ")" /\ text[3] # ")" /\ text[4] # ")"
      BY <2>1, TokensDiffer
    <3>3. \A i \in 1..(5 - 1) : text[i] # ")"
      BY <3>1, <3>2
    <3>4. 5 \in 1..Len(text)
      BY <2>1
    <3> QED BY <2>1, <3>3, <3>4, FirstIsAt
  <2>3. Find(text, Comma) = 3
    <3>1. \A i \in 1..(3 - 1) : i = 1 \/ i = 2
      OBVIOUS
    <3>2. text[1] # Comma /\ text[2] # Comma
      BY <2>1, TokensDiffer
    <3>3. \A i \in 1..(3 - 1) : text[i] # Comma
      BY <3>1, <3>2
    <3>4. 3 \in 1..Len(text)
      BY <2>1
    <3> QED BY <2>1, <3>3, <3>4, FirstIsAt
  <2>4. SubSeq(text, 2, 2) = <<"9">> /\ SubSeq(text, 4, 4) = <<"9">>
    <3> DEFINE nine == <<"9">>
    <3>1. nine \in Seq(Tokens) /\ Len(nine) = 1 /\ nine[1] = "9"
      <4>1. "9" \in Tokens
        BY Zenon DEF Tokens, Meaningful
      <4> QED BY <4>1
    <3> HIDE DEF nine
    <3>2. SubSeq(text, 1 + 1, 1 + Len(nine)) = nine
      <4> DEFINE k == 1
      <4>1. k \in Nat /\ k + Len(nine) <= Len(text) /\ \A i \in 1..Len(nine) : text[k + i] = nine[i]
        BY <2>1, <3>1
      <4> HIDE DEF k
      <4>2. SubSeq(text, k + 1, k + Len(nine)) = nine
        BY <2>1, <3>1, <4>1, SubSeqIs, Zenon
      <4> QED BY <4>2, Zenon DEF k
    <3>3. SubSeq(text, 3 + 1, 3 + Len(nine)) = nine
      <4> DEFINE k == 3
      <4>1. k \in Nat /\ k + Len(nine) <= Len(text) /\ \A i \in 1..Len(nine) : text[k + i] = nine[i]
        BY <2>1, <3>1
      <4> HIDE DEF k
      <4>2. SubSeq(text, k + 1, k + Len(nine)) = nine
        BY <2>1, <3>1, <4>1, SubSeqIs, Zenon
      <4> QED BY <4>2, Zenon DEF k
    <3> QED BY <3>1, <3>2, <3>3 DEF nine
  <2>5. DecimalOf(text) = Decimal
    <3>1. /\ SubSeq(text, 2, 3 - 1) = <<"9">>
          /\ SubSeq(text, 3 + 1, 5 - 1) = <<"9">>
      BY <2>4
    <3> QED BY <2>2, <2>3, <3>1, Zenon DEF DecimalOf
  <2>6. TypeToLogicalType[text] = IF Find(text, ")") # 0 THEN DecimalOf(text) ELSE Error
    BY <2>1, LeafConversion, Zenon
  <2>7. Find(text, ")") # 0
    BY <2>2
  <2> QED BY <2>5, <2>6, <2>7 DEF text
<1> QED BY <1>2, <1>3, <1>4

\* A field is taken apart into its name and the text of its type.
LEMMA FieldParsed ==
  ASSUME NEW i \in DOMAIN FieldNames, NEW body \in Seq(Tokens)
  PROVE  LET x == <<FieldNames[i], ":">> \o body
         IN  /\ Find(x, ":") = 2
             /\ FieldText(x) = body
             /\ SubSeq(x, 1, Find(x, ":") - 1)[1] = FieldNames[i]
<1> DEFINE x == <<FieldNames[i], ":">> \o body
<1>1. /\ x \in Seq(Tokens) /\ Len(x) = Len(body) + 2 /\ x[1] = FieldNames[i] /\ x[2] = ":"
      /\ At(x, 2, body) /\ Len(body) \in Nat
  BY FieldLayout
<1> HIDE DEF x
<1>2. FieldNames[i] # ":"
  <2>1. FieldNames[i] \notin Structural
    BY NamesOfFields
  <2> QED BY <2>1 DEF Structural
<1>3. Find(x, ":") = 2
  <2>1. 2 \in 1..Len(x) /\ \A j \in 1..(2 - 1) : x[j] # ":"
    BY <1>1, <1>2
  <2> QED BY <1>1, <2>1, FirstIsAt
<1>4. SubSeq(x, 2 + 1, Len(x)) = body
  <2> DEFINE k == 2
  <2>1. k \in Nat /\ k + Len(body) <= Len(x) /\ k + Len(body) = Len(x)
        /\ \A j \in 1..Len(body) : x[k + j] = body[j]
    BY <1>1 DEF At
  <2> HIDE DEF k
  <2>2. SubSeq(x, k + 1, k + Len(body)) = body
    BY <1>1, <2>1, SubSeqIs, Zenon
  <2> QED BY <2>1, <2>2, Zenon DEF k
<1>5. FieldText(x) = body
  BY <1>3, <1>4, Zenon DEF FieldText
<1>6. SubSeq(x, 1, 2 - 1)[1] = FieldNames[i]
  <2>1. SubSeq(x, 1, 1)[1] = x[1]
    BY <1>1
  <2> QED BY <1>1, <2>1
<1>7. SubSeq(x, 1, Find(x, ":") - 1)[1] = FieldNames[i]
  BY <1>3, <1>6, Zenon
<1> QED BY <1>3, <1>5, <1>7 DEF x

\* One member that fails is enough; without one all is well, unless a scan overran.
CombinedIsRight(n, types, overran, whole) ==
    /\ \A i \in 1..n : types[i] \in Failed => Combined(types, overran, whole) \in Failed
    /\ (\A i \in 1..n : types[i] \notin Failed) =>
         Combined(types, overran, whole) = IF overran THEN Overrun ELSE whole

LEMMA CombinedIs ==
  ASSUME NEW n \in Nat, NEW types, DOMAIN types = 1..n, NEW overran, NEW whole
  PROVE  CombinedIsRight(n, types, overran, whole)
<1> DEFINE F == Failures(types)
<1>1. F = {i \in 1..n : types[i] \in Failed}
  BY DEF Failures, Failed
<1>2. ASSUME NEW i \in 1..n, types[i] \in Failed
      PROVE  Combined(types, overran, whole) \in Failed
  <2>1. F \in SUBSET (1..n) /\ F # {}
    BY <1>1, <1>2
  <2>2. Min(F) \in F
    <3> HIDE DEF F
    <3> QED BY <2>1, FirstIn
  <2>3. types[Min(F)] \in Failed
    <3> DEFINE m == Min(F)
    <3> HIDE DEF m
    <3>1. m \in F
      BY <2>2 DEF m
    <3> QED BY <1>1, <3>1 DEF m
  <2>4. Combined(types, overran, whole) = types[Min(F)]
    <3> HIDE DEF F
    <3> QED BY <2>1, Zenon DEF Combined, F
  <2> QED BY <2>3, <2>4, Zenon
<1>3. ASSUME \A i \in 1..n : types[i] \notin Failed
      PROVE  Combined(types, overran, whole) = IF overran THEN Overrun ELSE whole
  <2>1. F = {}
    BY <1>1, <1>3
  <2> HIDE DEF F
  <2> QED BY <2>1, Zenon DEF Combined, F
<1> QED BY <1>2, <1>3, Zenon DEF CombinedIsRight

\* A text with an opener and its '>'.
Wrapped(text, opener) ==
    text \in Seq(Tokens) /\ text # <<>> /\ text[1] = opener /\ text[Len(text)] = ">"

LEMMA WrapIsWrapped ==
  ASSUME NEW opener \in Openers, NEW body \in Seq(Tokens)
  PROVE  Wrapped(Wrap(opener, body), opener)
<1> DEFINE text == Wrap(opener, body)
<1>1. /\ text \in Seq(Tokens) /\ text # <<>> /\ text[1] = opener /\ Len(text) = Len(body) + 2
      /\ text[Len(body) + 2] = ">"
  BY WrapLayout, Zenon
<1> HIDE DEF text
<1>2. text[Len(text)] = ">"
  BY <1>1, Zenon
<1> QED BY <1>1, <1>2, Zenon DEF Wrapped, text

LEMMA ListConverts ==
  ASSUME NEW body \in Seq(Tokens)
  PROVE  LET child == TypeToLogicalType[body]
             text == Wrap("array<", body)
         IN  /\ child \in Failed => TypeToLogicalType[text] \in Failed
             /\ child \notin Failed => TypeToLogicalType[text] = List(child)
<1> DEFINE text == Wrap("array<", body)
           child == TypeToLogicalType[body]
           one == <<child>>
<1>1. "array<" \in Openers
  BY Zenon DEF Openers
<1>2. Wrapped(text, "array<") /\ Len(text) = Len(body) + 2 /\ At(text, 1, body)
  BY <1>1, WrapIsWrapped, WrapLayout, Zenon
<1> HIDE DEF text
<1>3. SubSeq(text, 2, Len(text) - 1) = body
  <2> DEFINE k == 1
  <2>1. k \in Nat /\ k + Len(body) <= Len(text) /\ k + 1 = 2 /\ k + Len(body) = Len(text) - 1
        /\ \A j \in 1..Len(body) : text[k + j] = body[j]
    BY <1>2 DEF At
  <2> HIDE DEF k
  <2>2. SubSeq(text, k + 1, k + Len(body)) = body
    BY <1>2, <2>1, SubSeqIs, Zenon DEF Wrapped
  <2> QED BY <2>1, <2>2, Zenon
<1>4. TypeToLogicalType[text] =
        Combined(<<TypeToLogicalType[SubSeq(text, 2, Len(text) - 1)]>>, FALSE,
                 List(TypeToLogicalType[SubSeq(text, 2, Len(text) - 1)]))
  BY <1>2, NestedConversion, Zenon DEF Wrapped
<1>5. TypeToLogicalType[text] = Combined(one, FALSE, List(child))
  BY <1>3, <1>4, Zenon
<1>6. 1 \in Nat /\ DOMAIN one = 1..1 /\ one[1] = child /\ \A i \in 1..1 : i = 1
  OBVIOUS
<1> HIDE DEF one, child
<1>7. CombinedIsRight(1, one, FALSE, List(child))
  BY <1>6, CombinedIs, Zenon
<1>8. child \in Failed => TypeToLogicalType[text] \in Failed
  <2>1. 1 \in 1..1
    OBVIOUS
  <2> QED BY <1>5, <1>6, <1>7, <2>1, Zenon DEF CombinedIsRight
<1>9. child \notin Failed => TypeToLogicalType[text] = List(child)
  <2>1. ASSUME child \notin Failed
        PROVE  \A i \in 1..1 : one[i] \notin Failed
    BY <1>6, <2>1
  <2> QED BY <1>5, <1>7, <2>1, Zenon DEF CombinedIsRight
<1> QED BY <1>8, <1>9, Zenon DEF text, child

\* The type a member of a map or of a struct is converted to.
MemberType(opener, member) ==
    IF opener = "map<" THEN TypeToLogicalType[member]
    ELSE IF Find(member, ":") = 0 THEN Error ELSE TypeToLogicalType[FieldText(member)]

\* What members that convert to types make up.
WholeOf(opener, texts, types) ==
    IF opener = "map<" THEN IF Len(types) = 2 THEN MapOf(types) ELSE Error
    ELSE Struct(NamesOf(texts), types)

\* A member that fails makes the whole fail.
FailsWithMember(opener, text) ==
    \A i, u : MemberAt(text, i, u) /\ MemberType(opener, u) \in Failed
                => TypeToLogicalType[text] \in Failed

ConvertsWithMembers(opener, text) ==
    \A n \in Nat : \A texts, types :
        /\ MembersAre(text, texts) /\ DOMAIN texts = 1..n
        /\ types = [i \in 1..n |-> MemberType(opener, texts[i])]
        /\ \A i \in 1..n : types[i] \notin Failed
        => TypeToLogicalType[text] = WholeOf(opener, texts, types)

LEMMA MembersConvert ==
  ASSUME NEW opener \in {"map<", "struct<"}, NEW text, Wrapped(text, opener)
  PROVE  FailsWithMember(opener, text) /\ ConvertsWithMembers(opener, text)
<1> DEFINE members == Members(text, Len(text))
           found == members.texts
           types == [i \in DOMAIN found |-> MemberType(opener, found[i])]
           whole == WholeOf(opener, found, types)
<1>1. TypeToLogicalType[text] = Combined(types, members.overran, whole)
  <2>1. CASE opener = "map<"
    <3>1. TypesOf(TypeToLogicalType, found) = types
      BY <2>1, Zenon DEF TypesOf, MemberType
    <3>2. TypeToLogicalType[text] =
            Combined(TypesOf(TypeToLogicalType, found), members.overran,
                     IF Len(TypesOf(TypeToLogicalType, found)) = 2
                     THEN MapOf(TypesOf(TypeToLogicalType, found)) ELSE Error)
      BY <2>1, NestedConversion, Zenon DEF Wrapped
    <3> HIDE DEF types, members
    <3> QED BY <2>1, <3>1, <3>2, Zenon DEF WholeOf
  <2>2. CASE opener # "map<"
    <3>1. FieldsOf(TypeToLogicalType, found) = types
      BY <2>2, Zenon DEF FieldsOf, MemberType
    <3>2. TypeToLogicalType[text] =
            Combined(FieldsOf(TypeToLogicalType, found), members.overran,
                     Struct(NamesOf(found), FieldsOf(TypeToLogicalType, found)))
      BY <2>2, NestedConversion, Zenon DEF Wrapped
    <3> HIDE DEF types, members
    <3> QED BY <2>2, <3>1, <3>2, Zenon DEF WholeOf
  <2> QED BY <2>1, <2>2
<1>2. PICK n \in Nat : DOMAIN found = 1..n
  <2>1. text \in Seq(Tokens) /\ Len(text) \in 1..Len(text)
    BY DEF Wrapped
  <2>2. found \in Seq(Pieces(text))
    BY <2>1, MembersShape, Zenon
  <2> HIDE DEF members, found
  <2> QED BY <2>2
<1>3. DOMAIN types = 1..n /\ \A i \in 1..n : types[i] = MemberType(opener, found[i])
  BY <1>2, Zenon
<1>4. ASSUME NEW i, NEW u, MemberAt(text, i, u), MemberType(opener, u) \in Failed
      PROVE  TypeToLogicalType[text] \in Failed
  <2>1. i \in DOMAIN found /\ found[i] = u
    BY <1>4, Zenon DEF MemberAt
  <2>2. i \in 1..n /\ types[i] \in Failed
    <3>1. types[i] = MemberType(opener, found[i])
      BY <2>1, Zenon
    <3> QED BY <1>2, <1>4, <2>1, <3>1, Zenon
  <2> HIDE DEF types, members, whole
  <2>3. CombinedIsRight(n, types, members.overran, whole)
    BY <1>3, CombinedIs, Zenon
  <2> QED BY <1>1, <2>2, <2>3, Zenon DEF CombinedIsRight
<1>5. ASSUME NEW m \in Nat, NEW texts, NEW ts,
             MembersAre(text, texts), DOMAIN texts = 1..m,
             ts = [i \in 1..m |-> MemberType(opener, texts[i])],
             \A i \in 1..m : ts[i] \notin Failed
      PROVE  TypeToLogicalType[text] = WholeOf(opener, texts, ts)
  <2>1. found = texts /\ members.overran = FALSE
    BY <1>5, Zenon DEF MembersAre
  <2>2. types = ts
    BY <1>5, <2>1, Zenon
  <2>3. \A i \in 1..m : types[i] \notin Failed
    BY <1>5, <2>2, Zenon
  <2>4. DOMAIN types = 1..m
    BY <1>5, <2>2, Zenon
  <2>5. Combined(types, members.overran, whole) = IF members.overran THEN Overrun ELSE whole
    <3> HIDE DEF types, members, whole
    <3>1. CombinedIsRight(m, types, members.overran, whole)
      BY <2>4, CombinedIs, Zenon
    <3> QED BY <2>3, <3>1, Zenon DEF CombinedIsRight
  <2>6. TypeToLogicalType[text] = whole
    <3> HIDE DEF types, whole
    <3> QED BY <1>1, <2>1, <2>5, Zenon
  <2> QED BY <2>1, <2>2, <2>6, Zenon
<1>6. FailsWithMember(opener, text)
  BY <1>4, Zenon DEF FailsWithMember
<1>7. ConvertsWithMembers(opener, text)
  <2> HIDE DEF types, members, whole, found
  <2> QED BY <1>5, Zenon DEF ConvertsWithMembers
<1> QED BY <1>6, <1>7

\* How a member of type u of a map or a struct is written, and what a scan for
\* separators takes for the first piece of it.
MemberText(opener, i, u) == IF opener = "map<" THEN TypeText[u] ELSE Field(i, u)

TypeHead(u) == IF u = Decimal THEN CutDecimal ELSE TypeText[u]
MemberHead(opener, i, u) ==
    IF opener = "map<" THEN TypeHead(u) ELSE <<FieldNames[i], ":">> \o TypeHead(u)

LEMMA MemberFacts ==
  ASSUME NEW opener \in {"map<", "struct<"}, NEW u \in ColumnTypes,
         NEW i, opener = "struct<" => i \in DOMAIN FieldNames
  PROVE  /\ MemberText(opener, i, u) \in Seq(Tokens)
         /\ HeadOf(MemberText(opener, i, u), MemberHead(opener, i, u))
         /\ u # Decimal => MemberHead(opener, i, u) = MemberText(opener, i, u)
         /\ MemberType(opener, MemberText(opener, i, u)) = TypeToLogicalType[TypeText[u]]
         /\ u = Decimal => MemberType(opener, MemberHead(opener, i, u)) = Error
<1>1. TypeText[u] \in Seq(Tokens) /\ TextOK(u)
  BY TextsOK, Zenon DEF TextOK, Balanced
<1>2. HeadOf(TypeText[u], TypeHead(u))
  <2>1. CASE u = Decimal
    <3>1. TypeText[u] = DecimalText
      BY <2>1, TextForms
    <3> QED BY <2>1, <3>1, DecimalHead, Zenon DEF TypeHead
  <2>2. CASE u # Decimal
    BY <1>1, <2>2, WholeHead, Zenon DEF TypeHead, TextOK
  <2> QED BY <2>1, <2>2
<1>3. HeadOf(MemberText(opener, i, u), MemberHead(opener, i, u))
  <2>1. CASE opener = "map<"
    BY <1>2, <2>1, Zenon DEF MemberText, MemberHead
  <2>2. CASE opener # "map<"
    <3>1. i \in DOMAIN FieldNames
      BY <2>2
    <3> QED BY <1>2, <2>2, <3>1, FieldHead, Zenon DEF MemberText, MemberHead, Field
  <2> QED BY <2>1, <2>2
<1>4. MemberText(opener, i, u) \in Seq(Tokens)
  BY <1>3, Zenon DEF HeadOf
<1>5. u # Decimal => MemberHead(opener, i, u) = MemberText(opener, i, u)
  BY Zenon DEF MemberText, MemberHead, TypeHead, Field
<1>6. ASSUME NEW body \in Seq(Tokens), i \in DOMAIN FieldNames
      PROVE  MemberType("struct<", <<FieldNames[i], ":">> \o body) = TypeToLogicalType[body]
  <2> DEFINE x == <<FieldNames[i], ":">> \o body
  <2>1. Find(x, ":") = 2 /\ FieldText(x) = body
    BY <1>6, FieldParsed, Zenon
  <2> HIDE DEF x
  <2>2. Find(x, ":") # 0 /\ "struct<" # "map<"
    BY <2>1
  <2> QED BY <2>1, <2>2, Zenon DEF MemberType, x
<1>7. opener = "map<" \/ opener = "struct<"
  OBVIOUS
<1>8. MemberType(opener, MemberText(opener, i, u)) = TypeToLogicalType[TypeText[u]]
  <2>1. CASE opener = "map<"
    BY <2>1, Zenon DEF MemberType, MemberText
  <2>2. CASE opener = "struct<"
    <3>1. MemberText(opener, i, u) = <<FieldNames[i], ":">> \o TypeText[u]
      <4>1. opener # "map<"
        BY <2>2
      <4> QED BY <4>1, Zenon DEF MemberText, Field
    <3> QED BY <1>1, <1>6, <2>2, <3>1, Zenon
  <2> QED BY <1>7, <2>1, <2>2
<1>9. ASSUME u = Decimal
      PROVE  MemberType(opener, MemberHead(opener, i, u)) = Error
  <2>1. TypeHead(u) = CutDecimal /\ CutDecimal \in Seq(Tokens)
    BY <1>9, LeavesBalanced, Zenon DEF TypeHead, Sealed
  <2>2. CASE opener = "map<"
    BY <2>1, <2>2, LeafTypes, Zenon DEF MemberType, MemberHead
  <2>3. CASE opener = "struct<"
    <3>1. MemberHead(opener, i, u) = <<FieldNames[i], ":">> \o CutDecimal
      <4>1. opener # "map<"
        BY <2>3
      <4> QED BY <2>1, <4>1, Zenon DEF MemberHead
    <3> QED BY <1>6, <2>1, <2>3, <3>1, LeafTypes, Zenon
  <2> QED BY <1>7, <2>2, <2>3
<1> QED BY <1>3, <1>4, <1>5, <1>8, <1>9

\* A map, or a struct with fields, of members of the types m[1], ..., m[n].
TextsOf(opener, n, m) == [i \in 1..n |-> MemberText(opener, i, m[i])]
GroupText(opener, n, m) == Wrap(opener, WithCommas(TextsOf(opener, n, m)))
TypesFrom(n, m) == [i \in 1..n |-> TypeToLogicalType[TypeText[m[i]]]]
GroupOf(opener, n, types) ==
    IF opener = "map<" THEN Map(types[1], types[2]) ELSE Struct(NamesFor(n), types)

Group(opener, n, m) ==
    /\ opener \in {"map<", "struct<"}
    /\ n \in Nat \ {0}
    /\ opener = "map<" => n = 2
    /\ opener = "struct<" => n <= Len(FieldNames)
    /\ m \in [1..n -> ColumnTypes]

MemberIs(opener, n, m, i) ==
    /\ TextsOf(opener, n, m)[i] \in Seq(Tokens)
    /\ HeadOf(TextsOf(opener, n, m)[i], MemberHead(opener, i, m[i]))
    /\ m[i] # Decimal => MemberHead(opener, i, m[i]) = TextsOf(opener, n, m)[i]
    /\ MemberType(opener, TextsOf(opener, n, m)[i]) = TypesFrom(n, m)[i]
    /\ m[i] = Decimal => MemberType(opener, MemberHead(opener, i, m[i])) = Error

LEMMA GroupMember ==
  ASSUME NEW opener, NEW n, NEW m, Group(opener, n, m), NEW i \in 1..n
  PROVE  MemberIs(opener, n, m, i)
<1> DEFINE u == m[i]
<1>1. opener \in {"map<", "struct<"} /\ u \in ColumnTypes
  BY DEF Group
<1>2. opener = "struct<" => i \in DOMAIN FieldNames
  BY NamesOfFields DEF Group
<1>3. /\ TextsOf(opener, n, m)[i] = MemberText(opener, i, u)
      /\ TypesFrom(n, m)[i] = TypeToLogicalType[TypeText[u]]
  BY DEF TextsOf, TypesFrom
<1> HIDE DEF u
<1>4. /\ MemberText(opener, i, u) \in Seq(Tokens)
      /\ HeadOf(MemberText(opener, i, u), MemberHead(opener, i, u))
      /\ u # Decimal => MemberHead(opener, i, u) = MemberText(opener, i, u)
      /\ MemberType(opener, MemberText(opener, i, u)) = TypeToLogicalType[TypeText[u]]
      /\ u = Decimal => MemberType(opener, MemberHead(opener, i, u)) = Error
  BY <1>1, <1>2, MemberFacts, Zenon
<1> QED BY <1>3, <1>4, Zenon DEF u, MemberIs

LEMMA GroupLaid ==
  ASSUME NEW opener, NEW n, NEW m, Group(opener, n, m)
  PROVE  /\ Laid(GroupText(opener, n, m), TextsOf(opener, n, m), n)
         /\ Wrapped(GroupText(opener, n, m), opener)
<1> DEFINE texts == TextsOf(opener, n, m)
           body == WithCommas(texts)
<1>1. n \in Nat \ {0} /\ opener \in Openers /\ Len(texts) = n
  BY DEF Group, Openers, TextsOf
<1>2. \A i \in 1..n : texts[i] \in Seq(Tokens)
  BY GroupMember, Zenon DEF MemberIs
<1>3. \A i \in 1..n : Balanced(texts[i])
  <2> SUFFICES ASSUME NEW i \in 1..n PROVE Balanced(texts[i])
    OBVIOUS
  <2>1. m[i] \in ColumnTypes /\ texts[i] = MemberText(opener, i, m[i])
    BY DEF Group, TextsOf
  <2>2. TextOK(m[i])
    BY <2>1, TextsOK
  <2>3. CASE opener = "map<"
    BY <2>1, <2>2, <2>3, Zenon DEF MemberText, TextOK
  <2>4. CASE opener # "map<"
    <3>1. i \in DOMAIN FieldNames
      BY <2>4, NamesOfFields DEF Group
    <3>2. Balanced(Field(i, m[i]))
      BY <2>2, <3>1, FieldBalanced
    <3> QED BY <2>1, <2>4, <3>2, Zenon DEF MemberText
  <2> QED BY <2>3, <2>4
<1> HIDE DEF texts
<1>4. Laid(Wrap(opener, body), texts, n)
  BY <1>1, <1>2, WrappedLaid
<1>5. body \in Seq(Tokens)
  <2>1. Balanced(body)
    BY <1>1, <1>3, JoinBalanced
  <2> QED BY <2>1, Zenon DEF Balanced
<1> HIDE DEF body
<1>6. Wrapped(Wrap(opener, body), opener)
  BY <1>1, <1>5, WrapIsWrapped, Zenon
<1> QED BY <1>4, <1>6, Zenon DEF GroupText, body, texts

\* A decimal among the members, or a member that fails, makes the whole fail.
LEMMA GroupFails ==
  ASSUME NEW opener, NEW n, NEW m, Group(opener, n, m),
         NEW i \in 1..n, m[i] = Decimal \/ TypesFrom(n, m)[i] \in Failed
  PROVE  TypeToLogicalType[GroupText(opener, n, m)] \in Failed
<1> DEFINE text == GroupText(opener, n, m)
           texts == TextsOf(opener, n, m)
           head(j) == MemberHead(opener, j, m[j])
<1>1. n \in Nat \ {0} /\ opener \in {"map<", "struct<"}
  BY DEF Group
<1>2. Laid(text, texts, n) /\ Wrapped(text, opener)
  BY GroupLaid, Zenon
<1>3. \A j, u : MemberAt(text, j, u) /\ MemberType(opener, u) \in Failed
                  => TypeToLogicalType[text] \in Failed
  <2>1. FailsWithMember(opener, text)
    BY <1>1, <1>2, MembersConvert, Zenon
  <2> QED BY <2>1, Zenon DEF FailsWithMember
<1>4. ASSUME NEW j \in 1..n
      PROVE  /\ HeadOf(texts[j], head(j))
             /\ m[j] # Decimal => HeadOf(texts[j], texts[j])
             /\ MemberType(opener, texts[j]) = TypesFrom(n, m)[j]
             /\ m[j] = Decimal => MemberType(opener, head(j)) = Error
  <2>1. /\ HeadOf(texts[j], head(j))
        /\ m[j] # Decimal => head(j) = texts[j]
        /\ MemberType(opener, texts[j]) = TypesFrom(n, m)[j]
        /\ m[j] = Decimal => MemberType(opener, head(j)) = Error
    <3>1. MemberIs(opener, n, m, j)
      BY GroupMember, Zenon
    <3> QED BY <3>1, Zenon DEF MemberIs
  <2> HIDE DEF texts, head
  <2> QED BY <2>1, Zenon
<1> HIDE DEF text, texts, head
<1>5. CASE \E j \in 1..n : m[j] = Decimal
  <2> DEFINE D == {j \in 1..n : m[j] = Decimal}
  <2>1. \E d \in D : \A j \in D : d <= j
    <3>1. D \in SUBSET (1..n) /\ D # {} /\ n \in Nat
      BY <1>1, <1>5
    <3> HIDE DEF D
    <3> QED BY <3>1, Least
  <2>2. PICK d \in D : \A j \in D : d <= j
    BY <2>1
  <2>3. d \in 1..n /\ m[d] = Decimal
    OBVIOUS
  <2>4. ASSUME NEW j \in 1..(d - 1)
        PROVE  HeadOf(texts[j], texts[j])
    <3>1. j \in 1..n /\ ~(d <= j)
      BY <1>1, <2>3
    <3>2. m[j] # Decimal
      BY <2>2, <3>1
    <3> QED BY <1>4, <3>1, <3>2, Zenon
  <2> HIDE DEF D
  <2>5. HeadOf(texts[d], head(d)) /\ MemberType(opener, head(d)) = Error
    BY <1>4, <2>3, Zenon
  <2> DEFINE h == head(d)
  <2> HIDE DEF h
  <2>6. HeadOf(texts[d], h) /\ MemberType(opener, h) = Error
    BY <2>5, Zenon DEF h
  <2>7. MemberAt(text, d, h)
    BY <1>1, <1>2, <2>3, <2>4, <2>6, HeadFound
  <2>8. MemberType(opener, h) \in Failed
    BY <2>6, Zenon DEF Failed
  <2> QED BY <1>3, <2>7, <2>8, Zenon DEF text
<1>6. CASE ~ \E j \in 1..n : m[j] = Decimal
  <2>1. \A j \in 1..n : HeadOf(texts[j], texts[j])
    BY <1>4, <1>6, Zenon
  <2>2. HeadOf(texts[i], texts[i]) /\ \A j \in 1..(i - 1) : HeadOf(texts[j], texts[j])
    BY <1>1, <2>1
  <2>3. MemberAt(text, i, texts[i])
    BY <1>1, <1>2, <2>2, HeadFound
  <2>4. MemberType(opener, texts[i]) \in Failed
    BY <1>4, <1>6, Zenon
  <2> QED BY <1>3, <2>3, <2>4, Zenon DEF text
<1> QED BY <1>5, <1>6

\* Without one, the whole is converted to what the members make up.
LEMMA GroupConverts ==
  ASSUME NEW opener, NEW n, NEW m, Group(opener, n, m),
         \A i \in 1..n : m[i] # Decimal /\ TypesFrom(n, m)[i] \notin Failed
  PROVE  TypeToLogicalType[GroupText(opener, n, m)] = GroupOf(opener, n, TypesFrom(n, m))
<1> DEFINE text == GroupText(opener, n, m)
           texts == TextsOf(opener, n, m)
           types == TypesFrom(n, m)
<1>1. n \in Nat \ {0} /\ n \in Nat /\ opener \in {"map<", "struct<"} /\ (opener = "map<" => n = 2)
  BY DEF Group
<1>2. Laid(text, texts, n) /\ Wrapped(text, opener)
  BY GroupLaid, Zenon
<1>3. \A i \in 1..n : HeadOf(texts[i], texts[i]) /\ MemberType(opener, texts[i]) = types[i]
  <2> SUFFICES ASSUME NEW i \in 1..n
               PROVE  HeadOf(texts[i], texts[i]) /\ MemberType(opener, texts[i]) = types[i]
    OBVIOUS
  <2>1. m[i] # Decimal
    OBVIOUS
  <2>2. /\ HeadOf(texts[i], MemberHead(opener, i, m[i]))
        /\ MemberHead(opener, i, m[i]) = texts[i]
        /\ MemberType(opener, texts[i]) = types[i]
    <3>1. MemberIs(opener, n, m, i)
      BY GroupMember, Zenon
    <3> QED BY <2>1, <3>1, Zenon DEF MemberIs
  <2> HIDE DEF texts, types
  <2> QED BY <2>2, Zenon
<1>4. texts = [i \in 1..n |-> texts[i]] /\ DOMAIN texts = 1..n
  BY Zenon DEF TextsOf
<1>5. types = [i \in 1..n |-> MemberType(opener, texts[i])]
  <2>1. types = [i \in 1..n |-> types[i]]
    BY Zenon DEF TypesFrom
  <2> HIDE DEF types, texts
  <2> QED BY <1>3, <2>1
<1>6. \A i \in 1..n : types[i] \notin Failed
  OBVIOUS
<1>7. opener # "map<" => NamesOf(texts) = NamesFor(n)
  <2> SUFFICES ASSUME opener # "map<" PROVE NamesOf(texts) = NamesFor(n)
    OBVIOUS
  <2> DEFINE name(x) == SubSeq(x, 1, Find(x, ":") - 1)[1]
  <2>1. ASSUME NEW i \in 1..n
        PROVE  name(texts[i]) = FieldNames[i]
    <3>1. m[i] \in ColumnTypes /\ i \in DOMAIN FieldNames
      BY NamesOfFields DEF Group
    <3>2. TypeText[m[i]] \in Seq(Tokens)
      BY <3>1, TextsOK, Zenon DEF TextOK, Balanced
    <3>3. texts[i] = <<FieldNames[i], ":">> \o TypeText[m[i]]
      BY Zenon DEF TextsOf, MemberText, Field
    <3> HIDE DEF texts
    <3> QED BY <3>1, <3>2, <3>3, FieldParsed, Zenon
  <2>2. NamesOf(texts) = [i \in 1..n |-> name(texts[i])]
    BY <1>4, Zenon DEF NamesOf
  <2> HIDE DEF name, texts
  <2>3. [i \in 1..n |-> name(texts[i])] = [i \in 1..n |-> FieldNames[i]]
    BY <2>1
  <2> QED BY <2>2, <2>3, Zenon DEF NamesFor
<1>8. Len(types) = n
  BY <1>1 DEF TypesFrom
<1> HIDE DEF text, texts, types
<1>9. MembersAre(text, texts)
  BY <1>1, <1>2, <1>3, <1>4, AllFound
<1>10. TypeToLogicalType[text] = WholeOf(opener, texts, types)
  <2>1. ConvertsWithMembers(opener, text)
    BY <1>1, <1>2, MembersConvert, Zenon
  <2>2. /\ n \in Nat /\ MembersAre(text, texts) /\ DOMAIN texts = 1..n
        /\ types = [i \in 1..n |-> MemberType(opener, texts[i])]
        /\ \A i \in 1..n : types[i] \notin Failed
    BY <1>1, <1>4, <1>5, <1>6, <1>9, Zenon
  <2> QED BY <2>1, <2>2, Zenon DEF ConvertsWithMembers
<1>11. WholeOf(opener, texts, types) = GroupOf(opener, n, types)
  <2>1. CASE opener = "map<"
    <3>1. Len(types) = 2
      BY <1>1, <1>8, <2>1
    <3> QED BY <2>1, <3>1, Zenon DEF WholeOf, GroupOf, MapOf
  <2>2. CASE opener # "map<"
    BY <1>7, <2>2, Zenon DEF WholeOf, GroupOf
  <2> QED BY <2>1, <2>2
<1> QED BY <1>10, <1>11, Zenon DEF text, types

\* The scan overruns the text of a struct without fields.
LEMMA EmptyStructFails == TypeToLogicalType[Wrap("struct<", <<>>)] \in Failed
<1> DEFINE empty == <<>>
           text == Wrap("struct<", empty)
           p == <<2, 0>>
<1>1. "struct<" \in Openers /\ empty \in Seq(Tokens) /\ Len(empty) = 0
  BY DEF Openers
<1> HIDE DEF empty
<1>2. /\ Wrapped(text, "struct<") /\ Len(text) = Len(empty) + 2 /\ text[Len(empty) + 2] = ">"
      /\ text \in Seq(Tokens)
  BY <1>1, WrapIsWrapped, WrapLayout, Zenon
<1> HIDE DEF text
<1>3. Len(text) = 2 /\ text[2] = ">" /\ text[2] # Comma /\ 2 \in 1..Len(text)
  BY <1>1, <1>2, TokensDiffer
<1>4. NextSep(text, 2, 3, -1).at = 0
  BY <1>3, NextSepUnfold
<1>5. NextSep(text, 2, 2, 0) = NextSep(text, 2, 3, -1)
  <2>1. NextSep(text, 2, 2, 0) = NextSep(text, 2, 2 + 1, 0 + Nesting(text[2]))
    <3> DEFINE cur == 2
               opens == 0
    <3>1. /\ Len(text) \in Nat /\ cur \in Nat /\ opens \in Int
          /\ ~(cur > Len(text)) /\ text[cur] # Comma /\ cur + 1 # 2
      BY <1>3
    <3> HIDE DEF cur, opens
    <3>2. NextSep(text, 2, cur, opens) = NextSep(text, 2, cur + 1, opens + Nesting(text[cur]))
      BY <3>1, NextSepUnfold
    <3> QED BY <3>2, Zenon DEF cur, opens
  <2>2. 2 + 1 = 3 /\ 0 + Nesting(text[2]) = -1
    BY <1>3, NestingOf
  <2> QED BY <2>1, <2>2
<1>6. Split(text, 2)[p] = [texts |-> <<>>, overran |-> TRUE]
  <2>1. p \in Places /\ p[1] = 2 /\ p[2] = 0
    BY DEF Places
  <2>2. Split(text, 2)[p] = SplitStep(text, 2, Split(text, 2), p)
    <3> HIDE DEF p
    <3> QED BY <1>2, <1>3, <2>1, SplitUnfold
  <2>3. NextSep(text, 2, p[1], p[2]).at = 0
    <3> HIDE DEF p
    <3> QED BY <1>4, <1>5, <2>1, Zenon
  <2> HIDE DEF p
  <2> QED BY <2>2, <2>3, Zenon DEF SplitStep
<1>7. Members(text, Len(text)) = [texts |-> <<>>, overran |-> TRUE]
  BY <1>3, <1>6, MembersIsSplit, Zenon
<1>8. Members(text, Len(text)).texts = <<>> /\ Members(text, Len(text)).overran = TRUE
  <2> DEFINE ms == Members(text, Len(text))
  <2> HIDE DEF ms
  <2>1. ms = [texts |-> <<>>, overran |-> TRUE]
    BY <1>7 DEF ms
  <2>2. ms.texts = <<>> /\ ms.overran = TRUE
    BY <2>1
  <2> QED BY <2>2 DEF ms
<1> DEFINE members == Members(text, Len(text))
           fields == FieldsOf(TypeToLogicalType, members.texts)
           whole == Struct(NamesOf(members.texts), fields)
<1>9. TypeToLogicalType[text] = Combined(fields, members.overran, whole)
  BY <1>2, NestedConversion, Zenon DEF Wrapped
<1>10. DOMAIN fields = 1..0 /\ 0 \in Nat
  <2>1. DOMAIN fields = DOMAIN members.texts
    BY Zenon DEF FieldsOf
  <2>2. DOMAIN members.texts = DOMAIN <<>>
    BY <1>8, Zenon
  <2>3. DOMAIN <<>> = 1..0
    OBVIOUS
  <2> QED BY <2>1, <2>2, <2>3, Zenon
<1> HIDE DEF fields, whole, members
<1>11. CombinedIsRight(0, fields, members.overran, whole)
  BY <1>10, CombinedIs, Zenon
<1>12. \A i \in 1..0 : fields[i] \notin Failed
  OBVIOUS
<1>13. Combined(fields, members.overran, whole) = Overrun
  BY <1>8, <1>11, <1>12, Zenon DEF CombinedIsRight, members
<1>14. TypeToLogicalType[text] \in Failed
  BY <1>9, <1>13, Zenon DEF Failed
<1> QED BY <1>14, Zenon DEF text, empty

-----------------------------------------------------------------------------
(* From a type to its text and back.                                       *)

\* No decimal is a direct member of a map or a struct in t, and no struct is empty.
Plain(t) == \A w \in Within[t] : ~HoldsDecimal(w) /\ ~Empty(w)

\* The text of t is converted to t or to no type; to t if nothing stands in the way.
ConvertsBack(t) ==
    /\ TypeToLogicalType[TypeText[t]] \in {t} \cup Failed
    /\ Plain(t) => TypeToLogicalType[TypeText[t]] = t

LEMMA PlainMembers ==
  ASSUME NEW t \in ColumnTypes, Plain(t)
  PROVE  /\ ~HoldsDecimal(t) /\ ~Empty(t)
         /\ \A i \in DOMAIN t.of : Plain(t.of[i])
<1>1. Within[t] = {t} \cup UNION {Within[u] : u \in ToSet(t.of)}
  BY TextsUnfold DEF WithinStep
<1>2. t \in Within[t]
  BY <1>1
<1>3. ASSUME NEW i \in DOMAIN t.of
      PROVE  Plain(t.of[i])
  <2>1. t.of[i] \in ToSet(t.of)
    BY DEF ToSet
  <2>2. Within[t.of[i]] \subseteq Within[t]
    BY <1>1, <2>1
  <2> QED BY <2>2 DEF Plain
<1> QED BY <1>2, <1>3 DEF Plain

LEMMA NoTypeFailed ==
  /\ Integer \notin Failed /\ Decimal \notin Failed
  /\ \A u : List(u) \notin Failed
  /\ \A u, v : Map(u, v) \notin Failed
  /\ \A names, of : Struct(names, of) \notin Failed
BY DEF Failed, Error, Overrun, Integer, Decimal, List, Map, Struct, Type

LEMMA TypesNotFailed ==
  ASSUME NEW t \in ColumnTypes
  PROVE  t \notin Failed
<1>1. Formed(t, ColumnTypes)
  BY ColumnTypesFormed
<1> QED BY <1>1, NoTypeFailed DEF Formed

LEMMA ListConvertsBack ==
  ASSUME NEW u \in ColumnTypes, ConvertsBack(u), List(u) \in ColumnTypes
  PROVE  ConvertsBack(List(u))
<1> DEFINE t == List(u)
           back == TypeToLogicalType[TypeText[t]]
           child == TypeToLogicalType[TypeText[u]]
<1>1. TypeText[t] = Wrap("array<", TypeText[u])
  BY TextForms, Zenon DEF Wrap
<1>2. TypeText[u] \in Seq(Tokens)
  BY TextsOK, Zenon DEF TextOK, Balanced
<1>3. /\ child \in Failed => back \in Failed
      /\ child \notin Failed => back = List(child)
  BY <1>1, <1>2, ListConverts, Zenon
<1>4. child \in {u} \cup Failed /\ (Plain(u) => child = u) /\ u \notin Failed
  BY TypesNotFailed, Zenon DEF ConvertsBack
<1>5. ASSUME Plain(t)
      PROVE  Plain(u)
  <2>1. t.of = <<u>>
    BY Kinds
  <2>2. 1 \in DOMAIN t.of /\ t.of[1] = u
    BY <2>1
  <2> QED BY <1>5, <2>2, PlainMembers, Zenon
<1> HIDE DEF back, child
<1>6. back \in {t} \cup Failed
  BY <1>3, <1>4
<1>7. Plain(t) => back = t
  BY <1>3, <1>4, <1>5, Zenon
<1> QED BY <1>6, <1>7, Zenon DEF ConvertsBack, back

\* A map, or a struct with fields, whose members are converted back.
LEMMA GroupConvertsBack ==
  ASSUME NEW opener, NEW n, NEW m, Group(opener, n, m), NEW t \in ColumnTypes,
         t = GroupOf(opener, n, m), t.kind \in {"map", "struct"},
         t.of = m, TypeText[t] = GroupText(opener, n, m),
         \A i \in 1..n : ConvertsBack(m[i])
  PROVE  ConvertsBack(t)
<1> DEFINE back == TypeToLogicalType[TypeText[t]]
           types == TypesFrom(n, m)
           Fails(i) == m[i] = Decimal \/ types[i] \in Failed
<1>1. ASSUME NEW i \in 1..n
      PROVE  types[i] \in {m[i]} \cup Failed /\ (Plain(m[i]) => types[i] = m[i]) /\ m[i] \notin Failed
  <2>1. m[i] \in ColumnTypes /\ ConvertsBack(m[i])
    BY DEF Group
  <2>2. types[i] = TypeToLogicalType[TypeText[m[i]]]
    BY DEF TypesFrom
  <2> HIDE DEF types
  <2> QED BY <2>1, <2>2, TypesNotFailed, Zenon DEF ConvertsBack
<1>2. types = [i \in 1..n |-> types[i]] /\ m = [i \in 1..n |-> m[i]] /\ DOMAIN m = 1..n
  BY DEF TypesFrom, Group
<1>3. ASSUME Plain(t), NEW i \in 1..n
      PROVE  Plain(m[i]) /\ m[i] # Decimal
  <2>1. ~HoldsDecimal(t) /\ Plain(m[i])
    BY <1>2, <1>3, PlainMembers, Zenon
  <2>2. m[i] \in ToSet(t.of)
    BY <1>2, Zenon DEF ToSet
  <2> QED BY <2>1, <2>2 DEF HoldsDecimal
<1>4. (\E i \in 1..n : Fails(i)) => back \in Failed
  BY GroupFails, Zenon
<1>5. (\A i \in 1..n : ~Fails(i)) => back = GroupOf(opener, n, types)
  <2> SUFFICES ASSUME \A i \in 1..n : ~Fails(i) PROVE back = GroupOf(opener, n, types)
    OBVIOUS
  <2>1. \A i \in 1..n : m[i] # Decimal /\ TypesFrom(n, m)[i] \notin Failed
    OBVIOUS
  <2>2. TypeToLogicalType[GroupText(opener, n, m)] = GroupOf(opener, n, TypesFrom(n, m))
    BY <2>1, GroupConverts
  <2> QED BY <2>2, Zenon
<1> HIDE DEF back, types
<1>6. (\A i \in 1..n : ~Fails(i)) => back = t
  <2> SUFFICES ASSUME \A i \in 1..n : ~Fails(i) PROVE back = t
    OBVIOUS
  <2>1. \A i \in 1..n : types[i] = m[i]
    BY <1>1
  <2>2. types = m
    BY <1>2, <2>1
  <2> QED BY <1>5, <2>2, Zenon
<1>7. back \in {t} \cup Failed
  BY <1>4, <1>6
<1>8. Plain(t) => back = t
  <2> SUFFICES ASSUME Plain(t) PROVE back = t
    OBVIOUS
  <2>1. ASSUME NEW i \in 1..n
        PROVE  ~Fails(i)
    <3>1. Plain(m[i]) /\ m[i] # Decimal
      BY <1>3, Zenon
    <3>2. types[i] = m[i] /\ m[i] \notin Failed
      BY <1>1, <3>1, Zenon
    <3> QED BY <3>1, <3>2, Zenon
  <2> QED BY <1>6, <2>1
<1> QED BY <1>7, <1>8, Zenon DEF ConvertsBack, back

LEMMA MapConvertsBack ==
  ASSUME NEW u \in ColumnTypes, NEW v \in ColumnTypes, ConvertsBack(u), ConvertsBack(v),
         NEW t \in ColumnTypes, t = Map(u, v)
  PROVE  ConvertsBack(t)
<1> DEFINE m == <<u, v>>
           n == 2
           opener == "map<"
<1>1. t.kind = "map" /\ t.of = m
  BY Kinds
<1>2. m \in [1..n -> ColumnTypes] /\ m[1] = u /\ m[2] = v /\ \A i \in 1..n : i = 1 \/ i = 2
  OBVIOUS
<1>3. Group(opener, n, m)
  BY <1>2 DEF Group
<1>4. TextsOf(opener, n, m) = <<TypeText[u], TypeText[v]>>
  <2> DEFINE texts == [i \in 1..2 |-> TypeText[m[i]]]
  <2>1. TextsOf(opener, n, m) = texts
    BY Zenon DEF TextsOf, MemberText
  <2>2. texts = <<TypeText[u], TypeText[v]>>
    OBVIOUS
  <2> QED BY <2>1, <2>2, Zenon
<1>5. TypeText[t] = GroupText(opener, n, m)
  <2>1. TypeText[t] = <<"map<">> \o Both(TypeText[u], TypeText[v]) \o <<">">>
    <3>1. \A a, b : t = Map(a, b) =>
            TypeText[t] = <<"map<">> \o Both(TypeText[a], TypeText[b]) \o <<">">>
      BY TextForms, Zenon
    <3> QED BY <3>1, Zenon
  <2>2. WithCommas(<<TypeText[u], TypeText[v]>>) = Both(TypeText[u], TypeText[v])
    BY WithCommasBoth, Zenon
  <2> QED BY <1>4, <2>1, <2>2, Zenon DEF GroupText, Wrap
<1>6. t = GroupOf(opener, n, m)
  BY <1>2, Zenon DEF GroupOf
<1> HIDE DEF m, n, opener
<1>7. \A i \in 1..n : ConvertsBack(m[i])
  BY <1>2
<1> QED BY <1>1, <1>3, <1>5, <1>6, <1>7, GroupConvertsBack

LEMMA StructConvertsBack ==
  ASSUME NEW n \in 0..Len(FieldNames), NEW m \in [1..n -> ColumnTypes],
         \A i \in 1..n : ConvertsBack(m[i]),
         NEW t \in ColumnTypes, t = Struct(NamesFor(n), m)
  PROVE  ConvertsBack(t)
<1>1. n \in Nat /\ DOMAIN m = 1..n
  BY NamesOfFields
<1>2. t.kind = "struct" /\ t.of = m
  BY Kinds
<1>3. TypeText[t] = <<"struct<">> \o WithCommas(FieldTexts(n, m)) \o <<">">>
  <2>1. \A a, b : t = Struct(NamesFor(a), b) /\ DOMAIN b = 1..a =>
          TypeText[t] = <<"struct<">> \o WithCommas(FieldTexts(a, b)) \o <<">">>
    BY TextForms, Zenon
  <2> QED BY <1>1, <2>1, Zenon
<1>4. CASE n = 0
  <2> DEFINE texts == FieldTexts(n, m)
  <2>1. Len(texts) = n
    BY <1>1 DEF FieldTexts
  <2> HIDE DEF texts
  <2>2. Joins(texts, n)
    BY <1>1, <2>1, JoinGrows
  <2>3. WithCommas(texts) = <<>>
    BY <1>4, <2>2, Zenon DEF Joins
  <2>4. TypeText[t] = Wrap("struct<", <<>>)
    BY <1>3, <2>3, Zenon DEF Wrap, texts
  <2>5. TypeToLogicalType[TypeText[t]] \in Failed
    BY <2>4, EmptyStructFails, Zenon
  <2>6. Empty(t)
    <3>1. m = <<>>
      BY <1>4
    <3> QED BY <1>2, <3>1, Zenon DEF Empty
  <2>7. ~Plain(t)
    BY <2>6, PlainMembers, Zenon
  <2> QED BY <2>5, <2>7 DEF ConvertsBack
<1>5. CASE n # 0
  <2> DEFINE opener == "struct<"
  <2>1. opener # "map<" /\ opener = "struct<"
    OBVIOUS
  <2>2. Group(opener, n, m)
    BY <1>1, <1>5, <2>1 DEF Group
  <2> HIDE DEF opener
  <2>3. TextsOf(opener, n, m) = FieldTexts(n, m)
    <3>1. \A i \in 1..n : MemberText(opener, i, m[i]) = Field(i, m[i])
      BY <2>1, Zenon DEF MemberText
    <3> QED BY <3>1 DEF TextsOf, FieldTexts
  <2>4. TypeText[t] = GroupText(opener, n, m)
    BY <1>3, <2>1, <2>3, Zenon DEF GroupText, Wrap
  <2>5. t = GroupOf(opener, n, m)
    BY <2>1, Zenon DEF GroupOf
  <2> QED BY <1>2, <2>2, <2>4, <2>5, GroupConvertsBack
<1> QED BY <1>4, <1>5

\* However types are nested, the text of a type is converted to that type or to
\* no type at all; it is converted if no decimal is a direct member of a map or a
\* struct and no struct is empty.
THEOREM TypesConvertBack == \A t \in ColumnTypes : ConvertsBack(t)
<1> DEFINE G == {t \in ColumnTypes : ConvertsBack(t)}
<1>1. ASSUME NEW t \in ColumnTypes, Formed(t, G \cap ColumnTypes)
      PROVE  ConvertsBack(t)
  <2>1. \A u \in G \cap ColumnTypes : u \in ColumnTypes /\ ConvertsBack(u)
    OBVIOUS
  <2> HIDE DEF G
  <2>2. CASE t = Integer
    <3>1. TypeToLogicalType[TypeText[t]] = t
      BY <2>2, TextForms, LeafTypes, Zenon
    <3> QED BY <3>1, Zenon DEF ConvertsBack
  <2>3. CASE t = Decimal
    <3>1. TypeToLogicalType[TypeText[t]] = t
      BY <2>3, TextForms, LeafTypes, Zenon
    <3> QED BY <3>1, Zenon DEF ConvertsBack
  <2>4. CASE \E u \in G \cap ColumnTypes : t = List(u)
    BY <2>1, <2>4, ListConvertsBack, Zenon
  <2>5. CASE \E u \in G \cap ColumnTypes, v \in G \cap ColumnTypes : t = Map(u, v)
    BY <2>1, <2>5, MapConvertsBack, Zenon
  <2>6. CASE \E n \in 0..Len(FieldNames) : \E m \in [1..n -> G \cap ColumnTypes] :
               t = Struct(NamesFor(n), m)
    <3>1. PICK n \in 0..Len(FieldNames) : \E m \in [1..n -> G \cap ColumnTypes] :
                 t = Struct(NamesFor(n), m)
      BY <2>6
    <3>2. PICK m \in [1..n -> G \cap ColumnTypes] : t = Struct(NamesFor(n), m)
      BY <3>1
    <3>3. m \in [1..n -> ColumnTypes] /\ \A i \in 1..n : ConvertsBack(m[i])
      BY <2>1
    <3> QED BY <3>2, <3>3, StructConvertsBack
  <2>7. t = Integer \/ t = Decimal \/ t \notin {Integer, Decimal}
    OBVIOUS
  <2> QED BY <1>1, <2>2, <2>3, <2>4, <2>5, <2>6, <2>7, Zenon DEF Formed
<1>2. \A t \in ColumnTypes : Formed(t, G \cap ColumnTypes) => t \in G
  BY <1>1
<1>3. ColumnTypes \subseteq G
  <2> HIDE DEF G
  <2> QED BY <1>2, TypesInduction
<1> QED BY <1>3

-----------------------------------------------------------------------------
(* What a column is converted to.                                          *)

ColumnInv ==
    /\ column \in ColumnTypes
    /\ logical \in {NotYet, TypeToLogicalType[TypeText[column]]}

LEMMA ColumnInvAlways == Spec => []ColumnInv
<1>1. Init => ColumnInv
  BY DEF Init, ColumnInv
<1>2. ColumnInv /\ [Next]_vars => ColumnInv'
  BY DEF ColumnInv, Next, CreateColumnDefinition, vars
<1> QED BY <1>1, <1>2, PTL DEF Spec

LEMMA NotYetIsNot == NotYet # Error /\ NotYet # Overrun
BY DEF NotYet, Error, Overrun, Type

\* However types are nested, a column's conversion reads beyond the end of its
\* text only where a member is missing: at an empty struct.
THEOREM OverrunsHaveHolesAlways == Spec => []OverrunsHaveHoles
<1>1. ColumnInv => OverrunsHaveHoles
  <2>1. SUFFICES ASSUME ColumnInv, logical = Overrun
                 PROVE  Hole(TypeText[column])
    BY DEF OverrunsHaveHoles
  <2>2. TypeText[column] \in Seq(Tokens)
    BY <2>1, TextsOK DEF ColumnInv, TextOK, Balanced
  <2>3. TypeToLogicalType[TypeText[column]] = Overrun
    BY <2>1, NotYetIsNot DEF ColumnInv
  <2> QED BY <2>2, <2>3, OverrunsNeedHoles
<1> QED BY <1>1, ColumnInvAlways, PTL

LEMMA ColumnConvertsBack ==
  ASSUME ColumnInv
  PROVE  /\ logical \in {NotYet, column} \cup Failed
         /\ Plain(column) => logical \in {NotYet, column}
<1>1. column \in ColumnTypes /\ logical \in {NotYet, TypeToLogicalType[TypeText[column]]}
  BY DEF ColumnInv
<1>2. ConvertsBack(column)
  BY <1>1, TypesConvertBack
<1> QED BY <1>1, <1>2 DEF ConvertsBack

\* However types are nested, a column is never given another type than its own.
THEOREM NeverAnotherTypeAlways == Spec => []NeverAnotherType
<1>1. ColumnInv => NeverAnotherType
  BY ColumnConvertsBack DEF NeverAnotherType, Converted, Failed
<1> QED BY <1>1, ColumnInvAlways, PTL

\* However types are nested, a column is given its type if no decimal is a direct
\* member of a map or a struct in it and no struct in it is empty.
THEOREM NestedTypesConvertAlways == Spec => []NestedTypesConvert
<1>1. ColumnInv => NestedTypesConvert
  BY ColumnConvertsBack DEF NestedTypesConvert, Plain
<1> QED BY <1>1, ColumnInvAlways, PTL

=============================================================================
