--------------------------- MODULE UCTypeMapping ---------------------------
(***************************************************************************)
(* UCUtils::TypeToLogicalType (src/uc_utils.cpp): from the text the server *)
(* gives for a column's type to a DuckDB type.                             *)
(*                                                                         *)
(* A text is a sequence of tokens.  "int" stands for any name of a         *)
(* primitive type, "9" for any number; "decimal(", "array<", "map<" and    *)
(* "struct<" are the prefixes the function looks for, ',', ':', ')' and    *)
(* '>' the characters it looks for.  A type is a record: its kind, the     *)
(* types it is made of and, for a struct, the names of its fields.         *)
(***************************************************************************)
EXTENDS Integers, SequencesExt

CONSTANTS
    FieldNames,      \* the names of a struct's fields, the first ones if it has fewer
    MaxNesting       \* bound: how deep types are nested

Comma == ","
Openers == {"array<", "map<", "struct<"}
Structural == Openers \cup {Comma, ":", ">"}
Meaningful == Openers \cup {"int", "decimal(", "9", Comma, ":", ")", ">"}
Tokens == Meaningful \cup ToSet(FieldNames)

\* No field's name is a token that takes part in a struct's layout; it may be
\* the name of a type.
ASSUME TypesAssumption ==
    /\ FieldNames \in Seq(STRING)
    /\ \A i \in DOMAIN FieldNames : FieldNames[i] \notin Structural
    /\ MaxNesting \in Nat

Type(kind, of, names) == [kind |-> kind, of |-> of, names |-> names]
Integer == Type("int", <<>>, <<>>)
Decimal == Type("decimal", <<>>, <<>>)
List(child) == Type("list", <<child>>, <<>>)
Map(key, val) == Type("map", <<key, val>>, <<>>)
Struct(names, types) == Type("struct", types, names)

\* No type: an exception, or a read beyond the end of the text, after which
\* anything can happen.
Error == Type("error", <<>>, <<>>)
Overrun == Type("overrun", <<>>, <<>>)
NotYet == Type("none", <<>>, <<>>)

Failures(types) == {i \in DOMAIN types : types[i] \in {Error, Overrun}}
-----------------------------------------------------------------------------
(* The server: the types a column can have, and how it writes them.        *)

Types[depth \in 0..MaxNesting] ==
    IF depth = 0 THEN {Integer, Decimal}
    ELSE LET T == Types[depth - 1]
         IN  T \cup {List(t) : t \in T}
               \cup {Map(key, val) : key \in T, val \in T}
               \cup UNION {{Struct([i \in 1..n |-> FieldNames[i]], of) : of \in [1..n -> T]}
                            : n \in 0..Len(FieldNames)}

ColumnTypes == Types[MaxNesting]

WithCommas(texts) ==
    LET upTo[n \in 0..Len(texts)] ==
            IF n = 0 THEN <<>>
            ELSE IF n = 1 THEN texts[1]
            ELSE upTo[n - 1] \o <<Comma>> \o texts[n]
    IN  upTo[Len(texts)]

TypeText[t \in ColumnTypes] ==
    LET member(i) == TypeText[t.of[i]]
        field(i) == <<t.names[i], ":">> \o member(i) IN
    CASE t.kind = "int"     -> <<"int">>
      [] t.kind = "decimal" ->
           <<"decimal(">> \o WithCommas(<<<<"9">>, <<"9">>>>) \o <<")">>
      [] t.kind = "list"    -> <<"array<">> \o member(1) \o <<">">>
      [] t.kind = "map"     ->
           <<"map<">> \o WithCommas(<<member(1), member(2)>>) \o <<">">>
      [] t.kind = "struct"  ->
           <<"struct<">> \o WithCommas([i \in DOMAIN t.of |-> field(i)]) \o <<">">>
-----------------------------------------------------------------------------
(* TypeToLogicalType.                                                      *)

Starts(text, token) == text # <<>> /\ text[1] = token
Find(text, token) == SelectInSeq(text, LAMBDA c : c = token)
FindBeforeLast(text, token) == \* mutant: one character before the last
    SelectLastInSeq(text, LAMBDA c : c = token) - 1

FindLast(text, token) == SelectLastInSeq(text, LAMBDA c : c = token)

NestingIgnored(c) == 0 \* mutant: nested_opens is not maintained

Nesting(c) == IF c \in Openers THEN 1 ELSE IF c = ">" THEN -1 ELSE 0

\* The inner loop: the next ',' from position cur on that is not nested, or
\* typeEnd.  typeEnd is compared only after a step, so a scan that starts there
\* runs on; 0 when it has left the text.
NextSep(text, typeEnd, cur, opens) ==
    LET scan[p \in Nat \X Int] ==
            LET i == p[1]
                nestedOpens == p[2] IN
            IF i > Len(text) THEN [at |-> 0, opens |-> nestedOpens]
            ELSE IF text[i] = Comma /\ nestedOpens <= 0
                 THEN [at |-> i, opens |-> nestedOpens]
            ELSE IF i + 1 = typeEnd
                 THEN [at |-> typeEnd, opens |-> nestedOpens + Nesting(text[i])]
            ELSE scan[<<i + 1, nestedOpens + Nesting(text[i])>>]
    IN scan[<<cur, opens>>]

\* The outer loop: the texts between the separators, and whether a scan overran.
Members(text, typeEnd) ==
    LET split[p \in Nat \X Int] ==
            LET cur == p[1]
                sep == NextSep(text, typeEnd, cur, p[2])
                rest == split[<<sep.at + 1, sep.opens>>]
                member == SubSeq(text, cur, sep.at - 1) IN
            IF sep.at = 0 THEN [texts |-> <<>>, overran |-> TRUE]
            ELSE IF sep.at = typeEnd THEN [texts |-> <<member>>, overran |-> FALSE]
            ELSE [texts |-> <<member>> \o rest.texts, overran |-> rest.overran]
    IN split[<<2, 0>>]

\* Members are converted as they are found: the first one that throws ends the
\* conversion, before a later scan can overrun.
Combined(types, overran, whole) ==
    IF Failures(types) # {} THEN types[Min(Failures(types))]
    ELSE IF overran THEN Overrun ELSE whole

DecimalOf(text) ==
    LET specEnd == Find(text, ")")
        sep == Find(text, Comma) IN
    IF /\ SubSeq(text, 2, sep - 1) = <<"9">>
       /\ SubSeq(text, sep + 1, specEnd - 1) = <<"9">>
    THEN Decimal ELSE Error

MapSwapped(types) == Map(types[2], types[1]) \* mutant: value type before key type

MapOf(types) == Map(types[1], types[2])

TypeToLogicalType[text \in Seq(Tokens)] ==
    LET typeEnd == FindLast(text, ">")
        members == Members(text, typeEnd)
        texts == members.texts
        colon(i) == Find(texts[i], ":")
        fieldType(i) == IF colon(i) = 0 THEN Error
                        ELSE TypeToLogicalType[SubSeq(texts[i], colon(i) + 1, Len(texts[i]))]
        fieldName(i) == SubSeq(texts[i], 1, colon(i) - 1)[1]
        child == TypeToLogicalType[SubSeq(text, 2, typeEnd - 1)]
        types == [i \in DOMAIN texts |-> TypeToLogicalType[texts[i]]]
        fields == [i \in DOMAIN texts |-> fieldType(i)]
    IN  CASE text = <<"int">> -> Integer
          [] Starts(text, "decimal(") /\ Find(text, ")") # 0 -> DecimalOf(text)
          [] Starts(text, "array<") /\ typeEnd # 0 -> Combined(<<child>>, FALSE, List(child))
          [] Starts(text, "map<") /\ typeEnd # 0 ->
               Combined(types, members.overran,
                        IF Len(types) = 2 THEN MapOf(types) ELSE Error)
          [] Starts(text, "struct<") /\ typeEnd # 0 ->
               Combined(fields, members.overran,
                        Struct([i \in DOMAIN texts |-> fieldName(i)], fields))
          [] OTHER -> Error
-----------------------------------------------------------------------------
(* A column is converted, by CreateColumnDefinition.                       *)

VARIABLES
    column,   \* the type the server's column has
    logical   \* what it was converted to

vars == <<column, logical>>

Init == column \in ColumnTypes /\ logical = NotYet

CreateColumnDefinition ==
    /\ logical = NotYet
    /\ logical' = TypeToLogicalType[TypeText[column]]
    /\ UNCHANGED column

Next == CreateColumnDefinition

Spec == Init /\ [][Next]_vars
-----------------------------------------------------------------------------
(* Properties.                                                             *)

\* The types a type contains, itself included.
Within[t \in ColumnTypes] == {t} \cup UNION {Within[u] : u \in ToSet(t.of)}

\* A map or a struct of which a decimal is a direct member.
HoldsDecimal(t) == t.kind \in {"map", "struct"} /\ Decimal \in ToSet(t.of)
Empty(t) == t.kind = "struct" /\ t.of = <<>>

Converted == logical \notin {NotYet, Error, Overrun}

\* An opener of a type with members, or a separator, directly before a '>'.
Hole(text) ==
    \E i \in 1..(Len(text) - 1) : text[i] \in {"map<", "struct<", Comma} /\ text[i + 1] = ">"

\* The scan for a separator reads beyond the end of the text only where a member
\* is missing.
OverrunsHaveHoles == logical = Overrun => Hole(TypeText[column])

\* A column is never given another type than the one it has: the separators of
\* nested types are never taken for those of the outer one so that the pieces
\* still make up a type.
NeverAnotherType == Converted => logical = column

\* Every type is converted, however types are nested, if no decimal is a direct
\* member of a map or a struct and no struct is empty.
NestedTypesConvert ==
    (\A t \in Within[column] : ~HoldsDecimal(t) /\ ~Empty(t))
        => logical \in {NotYet, column}

\* The commas of every nested type are ignored when a map or a struct is split
\* into its members, those of a decimal's precision and scale as well.
NestedCommasIgnored ==
    (\A t \in Within[column] : ~Empty(t)) => logical \in {NotYet, column}
=============================================================================
