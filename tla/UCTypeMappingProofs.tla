------------------------- MODULE UCTypeMappingProofs -------------------------
(***************************************************************************)
(* Theorems about TypeToLogicalType, for any text of tokens.  The loops    *)
(* and the conversion are recursive functions: each is shown to exist, by  *)
(* induction on how much of the text is left, so that it may be unfolded   *)
(* (NextSepUnfold, SplitUnfold, TypeToLogicalTypeUnfold).  Induction is    *)
(* over sets of numbers (SetInduction), which rests on the library's       *)
(* well-foundedness of the naturals.                                       *)
(***************************************************************************)
EXTENDS UCTypeMapping, FiniteSetTheorems, WellFoundedInduction, TLAPS

LEMMA Least ==
  ASSUME NEW S \in SUBSET Nat, S # {}
  PROVE  \E x \in S : \A y \in S : x <= y
<1> DEFINE R == OpToRel(<, Nat)
<1>1. IsWellFoundedOn(R, Nat)
  BY NatLessThanWellFounded
<1>2. PICK x \in S : \A y \in S : <<y, x>> \notin R
  <2> HIDE DEF R
  <2> QED BY <1>1, WFMin
<1>3. \A y \in S : ~(y < x)
  BY <1>2 DEF OpToRel
<1> HIDE DEF R
<1> QED BY <1>3

\* Induction, for what can be said of the members of a set.
LEMMA SetInduction ==
  ASSUME NEW S \in SUBSET Nat, 0 \in S, \A k \in S : k + 1 \in S
  PROVE  S = Nat
<1>1. SUFFICES ASSUME Nat \ S # {} PROVE FALSE
  OBVIOUS
<1>2. PICK m \in Nat \ S : \A k \in Nat \ S : m <= k
  BY <1>1, Least
<1>3. m - 1 \in S
  BY <1>2
<1> QED BY <1>2, <1>3

-----------------------------------------------------------------------------
(* The inner loop.                                                         *)

Places == Nat \X Int

\* One step of the scan, given what it finds from the places after it.
ScanStep(text, typeEnd, f, p) ==
    IF p[1] > Len(text) THEN [at |-> 0, opens |-> p[2]]
    ELSE IF text[p[1]] = Comma /\ p[2] <= 0 THEN [at |-> p[1], opens |-> p[2]]
    ELSE IF p[1] + 1 = typeEnd
         THEN [at |-> typeEnd, opens |-> p[2] + Nesting(text[p[1]])]
    ELSE f[<<p[1] + 1, p[2] + Nesting(text[p[1]])>>]

Scan(text, typeEnd) == CHOOSE f : f = [p \in Places |-> ScanStep(text, typeEnd, f, p)]

LEMMA NextSepIsScan ==
  ASSUME NEW text, NEW typeEnd, NEW cur, NEW opens
  PROVE  NextSep(text, typeEnd, cur, opens) = Scan(text, typeEnd)[<<cur, opens>>]
BY DEF NextSep, Scan, ScanStep, Places

LEMMA NestingInt ==
  ASSUME NEW c
  PROVE  Nesting(c) \in Int
BY DEF Nesting

LEMMA ScanExists ==
  ASSUME NEW text, NEW typeEnd, Len(text) \in Nat
  PROVE  \E f : f = [p \in Places |-> ScanStep(text, typeEnd, f, p)]
<1> DEFINE From(k) == {p \in Places : p[1] + k > Len(text)}
           K(k) == \E f : /\ f = [p \in Places |-> f[p]]
                          /\ \A p \in From(k) : f[p] = ScanStep(text, typeEnd, f, p)
<1>1. K(0)
  <2> DEFINE g == [p \in Places |-> [at |-> 0, opens |-> p[2]]]
  <2>1. ASSUME NEW p \in From(0)
        PROVE  g[p] = ScanStep(text, typeEnd, g, p)
    <3>1. p \in Places /\ p[1] > Len(text)
      BY DEF Places
    <3>2. g[p] = [at |-> 0, opens |-> p[2]]
      BY <3>1
    <3> HIDE DEF g
    <3> QED BY <3>1, <3>2 DEF ScanStep
  <2> QED BY <2>1
<1>2. ASSUME NEW k \in Nat, K(k)
      PROVE  K(k + 1)
  <2>1. PICK f : /\ f = [p \in Places |-> f[p]]
                 /\ \A p \in From(k) : f[p] = ScanStep(text, typeEnd, f, p)
    BY <1>2
  <2> DEFINE g == [p \in Places |-> IF p \in From(k) THEN f[p]
                                    ELSE ScanStep(text, typeEnd, f, p)]
  <2>2. ASSUME NEW p \in From(k + 1)
        PROVE  g[p] = ScanStep(text, typeEnd, g, p)
    <3> DEFINE q == <<p[1] + 1, p[2] + Nesting(text[p[1]])>>
    <3>1. g[p] = ScanStep(text, typeEnd, f, p)
      BY <2>1 DEF Places
    <3>2. q \in From(k)
      BY NestingInt DEF Places
    <3>3. g[q] = f[q]
      BY <3>2
    <3> HIDE DEF g
    <3> QED BY <3>1, <3>3 DEF ScanStep
  <2> QED BY <2>2
<1>3. \A k \in Nat : K(k)
  <2> DEFINE S == {k \in Nat : K(k)}
  <2> HIDE DEF K
  <2>1. S \in SUBSET Nat /\ 0 \in S /\ \A k \in S : k + 1 \in S
    BY <1>1, <1>2
  <2>2. S = Nat
    <3> HIDE DEF S
    <3> QED BY <2>1, SetInduction
  <2> QED BY <2>2
<1>4. PICK f : /\ f = [p \in Places |-> f[p]]
               /\ \A p \in From(Len(text) + 1) : f[p] = ScanStep(text, typeEnd, f, p)
  <2>1. K(Len(text) + 1)
    <3> HIDE DEF K
    <3> QED BY <1>3
  <2> QED BY <2>1
<1>5. From(Len(text) + 1) = Places
  BY DEF Places
<1> QED BY <1>4, <1>5

\* What the scan finds from a place, from what it finds from the next.
LEMMA NextSepUnfold ==
  ASSUME NEW text, NEW typeEnd, Len(text) \in Nat, NEW cur \in Nat, NEW opens \in Int
  PROVE  NextSep(text, typeEnd, cur, opens) =
           IF cur > Len(text) THEN [at |-> 0, opens |-> opens]
           ELSE IF text[cur] = Comma /\ opens <= 0 THEN [at |-> cur, opens |-> opens]
           ELSE IF cur + 1 = typeEnd
                THEN [at |-> typeEnd, opens |-> opens + Nesting(text[cur])]
           ELSE NextSep(text, typeEnd, cur + 1, opens + Nesting(text[cur]))
<1> DEFINE f == Scan(text, typeEnd)
           p == <<cur, opens>>
<1>1. f = [q \in Places |-> ScanStep(text, typeEnd, f, q)]
  BY ScanExists DEF Scan
<1>2. p \in Places
  BY DEF Places
<1>3. f[p] = ScanStep(text, typeEnd, f, p)
  <2> HIDE DEF f, p
  <2> QED BY <1>1, <1>2
<1>4. NextSep(text, typeEnd, cur, opens) = f[p]
  BY NextSepIsScan
<1>5. NextSep(text, typeEnd, cur + 1, opens + Nesting(text[cur]))
        = f[<<cur + 1, opens + Nesting(text[cur])>>]
  BY NextSepIsScan
<1> HIDE DEF f
<1> QED BY <1>3, <1>4, <1>5 DEF ScanStep

\* How often tokens of a set occur before position to, and how much deeper the
\* nesting is there than at position from.
Count(text, tokens, from, to) == Cardinality({j \in from..(to - 1) : text[j] \in tokens})
Opened(text, from, to) ==
    Count(text, Openers, from, to) - Count(text, {">"}, from, to)

LEMMA CountFrom ==
  ASSUME NEW text, NEW tokens, NEW from \in Int, NEW to \in Int
  PROVE  /\ Count(text, tokens, from, to) \in Nat
         /\ from >= to => Count(text, tokens, from, to) = 0
         /\ from < to =>
              Count(text, tokens, from, to) =
                (IF text[from] \in tokens THEN 1 ELSE 0) + Count(text, tokens, from + 1, to)
<1> DEFINE At(i) == {j \in i..(to - 1) : text[j] \in tokens}
<1>1. \A i \in Int : IsFiniteSet(At(i)) /\ Cardinality(At(i)) \in Nat
  <2> TAKE i \in Int
  <2>1. IsFiniteSet(i..(to - 1)) /\ At(i) \in SUBSET (i..(to - 1))
    BY FS_Interval
  <2> HIDE DEF At
  <2> QED BY <2>1, FS_Subset, FS_CardinalityType
<1>2. ASSUME from >= to
      PROVE  Cardinality(At(from)) = 0
  <2>1. At(from) = {}
    BY <1>2
  <2> QED BY <2>1, FS_EmptySet
<1>3. ASSUME from < to
      PROVE  Cardinality(At(from)) =
               (IF text[from] \in tokens THEN 1 ELSE 0) + Cardinality(At(from + 1))
  <2>1. CASE text[from] \in tokens
    <3>1. At(from) = At(from + 1) \cup {from} /\ from \notin At(from + 1)
      BY <1>3, <2>1
    <3> HIDE DEF At
    <3>2. Cardinality(At(from)) = Cardinality(At(from + 1)) + 1
      <4> DEFINE rest == At(from + 1)
      <4>1. IsFiniteSet(rest) /\ from \notin rest /\ At(from) = rest \cup {from}
        BY <1>1, <3>1
      <4> HIDE DEF rest
      <4>2. Cardinality(rest \cup {from}) = Cardinality(rest) + 1
        BY <4>1, FS_AddElement
      <4> QED BY <4>1, <4>2 DEF rest
    <3> QED BY <1>1, <2>1, <3>2
  <2>2. CASE text[from] \notin tokens
    <3>1. \A j : j \in At(from) <=> j \in At(from + 1)
      BY <2>2
    <3>2. At(from) = At(from + 1)
      <4> HIDE DEF At
      <4> QED BY <3>1, SetExtensionality
    <3> HIDE DEF At
    <3> QED BY <1>1, <2>2, <3>2
  <2> QED BY <2>1, <2>2
<1> QED BY <1>1, <1>2, <1>3 DEF Count

LEMMA OpenedFrom ==
  ASSUME NEW text, NEW from \in Int, NEW to \in Int
  PROVE  /\ Opened(text, from, to) \in Int
         /\ from >= to => Opened(text, from, to) = 0
         /\ from < to =>
              Opened(text, from, to) = Nesting(text[from]) + Opened(text, from + 1, to)
<1> DEFINE opening(i) == Count(text, Openers, i, to)
           closing(i) == Count(text, {">"}, i, to)
<1>1. ">" \notin Openers
  BY DEF Openers
<1>2. /\ opening(from) \in Nat /\ opening(from + 1) \in Nat
      /\ from >= to => opening(from) = 0
      /\ from < to => opening(from) =
                        (IF text[from] \in Openers THEN 1 ELSE 0) + opening(from + 1)
  BY CountFrom
<1>3. /\ closing(from) \in Nat /\ closing(from + 1) \in Nat
      /\ from >= to => closing(from) = 0
      /\ from < to => closing(from) =
                        (IF text[from] = ">" THEN 1 ELSE 0) + closing(from + 1)
  BY CountFrom
<1>4. /\ Opened(text, from, to) = opening(from) - closing(from)
      /\ Opened(text, from + 1, to) = opening(from + 1) - closing(from + 1)
  BY DEF Opened
<1> HIDE DEF opening, closing
<1> QED BY <1>1, <1>2, <1>3, <1>4 DEF Nesting

\* A comma that is not nested, for a scan that starts at from.
Separator(text, from, opens, i) == text[i] = Comma /\ opens + Opened(text, from, i) <= 0

\* sep is what a scan from cur to typeEnd is there to find: the first separator,
\* or the end if there is none, and the nesting there.
FirstSep(text, typeEnd, cur, opens, sep) ==
    /\ sep.at \in cur..typeEnd
    /\ sep.at # typeEnd => Separator(text, cur, opens, sep.at)
    /\ \A i \in cur..(sep.at - 1) : ~Separator(text, cur, opens, i)
    /\ sep.opens = opens + Opened(text, cur, sep.at)

LEMMA FirstSepHere ==
  ASSUME NEW text, NEW typeEnd \in Nat, NEW cur \in 1..(typeEnd - 1), NEW opens \in Int
  PROVE  /\ text[cur] = Comma /\ opens <= 0
              => FirstSep(text, typeEnd, cur, opens, [at |-> cur, opens |-> opens])
         /\ ~(text[cur] = Comma /\ opens <= 0) /\ cur + 1 = typeEnd
              => FirstSep(text, typeEnd, cur, opens,
                          [at |-> typeEnd, opens |-> opens + Nesting(text[cur])])
<1>1. Opened(text, cur, cur) = 0
  BY OpenedFrom
<1>2. ASSUME cur + 1 = typeEnd
      PROVE  Opened(text, cur, typeEnd) = Nesting(text[cur])
  <2>1. Opened(text, cur, typeEnd) = Nesting(text[cur]) + Opened(text, cur + 1, typeEnd)
    BY <1>2, OpenedFrom
  <2>2. Opened(text, cur + 1, typeEnd) = 0
    BY <1>2, OpenedFrom
  <2> QED BY <2>1, <2>2, NestingInt
<1> QED BY <1>1, <1>2 DEF FirstSep, Separator

LEMMA FirstSepLater ==
  ASSUME NEW text, NEW typeEnd \in Nat, NEW cur \in 1..(typeEnd - 1), NEW opens \in Int,
         ~(text[cur] = Comma /\ opens <= 0), NEW sep,
         FirstSep(text, typeEnd, cur + 1, opens + Nesting(text[cur]), sep)
  PROVE  FirstSep(text, typeEnd, cur, opens, sep)
<1> DEFINE deeper == opens + Nesting(text[cur])
<1>1. Opened(text, cur, cur) = 0
  BY OpenedFrom
<1>2. \A i \in (cur + 1)..typeEnd :
        /\ Opened(text, cur + 1, i) \in Int
        /\ opens + Opened(text, cur, i) = deeper + Opened(text, cur + 1, i)
  <2> TAKE i \in (cur + 1)..typeEnd
  <2>1. Opened(text, cur, i) = Nesting(text[cur]) + Opened(text, cur + 1, i)
    BY OpenedFrom
  <2>2. Opened(text, cur + 1, i) \in Int
    BY OpenedFrom
  <2> QED BY <2>1, <2>2, NestingInt
<1>3. /\ sep.at \in (cur + 1)..typeEnd
      /\ sep.at # typeEnd => text[sep.at] = Comma /\ deeper + Opened(text, cur + 1, sep.at) <= 0
      /\ \A i \in (cur + 1)..(sep.at - 1) :
           ~(text[i] = Comma /\ deeper + Opened(text, cur + 1, i) <= 0)
      /\ sep.opens = deeper + Opened(text, cur + 1, sep.at)
  BY DEF FirstSep, Separator
<1> HIDE DEF deeper
<1>4. ASSUME NEW i \in cur..(sep.at - 1)
      PROVE  ~Separator(text, cur, opens, i)
  <2>1. CASE i = cur
    BY <1>1, <2>1 DEF Separator
  <2>2. CASE i # cur
    <3>1. i \in (cur + 1)..typeEnd /\ i \in (cur + 1)..(sep.at - 1)
      BY <1>3, <2>2
    <3> QED BY <1>2, <1>3, <3>1 DEF Separator
  <2> QED BY <2>1, <2>2
<1>5. sep.at \in cur..typeEnd
  BY <1>3
<1>6. sep.at # typeEnd => Separator(text, cur, opens, sep.at)
  BY <1>2, <1>3 DEF Separator
<1>7. sep.opens = opens + Opened(text, cur, sep.at)
  BY <1>2, <1>3
<1> QED BY <1>4, <1>5, <1>6, <1>7 DEF FirstSep

\* The scan for a separator finds what it is there to find, and stays in the
\* text, whatever the text is, if it starts before the end of the type.
THEOREM NextSepFindsFirst ==
  ASSUME NEW text \in Seq(Tokens), NEW typeEnd \in 1..Len(text),
         NEW cur \in 1..(typeEnd - 1), NEW opens \in Int
  PROVE  FirstSep(text, typeEnd, cur, opens, NextSep(text, typeEnd, cur, opens))
<1> DEFINE Sep(c, o) == NextSep(text, typeEnd, c, o)
           K(k) == \A c \in 1..(typeEnd - 1), o \in Int :
                     typeEnd - c <= k => FirstSep(text, typeEnd, c, o, Sep(c, o))
           S == {k \in Nat : K(k)}
<1>0. Len(text) \in Nat /\ typeEnd \in Nat
  OBVIOUS
<1>1. 0 \in S
  BY <1>0
<1>2. ASSUME NEW k \in S
      PROVE  k + 1 \in S
  <2> SUFFICES ASSUME NEW c \in 1..(typeEnd - 1), NEW o \in Int, typeEnd - c <= k + 1
               PROVE  FirstSep(text, typeEnd, c, o, Sep(c, o))
    OBVIOUS
  <2>1. Sep(c, o) = IF text[c] = Comma /\ o <= 0 THEN [at |-> c, opens |-> o]
                    ELSE IF c + 1 = typeEnd
                         THEN [at |-> typeEnd, opens |-> o + Nesting(text[c])]
                    ELSE Sep(c + 1, o + Nesting(text[c]))
    BY NextSepUnfold
  <2> HIDE DEF K, Sep
  <2>2. CASE text[c] = Comma /\ o <= 0
    <3>1. Sep(c, o) = [at |-> c, opens |-> o]
      BY <2>1, <2>2
    <3> QED BY <1>0, <2>2, <3>1, FirstSepHere
  <2>4. CASE ~(text[c] = Comma /\ o <= 0) /\ c + 1 = typeEnd
    <3>1. Sep(c, o) = [at |-> typeEnd, opens |-> o + Nesting(text[c])]
      BY <2>1, <2>4
    <3> QED BY <1>0, <2>4, <3>1, FirstSepHere
  <2>3. CASE ~(text[c] = Comma /\ o <= 0) /\ c + 1 # typeEnd
    <3>1. Sep(c, o) = Sep(c + 1, o + Nesting(text[c]))
      BY <2>1, <2>3
    <3>2. /\ c + 1 \in 1..(typeEnd - 1) /\ typeEnd - (c + 1) <= k
          /\ o + Nesting(text[c]) \in Int
      BY <2>3, NestingInt
    <3>3. FirstSep(text, typeEnd, c + 1, o + Nesting(text[c]),
                   Sep(c + 1, o + Nesting(text[c])))
      BY <3>2 DEF K
    <3> QED BY <2>3, <3>1, <3>3, FirstSepLater
  <2> QED BY <2>2, <2>3, <2>4
<1>3. S = Nat
  <2>1. S \in SUBSET Nat
    OBVIOUS
  <2> HIDE DEF S
  <2> QED BY <1>1, <1>2, <2>1, SetInduction
<1>4. typeEnd - cur \in S
  BY <1>0, <1>3
<1> HIDE DEF Sep
<1>5. FirstSep(text, typeEnd, cur, opens, Sep(cur, opens))
  BY <1>0, <1>4
<1> QED BY <1>5 DEF Sep

\* Wherever it starts, the scan leaves the text or ends at a place in it that it
\* has come to.
LEMMA NextSepRange ==
  ASSUME NEW text \in Seq(Tokens), NEW typeEnd \in 1..Len(text),
         NEW cur \in Nat, NEW opens \in Int
  PROVE  /\ NextSep(text, typeEnd, cur, opens).at \in {0} \cup (cur..Len(text))
         /\ NextSep(text, typeEnd, cur, opens).opens \in Int
<1> DEFINE Sep(c, o) == NextSep(text, typeEnd, c, o)
           InRange(c, o) == /\ Sep(c, o).at \in {0} \cup (c..Len(text))
                            /\ Sep(c, o).opens \in Int
           K(k) == \A c \in Nat, o \in Int : c + k > Len(text) => InRange(c, o)
           S == {k \in Nat : K(k)}
<1>0. Len(text) \in Nat /\ typeEnd \in Nat
  OBVIOUS
<1>1. \A c \in Nat, o \in Int :
        Sep(c, o) = IF c > Len(text) THEN [at |-> 0, opens |-> o]
                    ELSE IF text[c] = Comma /\ o <= 0 THEN [at |-> c, opens |-> o]
                    ELSE IF c + 1 = typeEnd
                         THEN [at |-> typeEnd, opens |-> o + Nesting(text[c])]
                    ELSE Sep(c + 1, o + Nesting(text[c]))
  BY <1>0, NextSepUnfold
<1> HIDE DEF Sep
<1>2. 0 \in S
  BY <1>0, <1>1
<1>3. ASSUME NEW k \in S
      PROVE  k + 1 \in S
  <2> SUFFICES ASSUME NEW c \in Nat, NEW o \in Int, c + (k + 1) > Len(text)
               PROVE  InRange(c, o)
    OBVIOUS
  <2>1. CASE c > Len(text)
    BY <1>1, <2>1
  <2>2. CASE c <= Len(text) /\ text[c] = Comma /\ o <= 0
    BY <1>0, <1>1, <2>2
  <2>3. CASE c <= Len(text) /\ ~(text[c] = Comma /\ o <= 0) /\ c + 1 = typeEnd
    <3>1. Sep(c, o) = [at |-> typeEnd, opens |-> o + Nesting(text[c])]
      BY <1>0, <1>1, <2>3
    <3> QED BY <1>0, <2>3, <3>1, NestingInt
  <2>4. CASE c <= Len(text) /\ ~(text[c] = Comma /\ o <= 0) /\ c + 1 # typeEnd
    <3>1. Sep(c, o) = Sep(c + 1, o + Nesting(text[c]))
      BY <1>0, <1>1, <2>4
    <3>2. InRange(c + 1, o + Nesting(text[c]))
      BY <1>0, NestingInt
    <3> QED BY <1>0, <3>1, <3>2
  <2> QED BY <1>0, <2>1, <2>2, <2>3, <2>4
<1>4. S = Nat
  <2>1. S \in SUBSET Nat
    OBVIOUS
  <2> HIDE DEF S
  <2> QED BY <1>2, <1>3, <2>1, SetInduction
<1>5. Len(text) + 1 \in S
  <2> HIDE DEF S
  <2> QED BY <1>0, <1>4
<1>6. InRange(cur, opens)
  BY <1>0, <1>5
<1> QED BY <1>6 DEF Sep

-----------------------------------------------------------------------------
(* The outer loop.                                                         *)

SplitStep(text, typeEnd, f, p) ==
    LET cur == p[1]
        sep == NextSep(text, typeEnd, cur, p[2])
        rest == f[<<sep.at + 1, sep.opens>>]
        member == SubSeq(text, cur, sep.at - 1) IN
    IF sep.at = 0 THEN [texts |-> <<>>, overran |-> TRUE]
    ELSE IF sep.at = typeEnd THEN [texts |-> <<member>>, overran |-> FALSE]
    ELSE [texts |-> <<member>> \o rest.texts, overran |-> rest.overran]

Split(text, typeEnd) == CHOOSE f : f = [p \in Places |-> SplitStep(text, typeEnd, f, p)]

LEMMA MembersIsSplit ==
  ASSUME NEW text, NEW typeEnd
  PROVE  Members(text, typeEnd) = Split(text, typeEnd)[<<2, 0>>]
BY DEF Members, Split, SplitStep, Places

LEMMA SplitExists ==
  ASSUME NEW text \in Seq(Tokens), NEW typeEnd \in 1..Len(text)
  PROVE  \E f : f = [p \in Places |-> SplitStep(text, typeEnd, f, p)]
<1> DEFINE From(k) == {p \in Places : p[1] + k > Len(text)}
           K(k) == \E f : /\ f = [p \in Places |-> f[p]]
                          /\ \A p \in From(k) : f[p] = SplitStep(text, typeEnd, f, p)
<1>0. Len(text) \in Nat
  OBVIOUS
<1>1. K(0)
  <2> DEFINE g == [p \in Places |-> [texts |-> <<>>, overran |-> TRUE]]
  <2>1. ASSUME NEW p \in From(0)
        PROVE  g[p] = SplitStep(text, typeEnd, g, p)
    <3>1. p \in Places /\ p[1] \in Nat /\ p[2] \in Int /\ p[1] > Len(text)
      BY <1>0 DEF Places
    <3>2. NextSep(text, typeEnd, p[1], p[2]).at = 0
      BY <1>0, <3>1, NextSepUnfold
    <3>3. g[p] = [texts |-> <<>>, overran |-> TRUE]
      BY <3>1
    <3> HIDE DEF g
    <3> QED BY <3>2, <3>3 DEF SplitStep
  <2> QED BY <2>1
<1>2. ASSUME NEW k \in Nat, K(k)
      PROVE  K(k + 1)
  <2>1. PICK f : /\ f = [p \in Places |-> f[p]]
                 /\ \A p \in From(k) : f[p] = SplitStep(text, typeEnd, f, p)
    BY <1>2
  <2> DEFINE g == [p \in Places |-> IF p \in From(k) THEN f[p]
                                    ELSE SplitStep(text, typeEnd, f, p)]
  <2>2. ASSUME NEW p \in From(k + 1)
        PROVE  g[p] = SplitStep(text, typeEnd, g, p)
    <3> DEFINE sep == NextSep(text, typeEnd, p[1], p[2])
               q == <<sep.at + 1, sep.opens>>
    <3>1. g[p] = SplitStep(text, typeEnd, f, p)
      BY <2>1 DEF Places
    <3>2. p[1] \in Nat /\ p[2] \in Int /\ p[1] + (k + 1) > Len(text)
      BY DEF Places
    <3>3. sep.at \in {0} \cup (p[1]..Len(text)) /\ sep.opens \in Int
      BY <3>2, NextSepRange
    <3>4. ASSUME sep.at # 0
          PROVE  g[q] = f[q]
      <4> HIDE DEF sep
      <4>1. q \in From(k)
        BY <1>0, <3>2, <3>3, <3>4 DEF Places
      <4> QED BY <4>1
    <3> HIDE DEF g
    <3> QED BY <3>1, <3>4 DEF SplitStep
  <2> QED BY <2>2
<1>3. \A k \in Nat : K(k)
  <2> DEFINE S == {k \in Nat : K(k)}
  <2> HIDE DEF K
  <2>1. S \in SUBSET Nat /\ 0 \in S /\ \A k \in S : k + 1 \in S
    BY <1>1, <1>2
  <2>2. S = Nat
    <3> HIDE DEF S
    <3> QED BY <2>1, SetInduction
  <2> QED BY <2>2
<1>4. PICK f : /\ f = [p \in Places |-> f[p]]
               /\ \A p \in From(Len(text) + 1) : f[p] = SplitStep(text, typeEnd, f, p)
  <2>1. K(Len(text) + 1)
    <3> HIDE DEF K
    <3> QED BY <1>0, <1>3
  <2> QED BY <2>1
<1>5. From(Len(text) + 1) = Places
  BY <1>0 DEF Places
<1> QED BY <1>4, <1>5

LEMMA SplitUnfold ==
  ASSUME NEW text \in Seq(Tokens), NEW typeEnd \in 1..Len(text), NEW p \in Places
  PROVE  Split(text, typeEnd)[p] = SplitStep(text, typeEnd, Split(text, typeEnd), p)
<1> DEFINE f == Split(text, typeEnd)
<1>1. f = [q \in Places |-> SplitStep(text, typeEnd, f, q)]
  BY SplitExists DEF Split
<1> HIDE DEF f
<1>2. f[p] = SplitStep(text, typeEnd, f, p)
  BY <1>1
<1> QED BY <1>2 DEF f

\* The pieces a text can be split into, its first token aside.
Pieces(text) ==
    {SubSeq(text, ends[1], ends[2]) : ends \in (2..Len(text)) \X (1..Len(text))}

LEMMA PieceOf ==
  ASSUME NEW text, NEW a \in 2..Len(text), NEW b \in 1..Len(text)
  PROVE  SubSeq(text, a, b) \in Pieces(text)
<1>1. <<a, b>> \in (2..Len(text)) \X (1..Len(text)) /\ <<a, b>>[1] = a /\ <<a, b>>[2] = b
  OBVIOUS
<1> QED BY <1>1 DEF Pieces

\* What a split that starts at p[1] returns: pieces of the text, and a scan
\* overran only if the end comes directly after a separator.
SplitOK(text, typeEnd, p) ==
    /\ Split(text, typeEnd)[p].texts \in Seq(Pieces(text))
    /\ p[1] < typeEnd /\ Split(text, typeEnd)[p].overran => text[typeEnd - 1] = Comma

LEMMA SplitShape ==
  ASSUME NEW text \in Seq(Tokens), NEW typeEnd \in 1..Len(text),
         NEW p \in Places, p[1] >= 2
  PROVE  SplitOK(text, typeEnd, p)
<1> DEFINE K(k) == \A q \in Places : q[1] >= 2 /\ q[1] + k > Len(text)
                                       => SplitOK(text, typeEnd, q)
           S == {k \in Nat : K(k)}
<1>0. Len(text) \in Nat /\ typeEnd \in Nat
  OBVIOUS
<1>1. ASSUME NEW q \in Places, q[1] >= 2,
             \A r \in Places : r[1] > q[1] => SplitOK(text, typeEnd, r)
      PROVE  SplitOK(text, typeEnd, q)
  <2> DEFINE sep == NextSep(text, typeEnd, q[1], q[2])
             r == <<sep.at + 1, sep.opens>>
             member == SubSeq(text, q[1], sep.at - 1)
  <2>1. Split(text, typeEnd)[q] = SplitStep(text, typeEnd, Split(text, typeEnd), q)
    BY SplitUnfold
  <2>2. q[1] \in Nat /\ q[2] \in Int
    BY DEF Places
  <2>3. sep.at \in {0} \cup (q[1]..Len(text)) /\ sep.opens \in Int
    BY <2>2, NextSepRange
  <2>4. q[1] < typeEnd => FirstSep(text, typeEnd, q[1], q[2], sep)
    <3> HIDE DEF sep
    <3> SUFFICES ASSUME q[1] < typeEnd
                 PROVE  FirstSep(text, typeEnd, q[1], q[2], sep)
      OBVIOUS
    <3>1. q[1] \in 1..(typeEnd - 1)
      BY <1>0, <1>1, <2>2
    <3> QED BY <2>2, <3>1, NextSepFindsFirst DEF sep
  <2>5. q[1] < typeEnd => sep.at \in q[1]..typeEnd
    BY <2>4 DEF FirstSep
  <2>6. q[1] < typeEnd /\ sep.at # typeEnd => text[sep.at] = Comma
    BY <2>4 DEF FirstSep, Separator
  <2> HIDE DEF sep
  <2>7. sep.at # 0 => member \in Pieces(text)
    <3> SUFFICES ASSUME sep.at # 0
                 PROVE  member \in Pieces(text)
      OBVIOUS
    <3>1. q[1] \in 2..Len(text) /\ sep.at - 1 \in 1..Len(text)
      BY <1>0, <1>1, <2>2, <2>3
    <3> QED BY <3>1, PieceOf
  <2>8. sep.at # 0 => SplitOK(text, typeEnd, r)
    BY <1>0, <1>1, <2>2, <2>3 DEF Places
  <2>9. CASE sep.at = 0
    <3>1. Split(text, typeEnd)[q] = [texts |-> <<>>, overran |-> TRUE]
      BY <2>1, <2>9 DEF SplitStep, sep
    <3> QED BY <1>0, <1>1, <2>2, <2>5, <2>9, <3>1 DEF SplitOK
  <2>10. CASE sep.at # 0 /\ sep.at = typeEnd
    <3>1. Split(text, typeEnd)[q] = [texts |-> <<member>>, overran |-> FALSE]
      BY <2>1, <2>10 DEF SplitStep, sep
    <3> HIDE DEF member
    <3> QED BY <2>7, <2>10, <3>1 DEF SplitOK
  <2>11. CASE sep.at # 0 /\ sep.at # typeEnd
    <3> DEFINE rest == Split(text, typeEnd)[r]
    <3>1. Split(text, typeEnd)[q] = [texts |-> <<member>> \o rest.texts,
                                     overran |-> rest.overran]
      BY <2>1, <2>11 DEF SplitStep, sep
    <3>2. /\ rest.texts \in Seq(Pieces(text))
          /\ sep.at + 1 < typeEnd /\ rest.overran => text[typeEnd - 1] = Comma
      BY <2>8, <2>11 DEF SplitOK
    <3> HIDE DEF member, rest
    <3>3. <<member>> \o rest.texts \in Seq(Pieces(text))
      BY <2>7, <2>11, <3>2
    <3>4. ASSUME q[1] < typeEnd, rest.overran
          PROVE  text[typeEnd - 1] = Comma
      <4>1. CASE sep.at + 1 = typeEnd
        BY <1>0, <2>2, <2>3, <2>6, <2>11, <3>4, <4>1
      <4>2. CASE sep.at + 1 # typeEnd
        BY <1>0, <2>2, <2>3, <2>5, <2>11, <3>2, <3>4, <4>2
      <4> QED BY <4>1, <4>2
    <3> QED BY <3>1, <3>3, <3>4 DEF SplitOK
  <2> QED BY <2>9, <2>10, <2>11
<1>2. 0 \in S
  <2> SUFFICES ASSUME NEW q \in Places, q[1] > Len(text)
               PROVE  SplitOK(text, typeEnd, q)
    BY <1>0 DEF Places
  <2>1. q[1] \in Nat /\ q[2] \in Int
    BY DEF Places
  <2>2. NextSep(text, typeEnd, q[1], q[2]).at = 0
    BY <1>0, <2>1, NextSepUnfold
  <2>3. Split(text, typeEnd)[q] = [texts |-> <<>>, overran |-> TRUE]
    BY <2>2, SplitUnfold DEF SplitStep
  <2> QED BY <1>0, <2>1, <2>3 DEF SplitOK
<1>3. ASSUME NEW k \in S
      PROVE  k + 1 \in S
  <2> SUFFICES ASSUME NEW q \in Places, q[1] >= 2, q[1] + (k + 1) > Len(text)
               PROVE  SplitOK(text, typeEnd, q)
    OBVIOUS
  <2>1. \A r \in Places : r[1] > q[1] => SplitOK(text, typeEnd, r)
    BY <1>0 DEF Places
  <2> QED BY <1>1, <2>1
<1>4. S = Nat
  <2>1. S \in SUBSET Nat
    OBVIOUS
  <2> HIDE DEF S
  <2> QED BY <1>2, <1>3, <2>1, SetInduction
<1>5. Len(text) + 1 \in S
  <2> HIDE DEF S
  <2> QED BY <1>0, <1>4
<1> QED BY <1>0, <1>5 DEF Places

-----------------------------------------------------------------------------
(* The conversion.                                                         *)

TypesOf(f, texts) == [i \in DOMAIN texts |-> f[texts[i]]]

FieldText(member) == SubSeq(member, Find(member, ":") + 1, Len(member))
FieldsOf(f, texts) ==
    [i \in DOMAIN texts |-> IF Find(texts[i], ":") = 0 THEN Error ELSE f[FieldText(texts[i])]]
NamesOf(texts) ==
    [i \in DOMAIN texts |-> SubSeq(texts[i], 1, Find(texts[i], ":") - 1)[1]]

\* The conversion of a text, given that of shorter ones.
Conversion(f, text) ==
    LET typeEnd == FindLast(text, ">")
        members == Members(text, typeEnd)
        types == TypesOf(f, members.texts)
        fields == FieldsOf(f, members.texts)
        child == f[SubSeq(text, 2, typeEnd - 1)]
    IN  CASE text = <<"int">> -> Integer
          [] Starts(text, "decimal(") /\ Find(text, ")") # 0 -> DecimalOf(text)
          [] Starts(text, "array<") /\ typeEnd # 0 -> Combined(<<child>>, FALSE, List(child))
          [] Starts(text, "map<") /\ typeEnd # 0 ->
               Combined(types, members.overran,
                        IF Len(types) = 2 THEN MapOf(types) ELSE Error)
          [] Starts(text, "struct<") /\ typeEnd # 0 ->
               Combined(fields, members.overran, Struct(NamesOf(members.texts), fields))
          [] OTHER -> Error

LEMMA TypeToLogicalTypeIs ==
  TypeToLogicalType = CHOOSE f : f = [text \in Seq(Tokens) |-> Conversion(f, text)]
BY Zenon DEF TypeToLogicalType, Conversion, TypesOf, FieldsOf, NamesOf, FieldText

LEMMA Greatest ==
  ASSUME NEW n \in Nat, NEW S \in SUBSET (1..n), S # {}
  PROVE  Max(S) \in S
<1> DEFINE Below == {k \in Nat : n - k \in S}
<1>1. Below \in SUBSET Nat /\ Below # {}
  <2>1. PICK x \in S : TRUE
    OBVIOUS
  <2>2. n - x \in Nat /\ n - (n - x) = x
    OBVIOUS
  <2>3. n - x \in Below
    BY <2>2
  <2> QED BY <2>3
<1>2. PICK b \in Below : \A c \in Below : b <= c
  <2> HIDE DEF Below
  <2> QED BY <1>1, Least
<1>3. n - b \in S
  BY <1>2
<1>4. ASSUME NEW y \in S
      PROVE  n - b >= y
  <2>1. n - y \in Below
    OBVIOUS
  <2>2. b <= n - y
    <3> HIDE DEF Below
    <3> QED BY <1>2, <2>1
  <2> QED BY <1>2, <2>2
<1> QED BY <1>3, <1>4 DEF Max

LEMMA FirstIn ==
  ASSUME NEW n \in Nat, NEW S \in SUBSET (1..n), S # {}
  PROVE  Min(S) \in S
<1>1. \E x \in S : \A y \in S : x <= y
  BY Least
<1> QED BY <1>1 DEF Min

LEMMA FindLastAt ==
  ASSUME NEW text \in Seq(Tokens), NEW token, FindLast(text, token) # 0
  PROVE  FindLast(text, token) \in 1..Len(text) /\ text[FindLast(text, token)] = token
<1> DEFINE S == {i \in 1..Len(text) : text[i] = token}
<1>1. FindLast(text, token) = IF S # {} THEN Max(S) ELSE 0
  BY Zenon DEF FindLast, SelectLastInSeq
<1>2. S # {} /\ FindLast(text, token) = Max(S)
  <2> HIDE DEF S
  <2> QED BY <1>1
<1>3. Len(text) \in Nat /\ S \in SUBSET (1..Len(text))
  OBVIOUS
<1>4. Max(S) \in S
  <2> HIDE DEF S
  <2> QED BY <1>2, <1>3, Greatest
<1>5. FindLast(text, token) \in S
  <2> HIDE DEF S
  <2> QED BY <1>2, <1>4
<1> QED BY <1>5

LEMMA FindAt ==
  ASSUME NEW text \in Seq(Tokens), NEW token, Find(text, token) # 0
  PROVE  Find(text, token) \in 1..Len(text)
<1> DEFINE S == {i \in 1..Len(text) : text[i] = token}
<1>1. Find(text, token) = IF S # {} THEN Min(S) ELSE 0
  BY Zenon DEF Find, SelectInSeq
<1>2. S # {} /\ Find(text, token) = Min(S)
  <2> HIDE DEF S
  <2> QED BY <1>1
<1>3. Len(text) \in Nat /\ S \in SUBSET (1..Len(text))
  OBVIOUS
<1>4. Min(S) \in S
  <2> HIDE DEF S
  <2> QED BY <1>2, <1>3, FirstIn
<1>5. Find(text, token) \in S
  <2> HIDE DEF S
  <2> QED BY <1>2, <1>4
<1> QED BY <1>5

LEMMA PartOf ==
  ASSUME NEW text \in Seq(Tokens), NEW a \in Nat \ {0}, NEW b \in 0..Len(text)
  PROVE  /\ SubSeq(text, a, b) \in Seq(Tokens)
         /\ Len(SubSeq(text, a, b)) <= Len(text)
         /\ a > 1 /\ text # <<>> => Len(SubSeq(text, a, b)) < Len(text)
         /\ b < Len(text) => Len(SubSeq(text, a, b)) < Len(text)
         /\ \A i \in 1..Len(SubSeq(text, a, b)) :
              a + i - 1 \in a..b /\ SubSeq(text, a, b)[i] = text[a + i - 1]
OBVIOUS

LEMMA PieceIs ==
  ASSUME NEW text \in Seq(Tokens), NEW u \in Pieces(text)
  PROVE  /\ \E a \in 2..Len(text), b \in 1..Len(text) : u = SubSeq(text, a, b)
         /\ u \in Seq(Tokens)
         /\ Len(u) < Len(text)
<1>1. PICK ends \in (2..Len(text)) \X (1..Len(text)) : u = SubSeq(text, ends[1], ends[2])
  BY DEF Pieces
<1>2. ends[1] \in 2..Len(text) /\ ends[2] \in 1..Len(text)
  BY <1>1
<1>3. text # <<>> /\ Len(text) \in Nat
  BY <1>2
<1>4. ends[1] \in Nat \ {0} /\ ends[1] > 1 /\ ends[2] \in 0..Len(text)
  BY <1>2, <1>3
<1>5. SubSeq(text, ends[1], ends[2]) \in Seq(Tokens)
  BY <1>4, PartOf
<1>6. Len(SubSeq(text, ends[1], ends[2])) < Len(text)
  BY <1>3, <1>4, PartOf
<1> QED BY <1>1, <1>2, <1>5, <1>6

LEMMA FieldTextIs ==
  ASSUME NEW u \in Seq(Tokens), Find(u, ":") # 0
  PROVE  /\ \E a \in 2..(Len(u) + 1) : FieldText(u) = SubSeq(u, a, Len(u))
         /\ FieldText(u) \in Seq(Tokens)
         /\ Len(FieldText(u)) <= Len(u)
<1> DEFINE a == Find(u, ":") + 1
<1>1. Find(u, ":") \in 1..Len(u)
  BY FindAt
<1>2. a \in 2..(Len(u) + 1) /\ a \in Nat \ {0} /\ Len(u) \in 0..Len(u)
  BY <1>1
<1>3. FieldText(u) = SubSeq(u, a, Len(u))
  BY DEF FieldText
<1> HIDE DEF a
<1> QED BY <1>2, <1>3, PartOf

LEMMA MembersShape ==
  ASSUME NEW text \in Seq(Tokens), NEW typeEnd \in 1..Len(text)
  PROVE  /\ Members(text, typeEnd).texts \in Seq(Pieces(text))
         /\ typeEnd > 2 /\ Members(text, typeEnd).overran => text[typeEnd - 1] = Comma
<1> DEFINE p == <<2, 0>>
<1>1. p \in Places /\ p[1] = 2
  BY DEF Places
<1>2. SplitOK(text, typeEnd, p)
  BY <1>1, SplitShape
<1>3. Members(text, typeEnd) = Split(text, typeEnd)[p]
  BY MembersIsSplit
<1> HIDE DEF p
<1> QED BY <1>1, <1>2, <1>3 DEF SplitOK

Agree(f, g, text) == \A u \in Seq(Tokens) : Len(u) < Len(text) => f[u] = g[u]

LEMMA SameTypes ==
  ASSUME NEW text \in Seq(Tokens), NEW f, NEW g, Agree(f, g, text),
         NEW texts \in Seq(Pieces(text))
  PROVE  TypesOf(f, texts) = TypesOf(g, texts) /\ FieldsOf(f, texts) = FieldsOf(g, texts)
<1>1. ASSUME NEW i \in DOMAIN texts
      PROVE  /\ f[texts[i]] = g[texts[i]]
             /\ Find(texts[i], ":") # 0 => f[FieldText(texts[i])] = g[FieldText(texts[i])]
  <2> DEFINE u == texts[i]
  <2>1. u \in Pieces(text)
    OBVIOUS
  <2> HIDE DEF u
  <2>2. u \in Seq(Tokens) /\ Len(u) < Len(text)
    BY <2>1, PieceIs
  <2>3. ASSUME Find(u, ":") # 0
        PROVE  FieldText(u) \in Seq(Tokens) /\ Len(FieldText(u)) < Len(text)
    <3>1. FieldText(u) \in Seq(Tokens) /\ Len(FieldText(u)) <= Len(u)
      BY <2>2, <2>3, FieldTextIs
    <3> QED BY <2>2, <3>1
  <2>4. f[u] = g[u] /\ (Find(u, ":") # 0 => f[FieldText(u)] = g[FieldText(u)])
    BY <2>2, <2>3 DEF Agree
  <2> QED BY <2>4 DEF u
<1> QED BY <1>1 DEF TypesOf, FieldsOf

LEMMA SameConversion ==
  ASSUME NEW text \in Seq(Tokens), NEW f, NEW g, Agree(f, g, text)
  PROVE  Conversion(f, text) = Conversion(g, text)
<1> DEFINE typeEnd == FindLast(text, ">")
           texts == Members(text, typeEnd).texts
           child == SubSeq(text, 2, typeEnd - 1)
<1>1. ASSUME typeEnd # 0
      PROVE  /\ TypesOf(f, texts) = TypesOf(g, texts)
             /\ FieldsOf(f, texts) = FieldsOf(g, texts)
             /\ f[child] = g[child]
  <2>1. typeEnd \in 1..Len(text)
    BY <1>1, FindLastAt
  <2> HIDE DEF typeEnd
  <2>2. texts \in Seq(Pieces(text))
    BY <2>1, MembersShape
  <2>3. child \in Seq(Tokens) /\ Len(child) < Len(text)
    <3>1. typeEnd - 1 \in 0..Len(text) /\ typeEnd - 1 < Len(text) /\ 2 \in Nat \ {0}
      BY <2>1
    <3> QED BY <3>1, PartOf
  <2>4. f[child] = g[child]
    <3> HIDE DEF child
    <3> QED BY <2>3 DEF Agree
  <2> HIDE DEF texts
  <2> QED BY <2>2, <2>4, SameTypes
<1> HIDE DEF texts, child, typeEnd
<1>2. CASE typeEnd = 0
  BY <1>2 DEF Conversion, typeEnd
<1>3. CASE typeEnd # 0
  BY <1>1, <1>3 DEF Conversion, typeEnd, texts, child
<1> QED BY <1>2, <1>3

\* f converts every text of less than k tokens.
Converts(f, k) ==
    \A text \in Seq(Tokens) : Len(text) < k => f[text] = Conversion(f, text)

LEMMA ConvertsAlike ==
  ASSUME NEW k \in Nat, NEW f, NEW g, Converts(f, k), Converts(g, k)
  PROVE  \A text \in Seq(Tokens) : Len(text) < k => f[text] = g[text]
<1> DEFINE Differ(u) == u \in Seq(Tokens) /\ Len(u) < k /\ f[u] # g[u]
           Lengths == {n \in Nat : \E u : Differ(u) /\ n = Len(u)}
<1>1. SUFFICES ASSUME NEW text, Differ(text)
               PROVE  FALSE
  OBVIOUS
<1>2. Lengths \in SUBSET Nat /\ Lengths # {}
  BY <1>1
<1>3. PICK n \in Lengths : \A m \in Lengths : n <= m
  <2> HIDE DEF Lengths
  <2> QED BY <1>2, Least
<1>4. PICK u : Differ(u) /\ n = Len(u)
  BY <1>3
<1>5. ASSUME NEW v \in Seq(Tokens), Len(v) < Len(u)
      PROVE  f[v] = g[v]
  <2>1. SUFFICES ASSUME f[v] # g[v] PROVE FALSE
    OBVIOUS
  <2>2. Differ(v)
    BY <1>4, <1>5, <2>1
  <2>3. Len(v) \in Lengths
    BY <2>2
  <2> HIDE DEF Lengths, Differ
  <2> QED BY <1>3, <1>4, <1>5, <2>3
<1>6. Agree(f, g, u)
  BY <1>5 DEF Agree
<1>7. f[u] = Conversion(f, u) /\ g[u] = Conversion(g, u)
  BY <1>4 DEF Converts
<1> QED BY <1>4, <1>6, <1>7, SameConversion

LEMMA ConvertsSome ==
  ASSUME NEW n \in Nat
  PROVE  \E f : Converts(f, n)
<1> DEFINE K(k) == \E f : Converts(f, k)
           S == {k \in Nat : K(k)}
<1>1. K(0)
  BY DEF Converts
<1>2. ASSUME NEW k \in Nat, K(k)
      PROVE  K(k + 1)
  <2>1. PICK f : Converts(f, k)
    BY <1>2
  <2> DEFINE g == [text \in Seq(Tokens) |-> IF Len(text) < k THEN f[text]
                                            ELSE Conversion(f, text)]
  <2>2. ASSUME NEW text \in Seq(Tokens), Len(text) < k + 1
        PROVE  g[text] = Conversion(g, text)
    <3>1. g[text] = Conversion(f, text)
      BY <2>1 DEF Converts
    <3>2. \A u \in Seq(Tokens) : Len(u) < Len(text) => g[u] = f[u]
      BY <2>2
    <3> HIDE DEF g
    <3>3. Agree(g, f, text)
      BY <3>2 DEF Agree
    <3> QED BY <3>1, <3>3, SameConversion
  <2> HIDE DEF g
  <2>3. Converts(g, k + 1)
    BY <2>2 DEF Converts
  <2> QED BY <2>3
<1> HIDE DEF K
<1>3. S \in SUBSET Nat /\ 0 \in S /\ \A k \in S : k + 1 \in S
  BY <1>1, <1>2
<1>4. S = Nat
  <2> HIDE DEF S
  <2> QED BY <1>3, SetInduction
<1> QED BY <1>4 DEF K

LEMMA ConversionExists == \E f : f = [text \in Seq(Tokens) |-> Conversion(f, text)]
<1> DEFINE h(n) == CHOOSE f : Converts(f, n)
           F == [text \in Seq(Tokens) |-> h(Len(text) + 1)[text]]
<1>1. \A n \in Nat : Converts(h(n), n)
  BY ConvertsSome
<1> HIDE DEF h
<1>2. ASSUME NEW text \in Seq(Tokens)
      PROVE  F[text] = Conversion(F, text)
  <2> DEFINE f == h(Len(text) + 1)
  <2>1. Len(text) + 1 \in Nat /\ Len(text) < Len(text) + 1
    OBVIOUS
  <2>2. Converts(f, Len(text) + 1)
    BY <1>1, <2>1
  <2>3. ASSUME NEW u \in Seq(Tokens), Len(u) < Len(text)
        PROVE  F[u] = f[u]
    <3> DEFINE g == h(Len(u) + 1)
    <3>1. Len(u) + 1 \in Nat /\ Len(u) < Len(u) + 1 /\ Len(u) + 1 <= Len(text) + 1
      BY <2>3
    <3>2. Converts(g, Len(u) + 1)
      BY <1>1, <3>1
    <3>3. F[u] = g[u]
      OBVIOUS
    <3> HIDE DEF f, g, F
    <3>4. Converts(f, Len(u) + 1)
      BY <2>2, <3>1 DEF Converts
    <3> QED BY <3>1, <3>2, <3>3, <3>4, ConvertsAlike
  <2>4. F[text] = f[text]
    OBVIOUS
  <2> HIDE DEF f, F
  <2>5. f[text] = Conversion(f, text)
    BY <2>1, <2>2 DEF Converts
  <2>6. Agree(F, f, text)
    BY <2>3 DEF Agree
  <2> QED BY <2>4, <2>5, <2>6, SameConversion
<1>3. F = [text \in Seq(Tokens) |-> F[text]]
  OBVIOUS
<1> HIDE DEF F
<1> QED BY <1>2, <1>3

LEMMA TypeToLogicalTypeUnfold ==
  ASSUME NEW text \in Seq(Tokens)
  PROVE  TypeToLogicalType[text] = Conversion(TypeToLogicalType, text)
<1>1. TypeToLogicalType = [u \in Seq(Tokens) |-> Conversion(TypeToLogicalType, u)]
  BY ConversionExists, TypeToLogicalTypeIs
<1> QED BY <1>1

LEMMA HoleOfPart ==
  ASSUME NEW text \in Seq(Tokens), NEW a \in Nat \ {0}, NEW b \in 0..Len(text),
         Hole(SubSeq(text, a, b))
  PROVE  Hole(text)
<1> DEFINE part == SubSeq(text, a, b)
<1>1. /\ Len(part) \in Nat /\ Len(part) <= Len(text)
      /\ \A i \in 1..Len(part) : a + i - 1 \in a..b /\ part[i] = text[a + i - 1]
  BY PartOf
<1>2. PICK i \in 1..(Len(part) - 1) :
        part[i] \in {"map<", "struct<", Comma} /\ part[i + 1] = ">"
  BY DEF Hole
<1> HIDE DEF part
<1>3. i \in 1..Len(part) /\ i + 1 \in 1..Len(part)
  BY <1>1
<1> DEFINE j == a + i - 1
<1>4. text[j] = part[i] /\ text[j + 1] = part[i + 1]
  BY <1>1, <1>3
<1>5. j \in 1..(Len(text) - 1)
  BY <1>1, <1>3
<1> QED BY <1>2, <1>4, <1>5 DEF Hole

LEMMA CombinedOverrun ==
  ASSUME NEW n \in Nat, NEW types, DOMAIN types = 1..n,
         NEW overran, NEW whole, whole # Overrun,
         Combined(types, overran, whole) = Overrun
  PROVE  overran \/ \E i \in 1..n : types[i] = Overrun
<1>1. CASE Failures(types) # {}
  <2> DEFINE F == Failures(types)
  <2>1. F \in SUBSET (1..n)
    BY DEF Failures
  <2> HIDE DEF F
  <2>2. Min(F) \in 1..n
    BY <1>1, <2>1, FirstIn DEF F
  <2>3. types[Min(F)] = Overrun
    BY <1>1 DEF Combined, F
  <2> QED BY <2>2, <2>3
<1>2. CASE Failures(types) = {}
  BY <1>2 DEF Combined
<1> QED BY <1>1, <1>2

LEMMA TypesAreNotOverrun ==
  /\ Integer # Overrun /\ Decimal # Overrun /\ Error # Overrun
  /\ \A t : List(t) # Overrun
  /\ \A types : MapOf(types) # Overrun
  /\ \A names, types : Struct(names, types) # Overrun
  /\ \A text : DecimalOf(text) # Overrun
BY DEF Integer, Decimal, Error, Overrun, List, MapOf, Map, Struct, DecimalOf, Type

\* A hole in a piece of a text, or in the type of a field, is one of the text.
LEMMA HoleOfMember ==
  ASSUME NEW text \in Seq(Tokens), NEW u \in Pieces(text)
  PROVE  /\ Hole(u) => Hole(text)
         /\ Find(u, ":") # 0 /\ Hole(FieldText(u)) => Hole(text)
<1>1. u \in Seq(Tokens)
  BY PieceIs
<1>2. Hole(u) => Hole(text)
  <2>1. PICK a \in 2..Len(text), b \in 1..Len(text) : u = SubSeq(text, a, b)
    BY PieceIs
  <2>2. a \in Nat \ {0} /\ b \in 0..Len(text)
    OBVIOUS
  <2> QED BY <2>1, <2>2, HoleOfPart
<1>3. ASSUME Find(u, ":") # 0, Hole(FieldText(u))
      PROVE  Hole(u)
  <2>1. PICK a \in 2..(Len(u) + 1) : FieldText(u) = SubSeq(u, a, Len(u))
    BY <1>1, <1>3, FieldTextIs
  <2>2. a \in Nat \ {0} /\ Len(u) \in 0..Len(u)
    BY <1>1
  <2> QED BY <1>1, <1>3, <2>1, <2>2, HoleOfPart
<1> QED BY <1>2, <1>3

\* A split that overran: the type ends where a member should begin.
LEMMA HoleOfSplit ==
  ASSUME NEW text \in Seq(Tokens), NEW typeEnd, typeEnd = FindLast(text, ">"), typeEnd # 0,
         text[1] \in {"map<", "struct<"}, Members(text, typeEnd).overran
  PROVE  Hole(text)
<1>1. typeEnd \in 1..Len(text) /\ text[typeEnd] = ">"
  BY FindLastAt
<1>2. typeEnd # 1
  BY <1>1
<1>3. CASE typeEnd = 2
  BY <1>1, <1>3 DEF Hole
<1>4. CASE typeEnd > 2
  <2>1. text[typeEnd - 1] = Comma
    BY <1>1, <1>4, MembersShape
  <2>2. typeEnd - 1 \in 1..(Len(text) - 1) /\ (typeEnd - 1) + 1 = typeEnd
    BY <1>1, <1>4
  <2> QED BY <1>1, <2>1, <2>2 DEF Hole
<1> QED BY <1>1, <1>2, <1>3, <1>4

\* What the conversion of a text comes to, if that of shorter ones overruns only
\* because of a hole.
LEMMA ConversionOverruns ==
  ASSUME NEW text \in Seq(Tokens), NEW f, Conversion(f, text) = Overrun,
         \A u \in Seq(Tokens) : Len(u) < Len(text) /\ f[u] = Overrun => Hole(u)
  PROVE  Hole(text)
<1> DEFINE typeEnd == FindLast(text, ">")
           members == Members(text, typeEnd)
           texts == members.texts
           child == SubSeq(text, 2, typeEnd - 1)
           types == TypesOf(f, texts)
           fields == FieldsOf(f, texts)
           map == IF Len(types) = 2 THEN MapOf(types) ELSE Error
           struct == Struct(NamesOf(texts), fields)
<1>1. \/ Starts(text, "array<") /\ typeEnd # 0 /\ Combined(<<f[child]>>, FALSE, List(f[child])) = Overrun
      \/ Starts(text, "map<") /\ typeEnd # 0 /\ Combined(types, members.overran, map) = Overrun
      \/ Starts(text, "struct<") /\ typeEnd # 0
         /\ Combined(fields, members.overran, struct) = Overrun
  <2>1. Overrun =
          CASE text = <<"int">> -> Integer
            [] Starts(text, "decimal(") /\ Find(text, ")") # 0 -> DecimalOf(text)
            [] Starts(text, "array<") /\ typeEnd # 0 ->
                 Combined(<<f[child]>>, FALSE, List(f[child]))
            [] Starts(text, "map<") /\ typeEnd # 0 -> Combined(types, members.overran, map)
            [] Starts(text, "struct<") /\ typeEnd # 0 ->
                 Combined(fields, members.overran, struct)
            [] OTHER -> Error
    BY Zenon DEF Conversion
  <2> HIDE DEF typeEnd, members, texts, types, fields, map, struct, child
  <2> QED BY <2>1, TypesAreNotOverrun
<1>2. ASSUME typeEnd # 0
      PROVE  typeEnd \in 1..Len(text) /\ texts \in Seq(Pieces(text))
  BY <1>2, FindLastAt, MembersShape
<1>3. CASE Starts(text, "array<") /\ typeEnd # 0 /\ Combined(<<f[child]>>, FALSE, List(f[child])) = Overrun
  <2>1. f[child] = Overrun
    <3> DEFINE one == <<f[child]>>
    <3>1. 1 \in Nat /\ DOMAIN one = 1..1 /\ one[1] = f[child]
      OBVIOUS
    <3>2. List(f[child]) # Overrun
      BY TypesAreNotOverrun
    <3>3. Combined(one, FALSE, List(f[child])) = Overrun
      BY <1>3
    <3> HIDE DEF one, child
    <3>4. FALSE \/ \E i \in 1..1 : one[i] = Overrun
      BY <3>1, <3>2, <3>3, CombinedOverrun
    <3> QED BY <3>1, <3>4
  <2>2. 2 \in Nat \ {0} /\ typeEnd - 1 \in 0..Len(text) /\ typeEnd - 1 < Len(text)
    BY <1>2, <1>3
  <2> HIDE DEF typeEnd
  <2>3. child \in Seq(Tokens) /\ Len(child) < Len(text)
    BY <2>2, PartOf
  <2>4. Hole(child)
    <3> HIDE DEF child
    <3> QED BY <2>1, <2>3
  <2> QED BY <2>2, <2>4, HoleOfPart
<1>4. CASE Starts(text, "map<") /\ typeEnd # 0 /\ Combined(types, members.overran, map) = Overrun
  <2> DEFINE n == Len(texts)
  <2>1. n \in Nat /\ DOMAIN types = 1..n /\ \A i \in 1..n : types[i] = f[texts[i]] /\ texts[i] \in Pieces(text)
    <3> HIDE DEF texts
    <3> QED BY <1>2, <1>4 DEF TypesOf
  <2>2. map # Overrun
    BY TypesAreNotOverrun
  <2> HIDE DEF types, map, members, n, texts
  <2>3. members.overran \/ \E i \in 1..n : types[i] = Overrun
    BY <1>4, <2>1, <2>2, CombinedOverrun
  <2>4. CASE members.overran
    BY <1>2, <1>4, <2>4, HoleOfSplit DEF members, Starts
  <2>5. CASE \E i \in 1..n : types[i] = Overrun
    <3>1. PICK u \in Pieces(text) : f[u] = Overrun
      BY <2>1, <2>5
    <3>2. u \in Seq(Tokens) /\ Len(u) < Len(text)
      BY PieceIs
    <3> QED BY <3>1, <3>2, HoleOfMember
  <2> QED BY <2>3, <2>4, <2>5
<1>5. CASE Starts(text, "struct<") /\ typeEnd # 0
           /\ Combined(fields, members.overran, struct) = Overrun
  <2> DEFINE n == Len(texts)
  <2>1. /\ n \in Nat /\ DOMAIN fields = 1..n
        /\ \A i \in 1..n : /\ texts[i] \in Pieces(text)
                            /\ fields[i] = IF Find(texts[i], ":") = 0 THEN Error
                                           ELSE f[FieldText(texts[i])]
    <3> HIDE DEF texts
    <3> QED BY <1>2, <1>5 DEF FieldsOf
  <2>2. struct # Overrun
    BY TypesAreNotOverrun
  <2> HIDE DEF fields, struct, members, n, texts
  <2>3. members.overran \/ \E i \in 1..n : fields[i] = Overrun
    BY <1>5, <2>1, <2>2, CombinedOverrun
  <2>4. CASE members.overran
    BY <1>2, <1>5, <2>4, HoleOfSplit DEF members, Starts
  <2>5. CASE \E i \in 1..n : fields[i] = Overrun
    <3>1. PICK u \in Pieces(text) : Find(u, ":") # 0 /\ f[FieldText(u)] = Overrun
      BY <2>1, <2>5, TypesAreNotOverrun
    <3>2. u \in Seq(Tokens) /\ Len(u) < Len(text)
      BY PieceIs
    <3>3. FieldText(u) \in Seq(Tokens) /\ Len(FieldText(u)) <= Len(u)
      BY <3>1, <3>2, FieldTextIs
    <3>4. Hole(FieldText(u))
      BY <3>1, <3>2, <3>3
    <3> QED BY <3>1, <3>4, HoleOfMember
  <2> QED BY <2>3, <2>4, <2>5
<1> HIDE DEF typeEnd, members, texts, types, fields, map, struct, child
<1> QED BY <1>1, <1>3, <1>4, <1>5

\* Whatever the text, the conversion reads beyond its end only where a member is
\* missing: after the opener of a map or a struct, or after a comma, comes a '>'.
THEOREM OverrunsNeedHoles ==
  \A text \in Seq(Tokens) : TypeToLogicalType[text] = Overrun => Hole(text)
<1> DEFINE Bad(u) == u \in Seq(Tokens) /\ TypeToLogicalType[u] = Overrun /\ ~Hole(u)
           Lengths == {n \in Nat : \E u : Bad(u) /\ n = Len(u)}
<1>1. SUFFICES ASSUME NEW text, Bad(text)
               PROVE  FALSE
  OBVIOUS
<1>2. Lengths \in SUBSET Nat /\ Lengths # {}
  BY <1>1
<1>3. PICK n \in Lengths : \A m \in Lengths : n <= m
  <2> HIDE DEF Lengths
  <2> QED BY <1>2, Least
<1>4. PICK u : Bad(u) /\ n = Len(u)
  BY <1>3
<1>5. ASSUME NEW v \in Seq(Tokens), Len(v) < Len(u), TypeToLogicalType[v] = Overrun
      PROVE  Hole(v)
  <2>1. SUFFICES ASSUME Bad(v) PROVE FALSE
    BY <1>5
  <2>2. Len(v) \in Lengths
    BY <2>1
  <2> HIDE DEF Lengths, Bad
  <2> QED BY <1>3, <1>4, <1>5, <2>2
<1>6. u \in Seq(Tokens) /\ Conversion(TypeToLogicalType, u) = Overrun /\ ~Hole(u)
  BY <1>4, TypeToLogicalTypeUnfold
<1> QED BY <1>5, <1>6, ConversionOverruns

=============================================================================
