---------------------------- MODULE UCQueryProofs ----------------------------
(***************************************************************************)
(* Theorems about UCQuery and UCAttach, for any number of connections,     *)
(* catalogs, statements and secrets.  All operations of a statement have   *)
(* one shape (OperationShape): they leave the sets alone, and end the      *)
(* statement or give it pointers to entries that are there.                *)
(***************************************************************************)
EXTENDS UCQuery, SequenceTheorems, TLAPS

CatalogSets == [schemas: [Schemas -> Nat], tables: [Schemas -> [Tables -> Nat]]]
Pointers == [schema: Schemas \cup {NoName}, schemaAt: Nat,
             table: Tables \cup {NoName}, tableAt: Nat]
Things == [schema: Schemas, table: Tables \cup {NoName}]
Listings == [schema: Schemas \cup {NoName}, at: Nat]

\* The pointers are to entries of catalog k that exist.
Point(k, p) ==
    /\ p.schema # NoName => p.schemaAt # 0 /\ sets[k].schemas[p.schema] = p.schemaAt
    /\ p.table # NoName => /\ p.schema # NoName /\ p.tableAt # 0
                           /\ sets[k].tables[p.schema][p.table] = p.tableAt

\* The things are entries of catalog k that exist.
Exist(k, shown) ==
    \A x \in shown : IF x.table = NoName THEN sets[k].schemas[x.schema] # 0
                     ELSE sets[k].tables[x.schema][x.table] # 0

\* A statement's pointers were to entries that existed when it got them, and
\* the listing it inserts has arrived.
HeldOK ==
    \A c \in Connections :
        /\ using[c] = 0 => held[c] = NoPointers /\ loads[c] = NoLoad
        /\ loads[c] # NoLoad => loads[c].at # 0 /\ loads[c].schema \in {NoName, held[c].schema}
        /\ held[c].schema # NoName => held[c].schemaAt # 0
        /\ held[c].table # NoName => held[c].schema # NoName /\ held[c].tableAt # 0

ListedOK == \A k \in DOMAIN listed : Exist(k, listed[k])

\* A secret holds the values it was created with.
OneValue(secret) == \E v \in 1..created : \A p \in Parameters : secret[p] \in {0, v}

SecretsOK ==
    \A storage \in Storages, name \in SecretNames :
        secrets[storage][name] # NoSecret => OneValue(secrets[storage][name])
-----------------------------------------------------------------------------
(* Types.                                                                  *)

LEMMA NothingLoadedTyped == NothingLoaded \in CatalogSets
BY DEF NothingLoaded, CatalogSets

LEMMA NoPointersTyped == NoPointers \in Pointers
BY DEF NoPointers, Pointers

LEMMA NoLoadTyped == NoLoad \in Listings
BY DEF NoLoad, Listings

LEMMA SetsTyped ==
    TypeOK => /\ sets \in Seq(CatalogSets) /\ held \in [Connections -> Pointers]
              /\ listed \in Seq(SUBSET Things)
              /\ Len(sets) = Len(catalogs) /\ Len(listed) = Len(catalogs)
              /\ using \in [Connections -> 0..Len(sets)]
              /\ loads \in [Connections -> Listings]
BY DEF TypeOK, CatalogSets, Pointers, Things, Listings

\* What an operation of a statement may do.
Gives(c, p, shown) ==
    /\ p \in Pointers /\ Point(using[c], p)
    /\ shown \in SUBSET Things /\ Exist(using[c], shown)
    /\ \E how \in {"found", "missing"} : Return(c, how, p, shown)

Shape(c) ==
    /\ using[c] # 0 /\ Unchanged
    /\ \/ \E how \in {"none", "missing", "error", "refused"} : Throw(c, how)
       \/ \E p, shown : Gives(c, p, shown)

LEMMA HeldPoint ==
    ASSUME TypeOK, HeldOK, NEW c \in Connections, OnSchema(c) \/ AtTables(c)
    PROVE  /\ using[c] # 0 /\ held[c].schema \in Schemas /\ held[c] \in Pointers /\ Point(using[c], held[c])
           /\ using[c] \in 1..Len(sets) /\ sets[using[c]] \in CatalogSets
<1>1. using[c] # 0 /\ held[c].schema # NoName /\ Valid(c)
  BY DEF OnSchema, OnCatalog, AtTables
<1> QED
  BY <1>1, SetsTyped DEF HeldOK, Valid, InSets, Point, Pointers

LEMMA SchemaPoint ==
    ASSUME TypeOK, NEW k \in 1..Len(sets), NEW s \in Schemas, sets[k].schemas[s] # 0
    PROVE  ToSchema(k, s) \in Pointers /\ Point(k, ToSchema(k, s))
<1>1. sets[k] \in CatalogSets
  BY SetsTyped
<1> QED
  BY <1>1, QueryNamesAssumption DEF ToSchema, NoPointers, Pointers, Point, CatalogSets

LEMMA NoPoint == ASSUME NEW k PROVE NoPointers \in Pointers /\ Point(k, NoPointers)
BY NoPointersTyped DEF NoPointers, Point

LEMMA NoneShown == ASSUME NEW k PROVE {} \in SUBSET Things /\ Exist(k, {})
BY DEF Exist

LEMMA ReturnEntryGives ==
    ASSUME TypeOK, HeldOK, NEW c \in Connections, AtTables(c), NEW n \in Tables,
           ReturnEntry(c, n)
    PROVE  \E p, shown : Gives(c, p, shown)
<1>1. /\ held[c] \in Pointers /\ Point(using[c], held[c]) /\ sets[using[c]] \in CatalogSets
      /\ held[c].schema \in Schemas
  BY HeldPoint
<1>2. CASE TableAt(c, n) # 0
  <2>1. TableAt(c, n) = sets[using[c]].tables[held[c].schema][n] /\ TableAt(c, n) \in Nat
    BY <1>1 DEF TableAt, CatalogSets
  <2>2. ToTable(c, n) \in Pointers
    BY <1>1, <2>1 DEF ToTable, Pointers
  <2>3. /\ ToTable(c, n).schema = held[c].schema /\ ToTable(c, n).schemaAt = held[c].schemaAt
        /\ ToTable(c, n).table = n /\ ToTable(c, n).tableAt = TableAt(c, n)
    BY <1>1 DEF ToTable, Pointers
  <2>4. Point(using[c], ToTable(c, n))
    BY <1>1, <1>2, <2>1, <2>3, QueryNamesAssumption DEF Point
  <2>5. Return(c, "found", ToTable(c, n), {})
    BY <1>2 DEF ReturnEntry
  <2> QED
    BY <2>2, <2>4, <2>5, NoneShown DEF Gives
<1>3. CASE TableAt(c, n) = 0
  BY <1>1, <1>3, NoneShown DEF ReturnEntry, Gives
<1> QED
  BY <1>2, <1>3

LEMMA OperationShape ==
    ASSUME TypeOK, HeldOK, NEW c \in Connections, Operation(c) \/ End(c)
    PROVE  Shape(c)
<1>1. ASSUME NEW s \in Schemas, NEW returnNull \in BOOLEAN, GetSchema(c, s, returnNull)
      PROVE  Shape(c)
  <2>1. using[c] # 0 /\ Unchanged /\ using[c] \in 1..Len(sets)
    BY <1>1, SetsTyped DEF GetSchema, OnCatalog, AtSchemas
  <2>2. CASE \E how \in {"none", "missing", "error", "refused"} : Throw(c, how)
    BY <2>1, <2>2 DEF Shape
  <2>3. CASE sets[using[c]].schemas[s] # 0 /\ Return(c, "found", ToSchema(using[c], s), {})
    BY <2>1, <2>3, SchemaPoint, NoneShown DEF Shape, Gives
  <2>4. CASE Return(c, "missing", NoPointers, {})
    BY <2>1, <2>4, NoPoint, NoneShown DEF Shape, Gives
  <2> QED
    BY <1>1, <2>2, <2>3, <2>4 DEF GetSchema
<1>2. ASSUME ScanSchemas(c) PROVE Shape(c)
  <2> DEFINE k == using[c]
             present == {s \in Schemas : sets[k].schemas[s] # 0}
             shown == {Shown(x, NoName) : x \in present}
  <2>1. using[c] # 0 /\ Unchanged /\ k \in 1..Len(sets)
    BY <1>2, SetsTyped DEF ScanSchemas, AtSchemas
  <2>2. shown \in SUBSET Things /\ Exist(k, shown)
    BY DEF Things, Exist, Shown
  <2>3. CASE Throw(c, "error")
    BY <2>1, <2>3 DEF Shape
  <2>4. ASSUME NEW s \in present, Return(c, "found", ToSchema(k, s), shown) PROVE Shape(c)
    <3>1. ToSchema(k, s) \in Pointers /\ Point(k, ToSchema(k, s))
      BY <2>1, SchemaPoint
    <3> QED
      BY <2>1, <2>2, <2>4, <3>1 DEF Shape, Gives
  <2>5. CASE Return(c, "found", NoPointers, {})
    BY <2>1, <2>5, NoPoint, NoneShown DEF Shape, Gives
  <2> QED
    BY <1>2, <2>3, <2>4, <2>5 DEF ScanSchemas
<1>3. ASSUME NEW s \in Schemas, DropSchema(c, s) PROVE Shape(c)
  BY <1>3 DEF DropSchema, OnCatalog, Shape
<1>4. ASSUME CreateSchema(c) \/ PlanWrite(c) \/ GetDatabaseSize(c) PROVE Shape(c)
  BY <1>4 DEF CreateSchema, PlanWrite, GetDatabaseSize, OnCatalog, Shape
<1>5. ASSUME NEW type \in Types, NEW n \in Tables, GetEntry(c, type, n) PROVE Shape(c)
  <2>1. /\ OnSchema(c) \/ AtTables(c)
        /\ using[c] # 0 /\ Unchanged /\ held[c] \in Pointers /\ Point(using[c], held[c])
    BY <1>5, HeldPoint DEF GetEntry
  <2>2. CASE Return(c, "missing", held[c], {})
    BY <2>1, <2>2, NoneShown DEF Shape, Gives
  <2>3. CASE \E how \in {"none", "missing", "error", "refused"} : Throw(c, how)
    BY <2>1, <2>3 DEF Shape
  <2>4. CASE AtTables(c) /\ ReturnEntry(c, n)
    BY <2>1, <2>4, ReturnEntryGives DEF Shape
  <2> QED
    BY <1>5, <2>2, <2>3, <2>4 DEF GetEntry
<1>6. ASSUME NEW type \in Types, NEW n \in Tables, DropEntry(c, type, n) PROVE Shape(c)
  BY <1>6 DEF DropEntry, OnSchema, OnCatalog, Shape
<1>7. ASSUME NEW type \in Types, Scan(c, type) PROVE Shape(c)
  <2> DEFINE s == held[c].schema
             shown == {Shown(s, n) : n \in {m \in Tables : TableAt(c, m) # 0}}
  <2>1. /\ using[c] # 0 /\ Unchanged /\ held[c] \in Pointers /\ Point(using[c], held[c])
        /\ s \in Schemas
    BY <1>7, HeldPoint DEF Scan
  <2>2. shown \in SUBSET Things /\ Exist(using[c], shown)
    <3>2. ASSUME NEW x \in shown
          PROVE  /\ x \in Things /\ x.table # NoName
                 /\ sets[using[c]].tables[x.schema][x.table] # 0
      <4>1. PICK n \in Tables : TableAt(c, n) # 0 /\ x = Shown(s, n)
        OBVIOUS
      <4>2. x.schema = s /\ x.table = n
        BY <4>1 DEF Shown
      <4> QED
        BY <2>1, <4>1, <4>2, QueryNamesAssumption DEF Things, Shown, TableAt
    <3> HIDE DEF shown
    <3> QED
      BY <3>2 DEF Exist
  <2>3. CASE Return(c, "found", held[c], {})
    BY <2>1, <2>3, NoneShown DEF Shape, Gives
  <2>4. CASE \E how \in {"none", "missing", "error", "refused"} : Throw(c, how)
    BY <2>1, <2>4 DEF Shape
  <2>5. CASE Return(c, "found", held[c], shown)
    BY <2>1, <2>2, <2>5 DEF Shape, Gives
  <2> QED
    BY <1>7, <2>3, <2>4, <2>5 DEF Scan
<1>8. ASSUME NEW n \in Tables, NEW policy \in Policies, NEW sqlEmpty \in BOOLEAN,
             CreateView(c, n, policy, sqlEmpty)
      PROVE  Shape(c)
  <2>1. using[c] # 0 /\ Unchanged
    BY <1>8 DEF CreateView, OnSchema, OnCatalog, AtTables
  <2> QED
    BY <1>8, <2>1, ReturnEntryGives DEF CreateView, Shape
<1>9. ASSUME CreateTable(c) \/ CreateFunction(c) \/ CreateIndex(c) \/ CreateOther(c) \/ Alter(c)
      PROVE  Shape(c)
  BY <1>9 DEF CreateTable, CreateFunction, CreateIndex, CreateOther, Alter, OnSchema, OnCatalog, Shape
<1>10. ASSUME End(c) PROVE Shape(c)
  BY <1>10 DEF End, OnCatalog, Shape
<1> QED
  BY <1>1, <1>2, <1>3, <1>4, <1>5, <1>6, <1>7, <1>8, <1>9, <1>10 DEF Operation
-----------------------------------------------------------------------------
(* Steps.                                                                  *)

\* Every step other than an operation changes one part of the state.
LEMMA NextCases ==
    ASSUME Next
    PROVE  \/ Administer
           \/ \E c \in Connections :
                \/ \E a \in Aliases : Begin(c, a)
                \/ FetchSchemas(c) \/ FetchTables(c) \/ CreateEntry(c)
                \/ Operation(c) \/ End(c)
                \/ UseAfterFree(c) \/ ClearUCCaches(c) \/ VisitDatabase(c)
BY DEF Next

\* ATTACH adds one catalog, which is attached under one name.
LEMMA AttachTyped ==
    ASSUME AttachTypeOK, NEW a \in Aliases, NEW options, NEW text \in SecretNames \cup {NoName},
           UCCatalogAttach(a, options, text)
    PROVE  AttachTypeOK' /\ Len(catalogs') = Len(catalogs) + 1
<1> DEFINE secret == GetSecret(SecretName(options, text))
           credentials == IF secret = NoSecret THEN NoCredentials ELSE CredentialsOf(secret)
           object == [credentials |-> credentials, secret |-> secret]
           Objects == [credentials: Credentials, secret: Secrets \cup {NoSecret}]
<1>1. SecretName(options, text) \in SecretNames
  BY NamesAssumption DEF SecretName, Explicit
<1>2. secret \in Secrets \cup {NoSecret}
  BY <1>1 DEF GetSecret, AttachTypeOK, Storages
<1>3. credentials \in Credentials
  <2>1. CASE secret = NoSecret
    BY <2>1 DEF NoCredentials, Credentials
  <2>2. CASE secret # NoSecret
    <3>1. \A p \in Parameters : secret[p] \in Nat
      BY <1>2, <2>2 DEF Secrets
    <3>2. \A p \in Parameters : OrEmpty(secret[p]) \in Nat \cup {NullText}
                              /\ TextOf(secret[p]) \in Nat \cup {NullText}
      BY <3>1 DEF OrEmpty, TextOf
    <3>3. CredentialsOf(secret) \in Credentials
      BY <3>2 DEF CredentialsOf, Credentials, Parameters
    <3> QED
      BY <2>2, <3>3
  <2> QED
    BY <2>1, <2>2
<1>4. object \in Objects
  BY <1>2, <1>3
<1>5. catalogs' = Append(catalogs, object) /\ catalogs \in Seq(Objects)
  BY DEF UCCatalogAttach, AttachTypeOK
<1>6. catalogs' \in Seq(Objects) /\ Len(catalogs') = Len(catalogs) + 1
  BY <1>4, <1>5, AppendProperties
<1>7. attached' \in [Aliases -> 0..Len(catalogs')]
  BY <1>5, <1>6, LenProperties DEF UCCatalogAttach, AttachTypeOK
<1> QED
  BY <1>6, <1>7 DEF UCCatalogAttach, AttachTypeOK

LEMMA SecretsTyped ==
    ASSUME AttachTypeOK, ChangeSecrets \/ \E a \in Aliases : Detach(a)
    PROVE  AttachTypeOK' /\ catalogs' = catalogs
<1>1. ASSUME NEW a \in Aliases, Detach(a) PROVE AttachTypeOK' /\ catalogs' = catalogs
  BY <1>1 DEF AttachTypeOK, Detach
<1>2. ASSUME NEW storage \in Storages, NEW name \in SecretNames, NEW given \in Shapes,
             CreateSecret(storage, name, given)
      PROVE  AttachTypeOK' /\ catalogs' = catalogs
  <2>1. CreateUCSecretFunction(given) \in Secrets
    BY DEF CreateUCSecretFunction, Secrets, AttachTypeOK
  <2> QED
    BY <1>2, <2>1 DEF AttachTypeOK, CreateSecret
<1>3. ASSUME NEW storage \in Storages, NEW name \in SecretNames, DropSecret(storage, name)
      PROVE  AttachTypeOK' /\ catalogs' = catalogs
  BY <1>3 DEF AttachTypeOK, DropSecret
<1> QED
  BY <1>1, <1>2, <1>3 DEF ChangeSecrets
-----------------------------------------------------------------------------
BaseInv == TypeOK /\ HeldOK

\* What TypeOK says of a step that leaves the number of catalogs alone.
LEMMA StatementTyped ==
    ASSUME TypeOK, HeldOK, NEW c \in Connections, Shape(c)
    PROVE  TypeOK' /\ HeldOK'
<1>1. UNCHANGED <<attachVars, sets, left, statements, crashed, clock, mark, overtook>>
  BY DEF Shape, Unchanged
<1>2. using[c] \in 1..Len(sets)
  BY SetsTyped DEF Shape
<1>3. CASE \E how \in {"none", "missing", "error", "refused"} : Throw(c, how)
  <2>1. UNCHANGED listed
    BY <1>3 DEF Throw
  <2>2. /\ using' = [using EXCEPT ![c] = 0]
        /\ held' = [held EXCEPT ![c] = NoPointers]
        /\ freed' = [freed EXCEPT ![c] = FALSE] /\ loads' = [loads EXCEPT ![c] = NoLoad]
        /\ missing' \in BOOLEAN
    BY <1>3 DEF Throw, Finish
  <2>3. held' \in [Connections -> Pointers] /\ loads' \in [Connections -> Listings]
    BY <2>2, SetsTyped, NoPointersTyped, NoLoadTyped
  <2>4. TypeOK'
    BY <1>1, <2>1, <2>2, <2>3 DEF TypeOK, AttachTypeOK, attachVars, Pointers, Listings
  <2>5. HeldOK'
    <3> SUFFICES ASSUME NEW u \in Connections
                 PROVE  /\ using'[u] = 0 => held'[u] = NoPointers /\ loads'[u] = NoLoad
                        /\ loads'[u] # NoLoad => /\ loads'[u].at # 0
                                                 /\ loads'[u].schema \in {NoName, held'[u].schema}
                        /\ held'[u].schema # NoName => held'[u].schemaAt # 0
                        /\ held'[u].table # NoName =>
                             held'[u].schema # NoName /\ held'[u].tableAt # 0
      BY DEF HeldOK
    <3>1. CASE u = c
      <4>1. held'[u] = NoPointers /\ loads'[u] = NoLoad
        BY <2>2, <3>1, SetsTyped
      <4> QED
        BY <4>1 DEF NoPointers
    <3>2. CASE u # c
      <4>1. using'[u] = using[u] /\ held'[u] = held[u] /\ loads'[u] = loads[u]
        BY <2>2, <3>2, SetsTyped
      <4> QED
        BY <4>1 DEF HeldOK
    <3> QED
      BY <3>1, <3>2
  <2> QED
    BY <2>4, <2>5
<1>4. ASSUME NEW p, NEW shown, Gives(c, p, shown) PROVE TypeOK' /\ HeldOK'
  <2>1. /\ p \in Pointers /\ shown \in SUBSET Things /\ Point(using[c], p)
        /\ held' = [held EXCEPT ![c] = p] /\ using' = using
        /\ listed' = [listed EXCEPT ![using[c]] = @ \cup shown]
        /\ freed' = [freed EXCEPT ![c] = FALSE] /\ loads' = [loads EXCEPT ![c] = NoLoad]
        /\ missing' \in BOOLEAN
    BY <1>4 DEF Gives, Return
  <2>2. held' \in [Connections -> Pointers] /\ loads' \in [Connections -> Listings]
    BY <2>1, SetsTyped, NoLoadTyped
  <2>3. listed' \in Seq(SUBSET Things) /\ Len(listed') = Len(listed)
    BY <1>2, <2>1, SetsTyped, ExceptSeq
  <2>4. TypeOK'
    BY <1>1, <2>1, <2>2, <2>3 DEF TypeOK, AttachTypeOK, attachVars, Pointers, Things, Listings
  <2>5. HeldOK'
    <3> SUFFICES ASSUME NEW u \in Connections
                 PROVE  /\ using'[u] = 0 => held'[u] = NoPointers /\ loads'[u] = NoLoad
                        /\ loads'[u] # NoLoad => /\ loads'[u].at # 0
                                                 /\ loads'[u].schema \in {NoName, held'[u].schema}
                        /\ held'[u].schema # NoName => held'[u].schemaAt # 0
                        /\ held'[u].table # NoName =>
                             held'[u].schema # NoName /\ held'[u].tableAt # 0
      BY DEF HeldOK
    <3>1. CASE u = c
      <4>1. using'[u] # 0 /\ held'[u] = p /\ loads'[u] = NoLoad
        BY <1>2, <2>1, <3>1, SetsTyped
      <4> QED
        BY <2>1, <4>1 DEF Point
    <3>2. CASE u # c
      <4>1. using'[u] = using[u] /\ held'[u] = held[u] /\ loads'[u] = loads[u]
        BY <2>1, <3>2, SetsTyped
      <4> QED
        BY <4>1 DEF HeldOK
    <3> QED
      BY <3>1, <3>2
  <2> QED
    BY <2>4, <2>5
<1> QED
  BY <1>3, <1>4 DEF Shape

LEMMA BaseInit == Init => BaseInv
<1> SUFFICES ASSUME Init PROVE BaseInv
  OBVIOUS
<1>1. AttachTypeOK
  BY ValuesAssumption DEF Init, AttachInit, AttachTypeOK
<1>2. held \in [Connections -> Pointers]
  BY NoPointersTyped DEF Init
<1>3. sets \in Seq(CatalogSets) /\ listed \in Seq(SUBSET Things)
      /\ Len(sets) = 0 /\ Len(listed) = 0 /\ Len(catalogs) = 0
  BY EmptySeq DEF Init, AttachInit
<1>4. loads \in [Connections -> Listings] /\ overtook \in [Connections -> SUBSET (1..Len(sets))]
  BY NoLoadTyped DEF Init
<1>5. left \in [Connections -> SUBSET ((1..Len(sets)) \cup OtherDatabases)]
  BY DEF Init
<1>6. using \in [Connections -> {0}] /\ mark \in [Connections -> {0}] /\ clock = 0
  BY DEF Init
<1>7. statements \in Nat /\ crashed \in BOOLEAN /\ missing \in BOOLEAN /\ freed \in [Connections -> BOOLEAN]
  BY DEF Init
<1>8. TypeOK
  BY <1>1, <1>2, <1>3, <1>4, <1>5, <1>6, <1>7
  DEF TypeOK, Pointers, CatalogSets, Things, Listings
<1>9. HeldOK
  BY DEF Init, HeldOK, NoPointers
<1> QED
  BY <1>8, <1>9 DEF BaseInv

LEMMA SetsGrow ==
    ASSUME BaseInv, AttachTypeOK',
           sets' \in Seq(CatalogSets), listed' \in Seq(SUBSET Things),
           Len(sets) \in Nat, Len(sets') = Len(sets) + 1, Len(catalogs') = Len(catalogs) + 1,
           Len(listed') = Len(listed) + 1,
           UNCHANGED <<callVars, crashed, clock, mark, overtook>>, statements' \in Nat,
           missing' \in BOOLEAN
    PROVE  BaseInv'
<1>1. UNCHANGED <<using, held, freed, loads, left>>
  BY DEF callVars
<1>2. \A i : i \in 0..Len(sets) => i \in 0..Len(sets')
  OBVIOUS
<1>3. using' \in [Connections -> 0..Len(sets')]
  BY <1>1, <1>2 DEF BaseInv, TypeOK
<1>4. /\ left' \in [Connections -> SUBSET ((1..Len(sets')) \cup OtherDatabases)]
      /\ overtook' \in [Connections -> SUBSET (1..Len(sets'))]
  <2> DEFINE before == 1..Len(sets)
             after == 1..Len(sets')
  <2>1. before \subseteq after
    OBVIOUS
  <2>2. /\ left \in [Connections -> SUBSET (before \cup OtherDatabases)]
        /\ overtook \in [Connections -> SUBSET before]
    BY DEF BaseInv, TypeOK
  <2> HIDE DEF before, after
  <2>3. /\ left \in [Connections -> SUBSET (after \cup OtherDatabases)]
        /\ overtook \in [Connections -> SUBSET after]
    BY <2>1, <2>2
  <2> QED
    BY <1>1, <2>3 DEF after
<1>5. Len(sets') = Len(catalogs') /\ Len(listed') = Len(catalogs')
  BY DEF BaseInv, TypeOK
<1>6. TypeOK'
  BY <1>1, <1>3, <1>4, <1>5 DEF BaseInv, TypeOK, CatalogSets, Things
<1>7. HeldOK'
  BY <1>1 DEF BaseInv, HeldOK
<1> QED
  BY <1>6, <1>7 DEF BaseInv

LEMMA BaseStep == BaseInv /\ [Next]_vars => BaseInv'
<1> SUFFICES ASSUME BaseInv, [Next]_vars PROVE BaseInv'
  OBVIOUS
<1> USE DEF BaseInv
<1>1. CASE UNCHANGED vars
  BY <1>1 DEF vars, attachVars, callVars, historyVars, TypeOK, AttachTypeOK, HeldOK
<1>2. CASE Administer
  <2>0. UNCHANGED <<callVars, crashed, clock, mark, overtook>> /\ missing' \in BOOLEAN
    BY <1>2 DEF Administer
  <2>1. statements' \in Nat
    BY <1>2 DEF Administer, BeginStatement, TypeOK
  <2>2. CASE (ChangeSecrets \/ \E a \in Aliases : Detach(a)) /\ UNCHANGED <<sets, listed>>
    <3>1. AttachTypeOK' /\ catalogs' = catalogs
      BY <2>2, SecretsTyped DEF TypeOK
    <3> QED
      BY <2>0, <2>1, <2>2, <3>1 DEF TypeOK, HeldOK, callVars
  <2>3. ASSUME NEW a \in Aliases, NEW options, NEW text \in SecretNames \cup {NoName},
               UCCatalogAttach(a, options, text),
               sets' = Append(sets, NothingLoaded), listed' = Append(listed, {})
        PROVE  BaseInv'
    <3>1. AttachTypeOK' /\ Len(catalogs') = Len(catalogs) + 1
      BY <2>3, AttachTyped DEF TypeOK
    <3>2. sets' \in Seq(CatalogSets) /\ Len(sets') = Len(sets) + 1
      BY <2>3, SetsTyped, NothingLoadedTyped, AppendProperties
    <3>3. listed' \in Seq(SUBSET Things) /\ Len(listed') = Len(listed) + 1
      BY <2>3, SetsTyped, AppendProperties
    <3>4. Len(sets) \in Nat
      BY SetsTyped, LenProperties
    <3> QED
      BY <2>0, <2>1, <3>1, <3>2, <3>3, <3>4, SetsGrow
  <2> QED
    BY <1>2, <2>2, <2>3 DEF Administer
<1>3. ASSUME NEW c \in Connections, CreateEntry(c) PROVE BaseInv'
  <2> DEFINE k == using[c]
             load == loads[c]
  <2>1. UNCHANGED <<attachVars, callVars, statements, crashed, historyVars>> /\ missing' \in BOOLEAN
    BY <1>3 DEF CreateEntry
  <2>2. /\ sets \in Seq(CatalogSets) /\ k \in 1..Len(sets) /\ sets[k] \in CatalogSets
        /\ load \in Listings /\ load.at \in Nat
    <3>1. k # 0
      BY <1>3 DEF CreateEntry, AtSchemas, AtTables
    <3>2. sets \in Seq(CatalogSets) /\ k \in 1..Len(sets) /\ sets[k] \in CatalogSets
      BY <3>1, SetsTyped
    <3>3. load \in Listings
      BY SetsTyped
    <3>4. load.at \in Nat
      BY <3>3 DEF Listings
    <3> QED
      BY <3>2, <3>3, <3>4
  <2>3. \E x \in CatalogSets : sets' = [sets EXCEPT ![k] = x]
    <3>1. ASSUME NEW s \in Schemas, sets' = [sets EXCEPT ![k].schemas[s] = load.at]
          PROVE  \E x \in CatalogSets : sets' = [sets EXCEPT ![k] = x]
      <4>1. [sets[k] EXCEPT !.schemas[s] = load.at] \in CatalogSets
        BY <2>2 DEF CatalogSets
      <4> QED
        BY <2>2, <3>1, <4>1
    <3>2. ASSUME NEW n \in Tables, AtTables(c),
                 sets' = [sets EXCEPT ![k].tables[load.schema][n] = load.at]
          PROVE  \E x \in CatalogSets : sets' = [sets EXCEPT ![k] = x]
      <4>1. load.schema \in Schemas
        BY <1>3, <2>2, <3>2 DEF CreateEntry, AtTables, Listings
      <4>2. [sets[k] EXCEPT !.tables[load.schema][n] = load.at] \in CatalogSets
        BY <2>2, <4>1 DEF CatalogSets
      <4> QED
        BY <2>2, <3>2, <4>2
    <3> QED
      BY <1>3, <3>1, <3>2 DEF CreateEntry
  <2>4. sets' \in Seq(CatalogSets) /\ Len(sets') = Len(sets)
    BY <2>2, <2>3, ExceptSeq
  <2> QED
    BY <2>1, <2>4 DEF TypeOK, AttachTypeOK, HeldOK, CatalogSets, attachVars, callVars, historyVars
<1>4. ASSUME NEW c \in Connections, NEW a \in Aliases, Begin(c, a) PROVE BaseInv'
  <2>1. attached[a] \in 1..Len(sets)
    BY <1>4 DEF Begin, TypeOK, AttachTypeOK
  <2>2. /\ UNCHANGED <<attachVars, sets, held, freed, loads, left, crashed, historyVars>>
        /\ using' = [using EXCEPT ![c] = attached[a]] /\ missing' \in BOOLEAN /\ attached[a] # 0
    BY <1>4 DEF Begin
  <2>3. statements' \in Nat
    BY <1>4 DEF Begin, BeginStatement, TypeOK
  <2>4. using' \in [Connections -> 0..Len(sets)]
    BY <2>1, <2>2, SetsTyped
  <2>5. TypeOK'
    BY <2>2, <2>3, <2>4 DEF TypeOK, AttachTypeOK, attachVars, historyVars
  <2>6. \A u \in Connections : using'[u] = 0 => using[u] = 0
    BY <2>2, SetsTyped
  <2> QED
    BY <2>2, <2>5, <2>6 DEF HeldOK
<1>5. ASSUME NEW c \in Connections, Operation(c) \/ End(c) PROVE BaseInv'
  BY <1>5, OperationShape, StatementTyped
<1>6. ASSUME NEW c \in Connections, UseAfterFree(c) PROVE BaseInv'
  BY <1>6 DEF UseAfterFree, TypeOK, AttachTypeOK, HeldOK, attachVars, callVars, historyVars
<1>7. ASSUME NEW c \in Connections, ClearUCCaches(c) PROVE BaseInv'
  <2>1. left' \in [Connections -> SUBSET ((1..Len(sets)) \cup OtherDatabases)]
    BY <1>7 DEF ClearUCCaches, TypeOK, AttachTypeOK
  <2>2. mark' \in [Connections -> 0..clock'] /\ overtook' \in [Connections -> SUBSET (1..Len(sets))]
    BY <1>7 DEF ClearUCCaches, TypeOK
  <2>3. /\ UNCHANGED <<attachVars, sets, using, held, freed, loads, crashed, listed>>
        /\ clock' = clock + 1 /\ missing' \in BOOLEAN
    BY <1>7 DEF ClearUCCaches
  <2>4. statements' \in Nat
    BY <1>7 DEF ClearUCCaches, BeginStatement, TypeOK
  <2>5. TypeOK'
    BY <2>1, <2>2, <2>3, <2>4 DEF TypeOK, AttachTypeOK, attachVars
  <2> QED
    BY <2>3, <2>5 DEF HeldOK
<1>8. ASSUME NEW c \in Connections, VisitDatabase(c) PROVE BaseInv'
  <2>1. /\ UNCHANGED <<attachVars, using, held, loads, statements, crashed, clock, mark>>
        /\ missing' \in BOOLEAN
    BY <1>8 DEF VisitDatabase
  <2>2. PICK d \in left[c] :
           /\ left' = [left EXCEPT ![c] = @ \ {d}]
           /\ IF GetCatalogType(d) # "uc" THEN UNCHANGED <<sets, freed, listed, overtook>>
              ELSE /\ ClearCache(d)
                   /\ overtook' = [overtook EXCEPT ![c] = @ \cup {k \in {d} : OldLoad(c, k)}]
    BY <1>8 DEF VisitDatabase
  <2>3. left' \in [Connections -> SUBSET ((1..Len(sets)) \cup OtherDatabases)]
    BY <2>2 DEF TypeOK
  <2>4. CASE UNCHANGED <<sets, freed, listed, overtook>>
    BY <2>1, <2>3, <2>4 DEF TypeOK, AttachTypeOK, HeldOK, attachVars
  <2>5. CASE /\ d \notin OtherDatabases /\ ClearCache(d)
             /\ overtook' = [overtook EXCEPT ![c] = @ \cup {k \in {d} : OldLoad(c, k)}]
    <3>1. d \in 1..Len(sets)
      BY <2>5 DEF TypeOK
    <3>2. sets' \in Seq(CatalogSets) /\ Len(sets') = Len(sets)
      BY <2>5, <3>1, SetsTyped, NothingLoadedTyped, ExceptSeq DEF ClearCache
    <3>3. listed' \in Seq(SUBSET Things) /\ Len(listed') = Len(listed)
      BY <2>5, <3>1, SetsTyped, ExceptSeq DEF ClearCache
    <3>4. freed' \in [Connections -> BOOLEAN]
      BY <2>5 DEF ClearCache, TypeOK
    <3>5. overtook' \in [Connections -> SUBSET (1..Len(sets))]
      <4> DEFINE more == {k \in {d} : OldLoad(c, k)}
      <4>1. more \in SUBSET (1..Len(sets))
        BY <3>1
      <4>2. overtook \in [Connections -> SUBSET (1..Len(sets))]
        BY DEF TypeOK
      <4> HIDE DEF more
      <4> QED
        BY <2>5, <4>1, <4>2 DEF more
    <3> QED
      BY <2>1, <2>3, <3>2, <3>3, <3>4, <3>5
      DEF TypeOK, AttachTypeOK, HeldOK, attachVars, CatalogSets, Things
  <2> QED
    BY <2>2, <2>4, <2>5 DEF GetCatalogType
<1>9. ASSUME NEW c \in Connections, FetchSchemas(c) \/ FetchTables(c) PROVE BaseInv'
  <2>1. PICK s \in Schemas \cup {NoName} :
           using[c] # 0 /\ Fetch(c, s) /\ s \in {NoName, held[c].schema}
    BY <1>9, HeldPoint DEF FetchSchemas, FetchTables, OnCatalog
  <2>2. /\ loads' = [loads EXCEPT ![c] = [schema |-> s, at |-> clock + 1]]
        /\ UNCHANGED <<attachVars, sets, using, held, freed, left, statements, crashed, historyVars>>
        /\ missing' \in BOOLEAN
    BY <2>1 DEF Fetch
  <2>3. clock + 1 \in Nat /\ clock + 1 # 0
    BY DEF TypeOK
  <2>4. [schema |-> s, at |-> clock + 1] \in Listings
    BY <2>3 DEF Listings
  <2>5. loads' \in [Connections -> Listings]
    BY <2>2, <2>4, SetsTyped
  <2>6. TypeOK'
    BY <2>2, <2>5 DEF TypeOK, AttachTypeOK, attachVars, historyVars, Listings
  <2>7. \A u \in Connections : /\ using[u] = 0 => loads'[u] = NoLoad
                               /\ loads'[u] # NoLoad =>
                                    /\ loads'[u].at # 0
                                    /\ loads'[u].schema \in {NoName, held[u].schema}
    BY <2>1, <2>2, <2>3, SetsTyped DEF HeldOK
  <2>8. HeldOK'
    BY <2>2, <2>7 DEF HeldOK
  <2> QED
    BY <2>6, <2>8
<1> QED
  BY <1>1, <1>2, <1>3, <1>4, <1>5, <1>6, <1>7, <1>8, <1>9, NextCases

\* Secrets, catalogs, sets, pointers and histories stay what they are declared
\* to be, whatever is attached, loaded, scanned and cleared.
THEOREM TypeCorrect == Spec => []TypeOK
<1>1. BaseInv => TypeOK
  BY DEF BaseInv
<1> QED
  BY <1>1, BaseInit, BaseStep, PTL DEF Spec

LEMMA BaseAlways == Spec => []BaseInv
BY BaseInit, BaseStep, PTL DEF Spec
-----------------------------------------------------------------------------
(* Credentials.                                                            *)

LEMMA OnlyAdministered == BaseInv /\ Next => Administer \/ UNCHANGED attachVars
<1> SUFFICES ASSUME BaseInv, Next, ~Administer PROVE UNCHANGED attachVars
  OBVIOUS
<1>1. ASSUME NEW c \in Connections, Operation(c) \/ End(c) PROVE UNCHANGED attachVars
  BY <1>1, OperationShape DEF BaseInv, Shape, Unchanged
<1> QED
  BY <1>1, NextCases
  DEF CreateEntry, Begin, FetchSchemas, FetchTables, Fetch, UseAfterFree, ClearUCCaches, VisitDatabase

\* A new secret holds one value, and the others hold theirs still.
LEMMA SecretsStep ==
    ASSUME AttachTypeOK, SecretsOK, ChangeSecrets PROVE SecretsOK' /\ created' \in {created, created + 1}
<1> USE DEF AttachTypeOK
<1>1. ASSUME NEW storage \in Storages, NEW name \in SecretNames, NEW given \in Shapes,
             CreateSecret(storage, name, given)
      PROVE  SecretsOK' /\ created' \in {created, created + 1}
  <2> DEFINE new == CreateUCSecretFunction(given)
  <2>1. created' = created + 1 /\ secrets' = [secrets EXCEPT ![storage][name] = new]
    BY <1>1 DEF CreateSecret
  <2>2. \A p \in Parameters : new[p] \in {0, created + 1}
    BY DEF CreateUCSecretFunction
  <2>3. ASSUME NEW secret, OneValue(secret) PROVE \E v \in 1..created' : \A p \in Parameters : secret[p] \in {0, v}
    <3>1. PICK v \in 1..created : \A p \in Parameters : secret[p] \in {0, v}
      BY <2>3 DEF OneValue
    <3>2. v \in 1..created'
      BY <2>1
    <3> QED
      BY <3>1, <3>2
  <2>4. \E v \in 1..created' : \A p \in Parameters : new[p] \in {0, v}
    BY <2>1, <2>2
  <2>5. SecretsOK'
    <3> SUFFICES ASSUME NEW place \in Storages, NEW other \in SecretNames,
                        secrets'[place][other] # NoSecret
                 PROVE  \E v \in 1..created' : \A p \in Parameters : secrets'[place][other][p] \in {0, v}
      BY DEF SecretsOK, OneValue
    <3>1. CASE place = storage /\ other = name
      <4>1. secrets'[place][other] = new
        BY <2>1, <3>1
      <4> QED
        BY <2>4, <4>1
    <3>2. CASE ~(place = storage /\ other = name)
      <4>1. secrets'[place][other] = secrets[place][other]
        BY <2>1, <3>2
      <4>2. OneValue(secrets[place][other])
        BY <4>1 DEF SecretsOK
      <4> QED
        BY <2>3, <4>1, <4>2
    <3> QED
      BY <3>1, <3>2
  <2> QED
    BY <2>1, <2>5
<1>2. ASSUME NEW storage \in Storages, NEW name \in SecretNames, DropSecret(storage, name)
      PROVE  SecretsOK' /\ created' \in {created, created + 1}
  BY <1>2 DEF DropSecret, SecretsOK, OneValue
<1> QED
  BY <1>1, <1>2 DEF ChangeSecrets

\* The catalog's credentials are v's, the value of its secret.
FromValue(object, v) ==
    /\ \A p \in Parameters : object.secret[p] \in {0, v}
    /\ \A p \in Parameters \ {"aws_region"} : object.credentials[p] = object.secret[p]
    /\ (object.secret["endpoint"] = 0 <=> object.secret["aws_region"] = 0)
          => object.credentials["aws_region"] = object.secret["aws_region"]
    /\ object.credentials["aws_region"] \in {0, v, NullText}

LEMMA CredentialsByObject ==
    CredentialsOfOneSecret <=>
        \A k \in DOMAIN catalogs :
            IF catalogs[k].secret = NoSecret THEN catalogs[k].credentials = NoCredentials
            ELSE \E v \in 1..created : FromValue(catalogs[k], v)
BY DEF CredentialsOfOneSecret, FromValue

LEMMA CredentialsFromValue ==
    ASSUME NEW secret \in Secrets, NEW v \in Nat \ {0}, \A p \in Parameters : secret[p] \in {0, v}
    PROVE  FromValue([credentials |-> CredentialsOf(secret), secret |-> secret], v)
<1>1. \A p \in Parameters : secret[p] \in Nat
  BY DEF Secrets
<1>2. \A p \in Parameters : OrEmpty(secret[p]) = secret[p]
  BY <1>1 DEF OrEmpty, TextOf
<1>3. TextOf(secret["aws_region"]) = IF secret["aws_region"] = 0 THEN NullText ELSE secret["aws_region"]
  BY DEF TextOf
<1>4. {"token", "endpoint", "aws_region"} = Parameters
  BY DEF Parameters
<1> QED
  BY <1>2, <1>3, <1>4 DEF FromValue, CredentialsOf

LEMMA GetSecretOne ==
    ASSUME AttachTypeOK, SecretsOK, NEW name \in SecretNames
    PROVE  GetSecret(name) # NoSecret => GetSecret(name) \in Secrets /\ OneValue(GetSecret(name))
<1>1. ASSUME NEW storage \in Storages, secrets[storage][name] # NoSecret
      PROVE  secrets[storage][name] \in Secrets /\ OneValue(secrets[storage][name])
  <2>1. secrets[storage][name] \in Secrets
    BY <1>1 DEF AttachTypeOK
  <2> QED
    BY <1>1, <2>1 DEF SecretsOK
<1>2. PICK storage \in Storages : GetSecret(name) = secrets[storage][name]
  BY DEF GetSecret, Storages
<1> QED
  BY <1>1, <1>2 DEF OneValue

LEMMA AttachCredentials ==
    ASSUME AttachTypeOK, SecretsOK, CredentialsOfOneSecret,
           NEW a \in Aliases, NEW options, NEW text \in SecretNames \cup {NoName},
           UCCatalogAttach(a, options, text)
    PROVE  CredentialsOfOneSecret'
<1> DEFINE secret == GetSecret(SecretName(options, text))
           credentials == IF secret = NoSecret THEN NoCredentials ELSE CredentialsOf(secret)
           object == [credentials |-> credentials, secret |-> secret]
           Objects == [credentials: Credentials, secret: Secrets \cup {NoSecret}]
<1>1. SecretName(options, text) \in SecretNames
  BY NamesAssumption DEF SecretName, Explicit
<1>2. secret # NoSecret => secret \in Secrets /\ OneValue(secret)
  BY <1>1, GetSecretOne
<1>3. IF secret = NoSecret THEN credentials = NoCredentials
      ELSE \E v \in 1..created : FromValue(object, v)
  <2>1. CASE secret # NoSecret
    <3>1. PICK v \in 1..created : \A p \in Parameters : secret[p] \in {0, v}
      BY <1>2, <2>1 DEF OneValue
    <3>2. v \in Nat \ {0}
      BY DEF AttachTypeOK
    <3>3. FromValue(object, v)
      BY <1>2, <2>1, <3>1, <3>2, CredentialsFromValue
    <3> QED
      BY <2>1, <3>3
  <2> QED
    BY <2>1
<1>4. catalogs' = Append(catalogs, object) /\ created' = created /\ Len(catalogs) \in Nat
  BY LenProperties DEF UCCatalogAttach, AttachTypeOK
<1>5. ASSUME NEW k \in DOMAIN catalogs'
      PROVE  IF catalogs'[k].secret = NoSecret THEN catalogs'[k].credentials = NoCredentials
             ELSE \E v \in 1..created : FromValue(catalogs'[k], v)
  <2>1. catalogs \in Seq(Objects) /\ DOMAIN catalogs' = 1..Len(catalogs) + 1 /\ k \in 1..Len(catalogs) + 1
    BY <1>4 DEF AttachTypeOK
  <2>2. CASE k \in 1..Len(catalogs)
    <3>1. catalogs'[k] = catalogs[k] /\ k \in DOMAIN catalogs
      BY <1>4, <2>1, <2>2
    <3> QED
      BY <3>1, CredentialsByObject
  <2>3. CASE k = Len(catalogs) + 1
    <3>1. catalogs'[k] = object
      BY <1>4, <2>1, <2>3
    <3> QED
      BY <1>3, <3>1
  <2> QED
    BY <1>4, <2>1, <2>2, <2>3
<1> QED
  BY <1>4, <1>5 DEF CredentialsOfOneSecret, FromValue

CredInv == SecretsOK /\ CredentialsOfOneSecret

LEMMA CredStep == BaseInv /\ CredInv /\ [Next]_vars => CredInv'
<1> SUFFICES ASSUME BaseInv, CredInv, [Next]_vars PROVE CredInv'
  OBVIOUS
<1>1. AttachTypeOK
  BY DEF BaseInv, TypeOK
<1>2. CASE UNCHANGED attachVars
  BY <1>2 DEF attachVars, CredInv, SecretsOK, OneValue, CredentialsOfOneSecret
<1>3. CASE ChangeSecrets
  <2>1. SecretsOK' /\ created' \in {created, created + 1} /\ catalogs' = catalogs
    BY <1>1, <1>3, SecretsStep, SecretsTyped DEF CredInv
  <2>2. \A v \in 1..created : v \in 1..created'
    BY <1>1, <2>1 DEF AttachTypeOK
  <2>3. CredentialsOfOneSecret'
    BY <2>1, <2>2 DEF CredInv, CredentialsOfOneSecret
  <2> QED
    BY <2>1, <2>3 DEF CredInv
<1>4. ASSUME NEW a \in Aliases, Detach(a) PROVE CredInv'
  BY <1>4 DEF Detach, CredInv, SecretsOK, OneValue, CredentialsOfOneSecret
<1>5. ASSUME NEW a \in Aliases, NEW options, NEW text \in SecretNames \cup {NoName},
             UCCatalogAttach(a, options, text)
      PROVE  CredInv'
  <2>1. CredentialsOfOneSecret'
    BY <1>1, <1>5, AttachCredentials DEF CredInv
  <2>2. SecretsOK'
    BY <1>5 DEF UCCatalogAttach, CredInv, SecretsOK, OneValue
  <2> QED
    BY <2>1, <2>2 DEF CredInv
<1>6. CASE UNCHANGED vars
  BY <1>2, <1>6 DEF vars
<1> QED
  BY <1>2, <1>3, <1>4, <1>5, <1>6, OnlyAdministered DEF Administer

\* UCCatalogAttach takes everything a catalog sends from the one secret it
\* found, except that it tests the region by the endpoint, and later changes of
\* secrets reach no catalog attached before.
THEOREM OneSecret == Spec => []CredentialsOfOneSecret
<1>1. Init => CredInv
  BY DEF Init, AttachInit, CredInv, SecretsOK, CredentialsOfOneSecret
<1>2. CredInv => CredentialsOfOneSecret
  BY DEF CredInv
<1> QED
  BY <1>1, <1>2, CredStep, BaseAlways, PTL DEF Spec
-----------------------------------------------------------------------------
(* What steps do to the sets.                                              *)

\* An insert fills one place that was empty, with an entry from the listing.
Filled(k, at) ==
    /\ \A j \in 1..Len(sets) : j # k => sets'[j] = sets[j]
    /\ \A s \in Schemas :
         /\ sets'[k].schemas[s] # sets[k].schemas[s] =>
              sets[k].schemas[s] = 0 /\ sets'[k].schemas[s] = at
         /\ \A n \in Tables : sets'[k].tables[s][n] # sets[k].tables[s][n] =>
              sets[k].tables[s][n] = 0 /\ sets'[k].tables[s][n] = at

LEMMA CreateEntryFills ==
    ASSUME BaseInv, NEW c \in Connections, CreateEntry(c)
    PROVE  /\ using[c] \in 1..Len(sets) /\ loads[c] # NoLoad /\ loads[c].at \in Nat \ {0}
           /\ Filled(using[c], loads[c].at)
           /\ \/ AtSchemas(c) /\ \A s \in Schemas : sets'[using[c]].tables[s] = sets[using[c]].tables[s]
              \/ AtTables(c) /\ \A s \in Schemas : sets'[using[c]].schemas[s] = sets[using[c]].schemas[s]
           /\ UNCHANGED <<attachVars, callVars, historyVars>>
<1> DEFINE k == using[c]
           at == loads[c].at
<1>1. /\ k \in 1..Len(sets) /\ sets \in Seq(CatalogSets) /\ sets[k] \in CatalogSets
      /\ loads[c] # NoLoad /\ loads[c] \in Listings /\ at \in Nat \ {0}
  <2>1. k # 0 /\ loads[c] # NoLoad
    BY DEF CreateEntry, AtSchemas, AtTables
  <2>2. k \in 1..Len(sets) /\ sets \in Seq(CatalogSets) /\ sets[k] \in CatalogSets
    BY <2>1, SetsTyped DEF BaseInv
  <2>3. loads[c] \in Listings
    BY SetsTyped DEF BaseInv
  <2>4. at \in Nat \ {0}
    BY <2>1, <2>3 DEF BaseInv, HeldOK, Listings
  <2> QED
    BY <2>1, <2>2, <2>3, <2>4
<1>2. UNCHANGED <<attachVars, callVars, historyVars>>
  BY DEF CreateEntry
<1>3. ASSUME NEW t \in Schemas, sets[k].schemas[t] = 0, sets' = [sets EXCEPT ![k].schemas[t] = at]
      PROVE  /\ Filled(k, at)
             /\ \A s \in Schemas : sets'[k].tables[s] = sets[k].tables[s]
  <2> HIDE DEF k, at
  <2>1. sets'[k] = [sets[k] EXCEPT !.schemas[t] = at] /\ \A j \in 1..Len(sets) : j # k => sets'[j] = sets[j]
    BY <1>1, <1>3
  <2>2. sets'[k].tables = sets[k].tables /\ sets'[k].schemas = [sets[k].schemas EXCEPT ![t] = at]
    BY <1>1, <2>1 DEF CatalogSets
  <2>3. sets[k].schemas \in [Schemas -> Nat]
    BY <1>1 DEF CatalogSets
  <2>4. \A s \in Schemas : sets'[k].schemas[s] = IF s = t THEN at ELSE sets[k].schemas[s]
    BY <2>2, <2>3
  <2> QED
    BY <1>3, <2>1, <2>2, <2>4 DEF Filled
<1>4. ASSUME NEW t \in Schemas, NEW m \in Tables, sets[k].tables[t][m] = 0,
             sets' = [sets EXCEPT ![k].tables[t][m] = at]
      PROVE  /\ Filled(k, at)
             /\ \A s \in Schemas : sets'[k].schemas[s] = sets[k].schemas[s]
  <2> HIDE DEF k, at
  <2>1. sets'[k] = [sets[k] EXCEPT !.tables[t][m] = at] /\ \A j \in 1..Len(sets) : j # k => sets'[j] = sets[j]
    BY <1>1, <1>4
  <2>2. /\ sets'[k].schemas = sets[k].schemas
        /\ sets'[k].tables = [sets[k].tables EXCEPT ![t][m] = at]
    BY <1>1, <2>1 DEF CatalogSets
  <2>3. sets[k].tables \in [Schemas -> [Tables -> Nat]]
    BY <1>1 DEF CatalogSets
  <2>4. \A s \in Schemas, n \in Tables :
           sets'[k].tables[s][n] = IF s = t /\ n = m THEN at ELSE sets[k].tables[s][n]
    BY <2>2, <2>3
  <2> QED
    BY <1>4, <2>1, <2>2, <2>4 DEF Filled
<1>5. CASE AtSchemas(c) /\ \E t \in Schemas : /\ sets[k].schemas[t] = 0
                                             /\ sets' = [sets EXCEPT ![k].schemas[t] = at]
  BY <1>1, <1>2, <1>3, <1>5
<1>6. CASE AtTables(c) /\ \E m \in Tables : /\ sets[k].tables[loads[c].schema][m] = 0
                                           /\ sets' = [sets EXCEPT ![k].tables[loads[c].schema][m] = at]
  <2>1. PICK m \in Tables : /\ sets[k].tables[loads[c].schema][m] = 0
                            /\ sets' = [sets EXCEPT ![k].tables[loads[c].schema][m] = at]
    BY <1>6
  <2>2. loads[c].schema \in Schemas
    BY <1>1, <1>6 DEF AtTables, Listings
  <2>3. Filled(k, at) /\ \A s \in Schemas : sets'[k].schemas[s] = sets[k].schemas[s]
    BY <1>4, <2>1, <2>2
  <2> QED
    BY <1>1, <1>2, <1>6, <2>3
<1> QED
  BY <1>5, <1>6 DEF CreateEntry

\* A turn of the loop clears at most the catalog it visits.
LEMMA VisitClears ==
    ASSUME BaseInv, NEW c \in Connections, VisitDatabase(c)
    PROVE  \E d \in left[c] :
             /\ left' = [left EXCEPT ![c] = @ \ {d}]
             /\ \/ d \in OtherDatabases /\ UNCHANGED <<sets, freed, listed, overtook>>
                \/ /\ d \in 1..Len(sets)
                   /\ sets' = [sets EXCEPT ![d] = NothingLoaded]
                   /\ listed' = [listed EXCEPT ![d] = {}]
                   /\ freed' = [u \in Connections |->
                                   freed[u] \/ (using[u] = d /\ held[u] # NoPointers)]
                   /\ overtook' = [overtook EXCEPT ![c] = @ \cup {k \in {d} : OldLoad(c, k)}]
<1>1. PICK d \in left[c] :
         /\ left' = [left EXCEPT ![c] = @ \ {d}]
         /\ IF GetCatalogType(d) # "uc" THEN UNCHANGED <<sets, freed, listed, overtook>>
            ELSE /\ ClearCache(d)
                 /\ overtook' = [overtook EXCEPT ![c] = @ \cup {k \in {d} : OldLoad(c, k)}]
  BY DEF VisitDatabase
<1>2. d \in OtherDatabases \/ d \in 1..Len(sets)
  BY DEF BaseInv, TypeOK
<1> QED
  BY <1>1, <1>2 DEF GetCatalogType, ClearCache

\* A catalog that is attached starts with nothing, beside the others.
LEMMA AdministerAdds ==
    ASSUME BaseInv, Administer
    PROVE  /\ UNCHANGED <<callVars, clock, mark, overtook>>
           /\ \A k \in 1..Len(sets) : sets'[k] = sets[k] /\ listed'[k] = listed[k]
           /\ \/ Len(sets') = Len(sets) /\ Len(listed') = Len(listed)
              \/ /\ Len(sets') = Len(sets) + 1 /\ Len(listed') = Len(listed) + 1
                 /\ sets'[Len(sets) + 1] = NothingLoaded /\ listed'[Len(sets) + 1] = {}
           /\ \A a \in Aliases : attached'[a] \in {0, attached[a], Len(sets) + 1}
           /\ sets' = sets => \A a \in Aliases : attached'[a] \in {0, attached[a]}
<1>1. /\ sets \in Seq(CatalogSets) /\ listed \in Seq(SUBSET Things) /\ Len(listed) = Len(sets)
      /\ Len(sets) \in Nat /\ Len(catalogs) = Len(sets)
      /\ catalogs \in Seq([credentials: Credentials, secret: Secrets \cup {NoSecret}])
      /\ attached \in [Aliases -> 0..Len(catalogs)]
  BY SetsTyped, LenProperties DEF BaseInv, TypeOK, AttachTypeOK
<1>2. UNCHANGED <<callVars, clock, mark, overtook>>
  BY DEF Administer
<1>3. CASE (ChangeSecrets \/ \E a \in Aliases : Detach(a)) /\ UNCHANGED <<sets, listed>>
  <2>1. CASE ChangeSecrets
    <3>1. UNCHANGED attached
      BY <2>1 DEF ChangeSecrets, CreateSecret, DropSecret
    <3> QED
      BY <1>2, <1>3, <3>1
  <2>2. ASSUME NEW b \in Aliases, Detach(b)
        PROVE  \A a \in Aliases : attached'[a] \in {0, attached[a]}
    BY <1>1, <2>2 DEF Detach
  <2> QED
    BY <1>2, <1>3, <2>1, <2>2
<1>4. ASSUME NEW b \in Aliases, NEW options, NEW text \in SecretNames \cup {NoName},
             UCCatalogAttach(b, options, text),
             sets' = Append(sets, NothingLoaded), listed' = Append(listed, {})
      PROVE  /\ \A k \in 1..Len(sets) : sets'[k] = sets[k] /\ listed'[k] = listed[k]
             /\ Len(sets') = Len(sets) + 1 /\ Len(listed') = Len(listed) + 1
             /\ sets'[Len(sets) + 1] = NothingLoaded /\ listed'[Len(sets) + 1] = {}
             /\ \A a \in Aliases : attached'[a] \in {0, attached[a], Len(sets) + 1}
  <2>1. Len(catalogs') = Len(catalogs) + 1
    BY <1>4, AttachTyped DEF BaseInv, TypeOK
  <2>2. attached' = [attached EXCEPT ![b] = Len(sets) + 1]
    BY <1>1, <1>4, <2>1 DEF UCCatalogAttach
  <2> QED
    BY <1>1, <1>4, <2>2, NothingLoadedTyped, AppendProperties
<1>5. \/ (ChangeSecrets \/ \E a \in Aliases : Detach(a)) /\ UNCHANGED <<sets, listed>>
      \/ /\ \E a \in Aliases, options \in SUBSET {"secret", "unknown"},
               text \in SecretNames \cup {NoName} : UCCatalogAttach(a, options, text)
         /\ sets' = Append(sets, NothingLoaded) /\ listed' = Append(listed, {})
  BY DEF Administer
<1>6. CASE (ChangeSecrets \/ \E a \in Aliases : Detach(a)) /\ UNCHANGED <<sets, listed>>
  <2>1. /\ UNCHANGED <<sets, listed>>
        /\ \A a \in Aliases : attached'[a] \in {0, attached[a]}
    BY <1>3, <1>6
  <2> QED
    BY <1>1, <1>2, <2>1
<1>7. CASE /\ \E a \in Aliases, options \in SUBSET {"secret", "unknown"},
                 text \in SecretNames \cup {NoName} : UCCatalogAttach(a, options, text)
           /\ sets' = Append(sets, NothingLoaded) /\ listed' = Append(listed, {})
  <2>1. PICK b \in Aliases, options \in SUBSET {"secret", "unknown"},
             text \in SecretNames \cup {NoName} : UCCatalogAttach(b, options, text)
    BY <1>7
  <2>2. /\ \A k \in 1..Len(sets) : sets'[k] = sets[k] /\ listed'[k] = listed[k]
        /\ Len(sets') = Len(sets) + 1 /\ Len(listed') = Len(listed) + 1
        /\ sets'[Len(sets) + 1] = NothingLoaded /\ listed'[Len(sets) + 1] = {}
        /\ \A a \in Aliases : attached'[a] \in {0, attached[a], Len(sets) + 1}
    BY <1>4, <1>7, <2>1
  <2>3. sets' # sets
    BY <1>1, <2>2
  <2> QED
    BY <1>2, <2>2, <2>3
<1> QED
  BY <1>5, <1>6, <1>7
-----------------------------------------------------------------------------
(* Pointers.                                                               *)

DanglingInv == BaseInv /\ DanglingNeedsClear

LEMMA DanglingStep == DanglingInv /\ [Next]_vars => DanglingInv'
<1> SUFFICES ASSUME DanglingInv, [Next]_vars PROVE DanglingInv'
  OBVIOUS
<1> USE DEF DanglingInv
<1>1. BaseInv'
  BY BaseStep
<1>2. /\ using \in [Connections -> 0..Len(sets)] /\ held \in [Connections -> Pointers]
      /\ freed \in [Connections -> BOOLEAN] /\ sets \in Seq(CatalogSets) /\ HeldOK
  BY SetsTyped DEF BaseInv, TypeOK
\* A statement's pointers stay valid where its catalog stays as it is.
<1>3. ASSUME NEW c \in Connections, using'[c] # 0, ~freed'[c],
             using'[c] = using[c], held'[c] = held[c], freed[c] => freed'[c],
             sets'[using[c]] = sets[using[c]]
      PROVE  InSets(c)'
  BY <1>3 DEF DanglingNeedsClear, InSets
<1>4. CASE UNCHANGED <<using, held, freed, sets>>
  BY <1>1, <1>3, <1>4 DEF DanglingNeedsClear
<1>5. CASE Administer
  <2>1. UNCHANGED callVars /\ \A k \in 1..Len(sets) : sets'[k] = sets[k]
    BY <1>5, AdministerAdds
  <2>2. \A c \in Connections : using[c] # 0 => sets'[using[c]] = sets[using[c]]
    BY <1>2, <2>1
  <2>3. using' = using /\ held' = held /\ freed' = freed
    BY <2>1 DEF callVars
  <2> QED
    BY <1>1, <1>3, <2>2, <2>3 DEF DanglingNeedsClear
<1>6. ASSUME NEW u \in Connections, CreateEntry(u) PROVE DanglingInv'
  <2>1. UNCHANGED callVars /\ Filled(using[u], loads[u].at) /\ using[u] \in 1..Len(sets)
    BY <1>6, CreateEntryFills
  <2> SUFFICES ASSUME NEW c \in Connections, using'[c] # 0, ~freed'[c] PROVE InSets(c)'
    BY <1>1 DEF DanglingNeedsClear
  <2>2. /\ InSets(c) /\ using[c] \in 1..Len(sets)
        /\ using'[c] = using[c] /\ held'[c] = held[c] /\ freed'[c] = freed[c]
    BY <1>2, <2>1 DEF callVars, DanglingNeedsClear
  <2>3. CASE using[c] # using[u]
    <3>1. sets'[using[c]] = sets[using[c]]
      BY <2>1, <2>2, <2>3 DEF Filled
    <3> QED
      BY <1>3, <2>2, <3>1
  <2>4. CASE using[c] = using[u]
    <3> DEFINE k == using[c]
    <3>1. held[c].schema # NoName => /\ held[c].schema \in Schemas
                                     /\ sets[k].schemas[held[c].schema] = held[c].schemaAt
                                     /\ held[c].schemaAt # 0
      BY <1>2, <2>2 DEF InSets, HeldOK, Pointers
    <3>2. held[c].table # NoName => /\ held[c].schema \in Schemas /\ held[c].table \in Tables
                                    /\ sets[k].tables[held[c].schema][held[c].table] = held[c].tableAt
                                    /\ held[c].tableAt # 0
      BY <1>2, <2>2 DEF InSets, HeldOK, Pointers
    <3>3. held[c].schema # NoName => sets'[k].schemas[held[c].schema] = held[c].schemaAt
      BY <2>1, <2>4, <3>1 DEF Filled
    <3>4. held[c].table # NoName => sets'[k].tables[held[c].schema][held[c].table] = held[c].tableAt
      BY <2>1, <2>4, <3>2 DEF Filled
    <3> QED
      BY <2>2, <3>3, <3>4 DEF InSets
  <2> QED
    BY <2>3, <2>4
<1>7. ASSUME NEW c \in Connections, NEW a \in Aliases, Begin(c, a) PROVE DanglingInv'
  <2>1. /\ using' = [using EXCEPT ![c] = attached[a]]
        /\ freed' = freed /\ held' = held /\ sets' = sets /\ using[c] = 0
    BY <1>7 DEF Begin, Idle
  <2>2. held'[c] = NoPointers
    BY <1>2, <2>1 DEF HeldOK
  <2>3. InSets(c)'
    BY <2>2 DEF InSets, NoPointers
  <2>4. ASSUME NEW u \in Connections \ {c}, using'[u] # 0, ~freed'[u] PROVE InSets(u)'
    BY <1>2, <1>3, <2>1, <2>4
  <2> QED
    BY <1>1, <2>3, <2>4 DEF DanglingNeedsClear
<1>8. ASSUME NEW c \in Connections, Operation(c) \/ End(c) PROVE DanglingInv'
  <2>1. Shape(c)
    BY <1>8, OperationShape DEF BaseInv
  <2>2. UNCHANGED sets
    BY <2>1 DEF Shape, Unchanged
  <2>3. CASE \E how \in {"none", "missing", "error", "refused"} : Throw(c, how)
    <3>1. /\ using' = [using EXCEPT ![c] = 0] /\ held' = [held EXCEPT ![c] = NoPointers]
          /\ freed' = [freed EXCEPT ![c] = FALSE]
      BY <2>3 DEF Throw, Finish
    <3>2. ASSUME NEW u \in Connections, using'[u] # 0, ~freed'[u] PROVE InSets(u)'
      <4>1. u # c
        BY <1>2, <3>1, <3>2
      <4> QED
        BY <1>2, <1>3, <2>2, <3>1, <3>2, <4>1
    <3> QED
      BY <1>1, <3>2 DEF DanglingNeedsClear
  <2>4. ASSUME NEW p, NEW shown, Gives(c, p, shown) PROVE DanglingInv'
    <3>1. /\ held' = [held EXCEPT ![c] = p] /\ using' = using /\ Point(using[c], p)
          /\ freed' = [freed EXCEPT ![c] = FALSE]
      BY <2>4 DEF Gives, Return
    <3>2. InSets(c)'
      BY <1>2, <2>2, <3>1 DEF InSets, Point
    <3>3. ASSUME NEW u \in Connections \ {c}, using'[u] # 0, ~freed'[u] PROVE InSets(u)'
      BY <1>2, <1>3, <2>2, <3>1, <3>3
    <3> QED
      BY <1>1, <3>2, <3>3 DEF DanglingNeedsClear
  <2> QED
    BY <2>1, <2>3, <2>4 DEF Shape
<1>9. ASSUME NEW c \in Connections,
             FetchSchemas(c) \/ FetchTables(c) \/ UseAfterFree(c) \/ ClearUCCaches(c)
      PROVE  DanglingInv'
  <2>1. UNCHANGED <<using, held, freed, sets>>
    BY <1>9 DEF FetchSchemas, FetchTables, Fetch, UseAfterFree, ClearUCCaches, callVars
  <2> QED
    BY <1>4, <2>1
<1>10. ASSUME NEW c \in Connections, VisitDatabase(c) PROVE DanglingInv'
  <2>1. UNCHANGED <<using, held>>
    BY <1>10 DEF VisitDatabase
  <2>2. CASE UNCHANGED <<sets, freed>>
    BY <1>4, <2>1, <2>2
  <2>3. ASSUME NEW d \in 1..Len(sets), sets' = [sets EXCEPT ![d] = NothingLoaded],
               freed' = [u \in Connections |-> freed[u] \/ (using[u] = d /\ held[u] # NoPointers)]
        PROVE  DanglingInv'
    <3>1. ASSUME NEW u \in Connections, using'[u] # 0, ~freed'[u] PROVE InSets(u)'
      <4>0. ~(freed[u] \/ (using[u] = d /\ held[u] # NoPointers))
        BY <2>3, <3>1, Zenon
      <4>1. using'[u] = using[u] /\ held'[u] = held[u]
        BY <2>1
      <4>2. CASE held[u] = NoPointers
        BY <4>1, <4>2 DEF InSets, NoPointers
      <4>3. CASE using[u] # d
        <5>1. using[u] # d /\ ~freed[u] /\ using[u] \in 1..Len(sets)
          BY <1>2, <2>1, <3>1, <4>0, <4>3
        <5>2. sets'[using[u]] = sets[using[u]]
          BY <1>2, <2>3, <5>1
        <5> QED
          BY <1>3, <3>1, <4>1, <5>1, <5>2
      <4> QED
        BY <4>0, <4>2, <4>3
    <3> QED
      BY <1>1, <3>1 DEF DanglingNeedsClear
  <2> QED
    BY <1>10, <2>2, <2>3, VisitClears
<1>11. CASE UNCHANGED vars
  BY <1>4, <1>11 DEF vars, callVars
<1> QED
  BY <1>5, <1>6, <1>7, <1>8, <1>9, <1>10, <1>11, NextCases

\* Loads only add entries, and nothing but a clear takes one away: every other
\* way to erase or replace one ends in an exception first.
THEOREM PointersNeedClear == Spec => []DanglingNeedsClear
<1>1. Init => DanglingInv
  BY BaseInit DEF Init, DanglingInv, DanglingNeedsClear
<1>2. DanglingInv => DanglingNeedsClear
  BY DEF DanglingInv
<1> QED
  BY <1>1, <1>2, DanglingStep, PTL DEF Spec

\* Whatever follows from a clear follows from one that has begun.
CrashNeedsClear ==
    /\ crashed => clock > 0
    /\ \A c \in Connections : freed[c] \/ left[c] # {} => clock > 0

LEMMA CrashStep ==
    ASSUME DanglingInv, CrashNeedsClear, [Next]_vars
    PROVE  CrashNeedsClear'
<1>0. /\ clock \in Nat /\ freed \in [Connections -> BOOLEAN]
      /\ left \in [Connections -> SUBSET ((1..Len(sets)) \cup OtherDatabases)]
  BY DEF DanglingInv, BaseInv, TypeOK
<1>1. ASSUME UNCHANGED <<crashed, clock, left, freed>> PROVE CrashNeedsClear'
  BY <1>1 DEF CrashNeedsClear
<1>2. ASSUME NEW c \in Connections,
             CreateEntry(c) \/ FetchSchemas(c) \/ FetchTables(c) \/ \E a \in Aliases : Begin(c, a)
      PROVE  UNCHANGED <<crashed, clock, left, freed>>
  BY <1>2 DEF CreateEntry, FetchSchemas, FetchTables, Fetch, Begin, callVars, historyVars
<1>3. ASSUME NEW c \in Connections, UseAfterFree(c) PROVE CrashNeedsClear'
  <2>1. freed[c]
    BY <1>3 DEF UseAfterFree, Valid, DanglingInv, DanglingNeedsClear
  <2>2. UNCHANGED <<clock, left, freed>>
    BY <1>3 DEF UseAfterFree, callVars, historyVars
  <2> QED
    BY <2>1, <2>2 DEF CrashNeedsClear
<1>4. ASSUME NEW c \in Connections, ClearUCCaches(c) PROVE CrashNeedsClear'
  BY <1>0, <1>4 DEF ClearUCCaches, CrashNeedsClear
<1>5. ASSUME NEW c \in Connections, VisitDatabase(c) PROVE CrashNeedsClear'
  <2>1. left[c] # {} /\ UNCHANGED <<crashed, clock>>
    BY <1>5 DEF VisitDatabase
  <2> QED
    BY <2>1 DEF CrashNeedsClear
<1>6. Administer => UNCHANGED <<crashed, clock, left, freed>>
  BY DEF Administer, callVars
<1>7. ASSUME NEW c \in Connections, Operation(c) \/ End(c) PROVE CrashNeedsClear'
  <2>1. Shape(c)
    BY <1>7, OperationShape DEF DanglingInv, BaseInv
  <2>2. UNCHANGED <<crashed, clock, left>>
    BY <2>1 DEF Shape, Unchanged
  <2>3. freed' = [freed EXCEPT ![c] = FALSE]
    BY <2>1 DEF Shape, Gives, Throw, Finish, Return
  <2>4. \A u \in Connections : freed'[u] => freed[u]
    BY <1>0, <2>3
  <2> QED
    BY <2>2, <2>4 DEF CrashNeedsClear
<1>8. UNCHANGED vars => UNCHANGED <<crashed, clock, left, freed>>
  BY DEF vars, callVars, historyVars
<1> QED
  BY <1>1, <1>2, <1>3, <1>4, <1>5, <1>6, <1>7, <1>8, NextCases

\* As long as no clear has begun, and in the program as it is built none can, no
\* statement uses a freed entry, whatever it and others look up, create, alter,
\* drop, attach or detach.
THEOREM NoCrashWithoutClear == Spec => [](clock = 0 => ~crashed)
<1>1. Init => DanglingInv /\ CrashNeedsClear
  BY BaseInit DEF Init, DanglingInv, DanglingNeedsClear, CrashNeedsClear
<1>2. DanglingInv /\ CrashNeedsClear /\ [Next]_vars => (DanglingInv /\ CrashNeedsClear)'
  BY DanglingStep, CrashStep
<1>3. DanglingInv /\ CrashNeedsClear => (clock = 0 => ~crashed)
  BY DEF CrashNeedsClear
<1> QED
  BY <1>1, <1>2, <1>3, PTL DEF Spec
-----------------------------------------------------------------------------
(* Clears.                                                                 *)

\* Every table in catalog k is from a listing that is newer than clear number m,
\* and so is every listing of tables that is being inserted.
TablesAfter(k, m) ==
    /\ \A s \in Schemas, n \in Tables : sets[k].tables[s][n] # 0 => sets[k].tables[s][n] > m
    /\ \A u \in Connections :
         using[u] = k /\ loads[u].schema # NoName /\ ~freed[u] => loads[u].at > m

\* The same of schemas.
SchemasAfter(k, m) ==
    /\ \A s \in Schemas : sets[k].schemas[s] # 0 => sets[k].schemas[s] > m
    /\ \A u \in Connections :
         using[u] = k /\ loads[u] # NoLoad /\ loads[u].schema = NoName => loads[u].at > m

\* Catalog k is behind connection c's clear.
Behind(c, k) ==
    TablesAfter(k, mark[c]) /\ (k \notin overtook[c] => SchemasAfter(k, mark[c]))

ForgetInv ==
    /\ BaseInv
    /\ \A c \in Connections, a \in Aliases :
         attached[a] # 0 /\ attached[a] \notin left[c] => Behind(c, attached[a])

LEMMA ForgetStep == ForgetInv /\ [Next]_vars => ForgetInv'
<1> SUFFICES ASSUME ForgetInv, [Next]_vars PROVE ForgetInv'
  OBVIOUS
<1> USE DEF ForgetInv
<1>1. BaseInv'
  BY BaseStep
<1>2. /\ attached \in [Aliases -> 0..Len(sets)] /\ sets \in Seq(CatalogSets)
      /\ clock \in Nat /\ mark \in [Connections -> 0..clock] /\ Len(sets) \in Nat
      /\ left \in [Connections -> SUBSET ((1..Len(sets)) \cup OtherDatabases)]
      /\ using \in [Connections -> 0..Len(sets)] /\ loads \in [Connections -> Listings]
      /\ overtook \in [Connections -> SUBSET (1..Len(sets))]
      /\ freed \in [Connections -> BOOLEAN]
  BY SetsTyped, LenProperties DEF BaseInv, TypeOK, AttachTypeOK
\* Nothing is lost where a catalog and its loads stay as they are.
<1>3. ASSUME NEW c \in Connections, NEW k, Behind(c, k), mark'[c] = mark[c],
             overtook[c] \subseteq overtook'[c], sets'[k] = sets[k],
             \A u \in Connections : using'[u] = k => \/ loads'[u] = NoLoad
                                                     \/ /\ using[u] = k /\ loads'[u] = loads[u]
                                                        /\ freed[u] => freed'[u]
      PROVE  Behind(c, k)'
  <2>1. NoLoad.schema = NoName
    BY DEF NoLoad
  <2>2. TablesAfter(k, mark[c])'
    BY <1>3, <2>1 DEF Behind, TablesAfter
  <2>3. ASSUME k \notin overtook[c] PROVE SchemasAfter(k, mark[c])'
    BY <1>3, <2>3 DEF Behind, SchemasAfter
  <2> QED
    BY <1>3, <2>2, <2>3 DEF Behind
<1>4. ASSUME UNCHANGED <<attached, left, mark, overtook, sets, using, loads, freed>>
      PROVE  ForgetInv'
  BY <1>1, <1>4 DEF Behind, TablesAfter, SchemasAfter
<1>5. CASE Administer
  <2>1. /\ \A k \in 1..Len(sets) : sets'[k] = sets[k]
        /\ Len(sets') = Len(sets) + 1 => sets'[Len(sets) + 1] = NothingLoaded
        /\ \A a \in Aliases : attached'[a] \in {0, attached[a], Len(sets) + 1}
        /\ Len(sets') \in {Len(sets), Len(sets) + 1}
        /\ UNCHANGED <<left, mark, overtook, using, loads, freed>>
    BY <1>2, <1>5, AdministerAdds DEF callVars
  <2> SUFFICES ASSUME NEW c \in Connections, NEW a \in Aliases,
                      attached'[a] # 0, attached'[a] \notin left'[c]
               PROVE  Behind(c, attached[a])'
    BY <1>1
  <2>2. CASE attached'[a] = attached[a]
    <3>1. attached[a] \in 1..Len(sets) /\ Behind(c, attached[a])
      BY <1>2, <2>1, <2>2
    <3> QED
      BY <1>3, <2>1, <2>2, <3>1
  <2>3. CASE attached'[a] = Len(sets) + 1
    <3>1. attached'[a] \in 0..Len(sets')
      BY <1>1 DEF BaseInv, TypeOK, AttachTypeOK
    <3>2. sets'[attached'[a]] = NothingLoaded
      BY <1>2, <2>1, <2>3, <3>1
    <3>3. \A u \in Connections : using'[u] # attached'[a]
      BY <1>2, <2>1, <2>3
    <3> QED
      BY <3>2, <3>3 DEF Behind, TablesAfter, SchemasAfter, NothingLoaded
  <2> QED
    BY <2>1, <2>2, <2>3
<1>6. ASSUME NEW v \in Connections, CreateEntry(v) PROVE ForgetInv'
  <2> DEFINE at == loads[v].at
  <2>1. /\ UNCHANGED <<attached, left, mark, overtook, using, loads, freed>>
        /\ Filled(using[v], at) /\ loads[v] # NoLoad /\ using[v] \in 1..Len(sets)
    BY <1>6, CreateEntryFills DEF attachVars, callVars, historyVars
  <2> SUFFICES ASSUME NEW c \in Connections, NEW a \in Aliases,
                      attached'[a] # 0, attached'[a] \notin left'[c]
               PROVE  Behind(c, attached[a])'
    BY <1>1
  <2> DEFINE k == attached[a]
  <2>2. k \in 1..Len(sets) /\ Behind(c, k) /\ attached'[a] = k
    BY <1>2, <2>1
  <2>3. CASE k # using[v]
    <3>1. sets'[k] = sets[k]
      BY <2>1, <2>2, <2>3 DEF Filled
    <3> QED
      BY <1>3, <2>1, <2>2, <3>1
  <2>4. CASE k = using[v]
    <3>1. \A s \in Schemas, n \in Tables :
             sets'[k].tables[s][n] # 0 => sets'[k].tables[s][n] > mark[c]
      <4>1. CASE \A s \in Schemas : sets'[k].tables[s] = sets[k].tables[s]
        BY <2>2, <4>1 DEF Behind, TablesAfter
      <4>2. CASE AtTables(v)
        <5>1. at > mark[c]
          BY <2>1, <2>2, <2>4, <4>2 DEF AtTables, Valid, Behind, TablesAfter
        <5> HIDE DEF at
        <5> QED
          BY <2>1, <2>2, <2>4, <5>1 DEF Filled, Behind, TablesAfter
      <4> QED
        BY <1>6, <2>4, <4>1, <4>2, CreateEntryFills
    <3>2. ASSUME k \notin overtook[c]
          PROVE  \A s \in Schemas : sets'[k].schemas[s] # 0 => sets'[k].schemas[s] > mark[c]
      <4>1. CASE \A s \in Schemas : sets'[k].schemas[s] = sets[k].schemas[s]
        BY <2>2, <3>2, <4>1 DEF Behind, SchemasAfter
      <4>2. CASE AtSchemas(v)
        <5>1. at > mark[c]
          BY <2>1, <2>2, <2>4, <3>2, <4>2 DEF AtSchemas, Behind, SchemasAfter
        <5> HIDE DEF at
        <5> QED
          BY <2>1, <2>2, <2>4, <3>2, <5>1 DEF Filled, Behind, SchemasAfter
      <4> QED
        BY <1>6, <2>4, <4>1, <4>2, CreateEntryFills
    <3> QED
      BY <2>1, <2>2, <3>1, <3>2 DEF Behind, TablesAfter, SchemasAfter
  <2> QED
    BY <2>3, <2>4
\* A listing that arrives now is newer than every clear.
<1>7. ASSUME NEW v \in Connections, FetchSchemas(v) \/ FetchTables(v) PROVE ForgetInv'
  <2>1. PICK s : Fetch(v, s)
    BY <1>7 DEF FetchSchemas, FetchTables
  <2>2. /\ loads' = [loads EXCEPT ![v] = [schema |-> s, at |-> clock + 1]]
        /\ UNCHANGED <<attached, left, mark, overtook, sets, using, freed>>
    BY <2>1 DEF Fetch, attachVars, historyVars
  <2> SUFFICES ASSUME NEW c \in Connections, NEW a \in Aliases,
                      attached[a] # 0, attached[a] \notin left[c]
               PROVE  Behind(c, attached[a])'
    BY <1>1, <2>2
  <2>3. Behind(c, attached[a]) /\ clock + 1 > mark[c]
    BY <1>2
  <2>4. loads'[v].at > mark[c] /\ \A u \in Connections \ {v} : loads'[u] = loads[u]
    BY <1>2, <2>2, <2>3
  <2> QED
    BY <2>2, <2>3, <2>4 DEF Behind, TablesAfter, SchemasAfter
<1>8. ASSUME NEW c \in Connections, NEW a \in Aliases, Begin(c, a) PROVE ForgetInv'
  <2>1. /\ UNCHANGED <<attached, left, mark, overtook, sets, loads, freed>>
        /\ using' = [using EXCEPT ![c] = attached[a]] /\ loads[c] = NoLoad
    BY <1>8 DEF Begin, Idle, attachVars, historyVars, BaseInv, HeldOK
  <2>2. \A u \in Connections : loads'[u] = NoLoad \/ using'[u] = using[u]
    BY <1>2, <2>1
  <2> QED
    BY <1>1, <1>3, <2>1, <2>2
<1>9. ASSUME NEW c \in Connections, Operation(c) \/ End(c) PROVE ForgetInv'
  <2>1. Shape(c)
    BY <1>9, OperationShape DEF BaseInv
  <2>2. UNCHANGED <<attached, left, mark, overtook, sets>>
    BY <2>1 DEF Shape, Unchanged, attachVars
  <2>3. /\ loads' = [loads EXCEPT ![c] = NoLoad] /\ freed' = [freed EXCEPT ![c] = FALSE]
        /\ using' \in {using, [using EXCEPT ![c] = 0]}
    BY <2>1 DEF Shape, Gives, Throw, Finish, Return
  <2>4. \A u \in Connections : \/ loads'[u] = NoLoad
                               \/ using'[u] = using[u] /\ loads'[u] = loads[u] /\ freed'[u] = freed[u]
    BY <1>2, <2>3
  <2> QED
    BY <1>1, <1>3, <2>2, <2>4
<1>10. ASSUME NEW c \in Connections, UseAfterFree(c) PROVE ForgetInv'
  BY <1>4, <1>10 DEF UseAfterFree, attachVars, callVars, historyVars
<1>11. ASSUME NEW c \in Connections, ClearUCCaches(c) PROVE ForgetInv'
  <2>1. /\ UNCHANGED <<attached, sets, using, loads, freed>>
        /\ mark' = [mark EXCEPT ![c] = clock + 1] /\ overtook' = [overtook EXCEPT ![c] = {}]
        /\ left' = [left EXCEPT ![c] = ({attached[a] : a \in Aliases} \ {0}) \cup OtherDatabases]
    BY <1>11 DEF ClearUCCaches, attachVars
  <2> SUFFICES ASSUME NEW u \in Connections, NEW a \in Aliases,
                      attached[a] # 0, attached[a] \notin left'[u]
               PROVE  Behind(u, attached[a])'
    BY <1>1, <2>1
  <2>2. u # c
    BY <1>2, <2>1
  <2>3. mark'[u] = mark[u] /\ overtook'[u] = overtook[u] /\ Behind(u, attached[a])
    BY <1>2, <2>1, <2>2
  <2> QED
    BY <1>3, <2>1, <2>3
<1>12. ASSUME NEW c \in Connections, VisitDatabase(c) PROVE ForgetInv'
  <2>1. UNCHANGED <<attached, mark, using, held, loads>>
    BY <1>12 DEF VisitDatabase, attachVars
  <2>2. PICK d \in left[c] :
           /\ left' = [left EXCEPT ![c] = @ \ {d}]
           /\ \/ d \in OtherDatabases /\ UNCHANGED <<sets, freed, listed, overtook>>
              \/ /\ d \in 1..Len(sets)
                 /\ sets' = [sets EXCEPT ![d] = NothingLoaded]
                 /\ freed' = [u \in Connections |-> freed[u] \/ (using[u] = d /\ held[u] # NoPointers)]
                 /\ overtook' = [overtook EXCEPT ![c] = @ \cup {k \in {d} : OldLoad(c, k)}]
    BY <1>12, VisitClears
  <2> SUFFICES ASSUME NEW u \in Connections, NEW a \in Aliases,
                      attached[a] # 0, attached[a] \notin left'[u]
               PROVE  Behind(u, attached[a])'
    BY <1>1, <2>1
  <2> DEFINE k == attached[a]
  <2>3. k \in 1..Len(sets)
    BY <1>2
  <2>4. CASE k # d
    <3>1. k \notin left[u] /\ Behind(u, k)
      BY <1>2, <2>1, <2>2, <2>4
    <3>2. sets'[k] = sets[k]
      BY <1>2, <2>2, <2>3, <2>4
    <3>3. overtook[u] \subseteq overtook'[u]
      <4> DEFINE more == {j \in {d} : OldLoad(c, j)}
      <4>1. overtook' = overtook \/ overtook' = [overtook EXCEPT ![c] = @ \cup more]
        BY <2>2
      <4> HIDE DEF more
      <4> QED
        BY <1>2, <4>1
    <3>4. \A v \in Connections : freed[v] => freed'[v]
      BY <2>2, Zenon
    <3> QED
      BY <1>3, <2>1, <3>1, <3>2, <3>3, <3>4
  <2>5. CASE k = d
    <3>1. /\ sets'[k] = NothingLoaded
          /\ freed' = [v \in Connections |-> freed[v] \/ (using[v] = k /\ held[v] # NoPointers)]
          /\ overtook' = [overtook EXCEPT ![c] = @ \cup {j \in {k} : OldLoad(c, j)}]
      BY <1>2, <2>2, <2>3, <2>5, OtherDatabasesAssumption
    <3>2. ASSUME NEW v \in Connections, using[v] = k, loads[v].schema # NoName PROVE freed'[v]
      <4>1. held[v] # NoPointers
        BY <1>2, <3>2 DEF BaseInv, HeldOK, NoLoad, NoPointers
      <4> QED
        BY <3>1, <3>2, <4>1, Zenon
    <3>3. TablesAfter(k, mark[u])'
      BY <2>1, <3>1, <3>2 DEF TablesAfter, NothingLoaded
    <3>4. ASSUME k \notin overtook'[u], NEW v \in Connections,
                 using[v] = k, loads[v] # NoLoad, loads[v].schema = NoName
          PROVE  loads[v].at > mark[u]
      <4>1. CASE u = c
        <5>1. ~OldLoad(c, k)
          <6> DEFINE more == {j \in {k} : OldLoad(c, j)}
          <6>1. k \notin more
            <7> HIDE DEF more
            <7> QED
              BY <1>2, <3>1, <3>4, <4>1 DEF more
          <6> QED
            BY <6>1
        <5>2. AtSchemas(v) /\ loads[v].at \in Nat \ {0} /\ mark[c] \in Nat
          BY <1>2, <2>3, <3>4 DEF AtSchemas, BaseInv, HeldOK, Listings
        <5>3. loads[v].at \notin 1..mark[c]
          BY <3>4, <5>1, <5>2 DEF OldLoad
        <5> QED
          BY <4>1, <5>2, <5>3
      <4>2. CASE u # c
        <5>1. left'[u] = left[u] /\ overtook'[u] = overtook[u]
          BY <1>2, <2>2, <3>1, <4>2
        <5> QED
          BY <2>1, <3>4, <5>1 DEF Behind, SchemasAfter
      <4> QED
        BY <4>1, <4>2
    <3>5. ASSUME k \notin overtook'[u] PROVE SchemasAfter(k, mark[u])'
      BY <2>1, <3>1, <3>4, <3>5 DEF SchemasAfter, NothingLoaded
    <3> QED
      BY <2>1, <3>3, <3>5 DEF Behind
  <2> QED
    BY <2>4, <2>5
<1>13. CASE UNCHANGED vars
  BY <1>4, <1>13 DEF vars, attachVars, callVars, historyVars
<1> QED
  BY <1>5, <1>6, <1>7, <1>8, <1>9, <1>10, <1>11, <1>12, <1>13, NextCases

\* ClearUCCaches looks at the databases attached when it begins, and a catalog
\* attached later starts empty.  Behind its loop the catalogs hold nothing from
\* a listing older than the clear, but schemas whose load the clear came into: a
\* load of tables loses its set, the entries of a schema that is freed.
THEOREM ClearsForget == Spec => []ClearForgetsEverywhere
<1>1. Init => ForgetInv
  BY BaseInit DEF Init, AttachInit, ForgetInv
<1>2. ForgetInv => ClearForgetsEverywhere
  BY DEF ForgetInv, Behind, TablesAfter, SchemasAfter, ClearForgetsEverywhere
<1> QED
  BY <1>1, <1>2, ForgetStep, PTL DEF Spec
-----------------------------------------------------------------------------
(* What scans have shown.                                                  *)

ListedInv == BaseInv /\ ListedOK

LEMMA ListedStep == ListedInv /\ [Next]_vars => ListedInv'
<1> SUFFICES ASSUME ListedInv, [Next]_vars PROVE ListedInv'
  OBVIOUS
<1> USE DEF ListedInv
<1>1. BaseInv'
  BY BaseStep
<1>2. /\ sets \in Seq(CatalogSets) /\ listed \in Seq(SUBSET Things) /\ Len(listed) = Len(sets)
      /\ Len(sets) \in Nat
  BY SetsTyped, LenProperties DEF BaseInv, TypeOK
<1>3. listed' \in Seq(SUBSET Things) /\ Len(listed') = Len(sets')
  BY <1>1 DEF BaseInv, TypeOK, Things
<1>4. ASSUME \A k \in 1..Len(listed') : Exist(k, listed[k])' PROVE ListedInv'
  BY <1>1, <1>3, <1>4 DEF ListedOK
<1>5. ASSUME NEW k \in 1..Len(listed), listed'[k] = listed[k], sets'[k] = sets[k]
      PROVE  Exist(k, listed[k])'
  BY <1>5 DEF ListedOK, Exist
<1>6. ASSUME UNCHANGED <<sets, listed>> PROVE ListedInv'
  BY <1>1, <1>6 DEF ListedOK, Exist
<1>7. CASE Administer
  <2>1. /\ \A k \in 1..Len(sets) : sets'[k] = sets[k] /\ listed'[k] = listed[k]
        /\ Len(listed') = Len(listed) + 1 => listed'[Len(listed) + 1] = {}
        /\ Len(listed') \in {Len(listed), Len(listed) + 1}
    BY <1>2, <1>7, AdministerAdds
  <2>2. ASSUME NEW k \in 1..Len(listed') PROVE Exist(k, listed[k])'
    <3>1. CASE k \in 1..Len(listed)
      BY <1>2, <1>5, <2>1, <3>1
    <3>2. CASE k = Len(listed) + 1
      <4>1. listed'[k] = {}
        BY <1>2, <2>1, <3>2
      <4> QED
        BY <4>1 DEF Exist
    <3> QED
      BY <1>2, <2>1, <3>1, <3>2
  <2> QED
    BY <1>4, <2>2
<1>8. ASSUME NEW c \in Connections, CreateEntry(c) PROVE ListedInv'
  <2> DEFINE k == using[c]
             at == loads[c].at
  <2>1. listed' = listed /\ Filled(k, at) /\ at # 0
    BY <1>8, CreateEntryFills DEF historyVars
  <2> HIDE DEF k, at
  <2>2. ASSUME NEW j \in 1..Len(listed') PROVE Exist(j, listed[j])'
    <3>1. j \in 1..Len(sets) /\ listed[j] \in SUBSET Things /\ Exist(j, listed[j])
      BY <1>2, <2>1 DEF ListedOK
    <3>2. CASE j # k
      BY <1>2, <1>5, <2>1, <3>1, <3>2 DEF Filled
    <3>3. CASE j = k
      <4>1. ASSUME NEW x \in listed[j]
            PROVE  IF x.table = NoName THEN sets'[k].schemas[x.schema] # 0
                   ELSE sets'[k].tables[x.schema][x.table] # 0
        <5>1. x.schema \in Schemas /\ x.table \in Tables \cup {NoName}
          BY <3>1, <4>1 DEF Things
        <5>2. IF x.table = NoName THEN sets[k].schemas[x.schema] # 0
              ELSE sets[k].tables[x.schema][x.table] # 0
          BY <3>1, <3>3, <4>1 DEF Exist
        <5> QED
          BY <2>1, <5>1, <5>2 DEF Filled
      <4> QED
        BY <2>1, <3>3, <4>1 DEF Exist
    <3> QED
      BY <3>2, <3>3
  <2> QED
    BY <1>4, <2>2
<1>9. ASSUME NEW c \in Connections, Operation(c) \/ End(c) PROVE ListedInv'
  <2>1. Shape(c) /\ using[c] \in 1..Len(sets)
    BY <1>9, OperationShape, SetsTyped DEF BaseInv, Shape
  <2>2. sets' = sets
    BY <2>1 DEF Shape, Unchanged
  <2>3. CASE \E how \in {"none", "missing", "error", "refused"} : Throw(c, how)
    BY <1>6, <2>2, <2>3 DEF Throw
  <2>4. ASSUME NEW p, NEW shown, Gives(c, p, shown) PROVE ListedInv'
    <3>1. listed' = [listed EXCEPT ![using[c]] = @ \cup shown] /\ Exist(using[c], shown)
      BY <2>4 DEF Gives, Return
    <3>2. ASSUME NEW k \in 1..Len(listed') PROVE Exist(k, listed[k])'
      <4>1. CASE k # using[c]
        BY <1>2, <1>5, <2>2, <3>1, <4>1
      <4>2. CASE k = using[c]
        <5> HIDE DEF Exist
        <5>1. Exist(k, shown)
          BY <3>1, <4>2
        <5>2. k \in DOMAIN listed /\ Exist(k, listed[k])
          BY <1>2, <2>1, <4>2 DEF ListedOK
        <5>3. listed'[k] = listed[k] \cup shown
          BY <3>1, <4>2, <5>2
        <5> QED
          BY <2>2, <5>1, <5>2, <5>3 DEF Exist
      <4> QED
        BY <4>1, <4>2
    <3> QED
      BY <1>4, <3>2
  <2> QED
    BY <2>1, <2>3, <2>4 DEF Shape
<1>10. ASSUME NEW c \in Connections, VisitDatabase(c) PROVE ListedInv'
  <2>1. CASE UNCHANGED <<sets, listed>>
    BY <1>6, <2>1
  <2>2. ASSUME NEW d \in 1..Len(sets), sets' = [sets EXCEPT ![d] = NothingLoaded],
               listed' = [listed EXCEPT ![d] = {}]
        PROVE  ListedInv'
    <3>1. ASSUME NEW k \in 1..Len(listed') PROVE Exist(k, listed[k])'
      <4>1. CASE k # d
        BY <1>2, <1>5, <2>2, <4>1
      <4>2. CASE k = d
        <5>1. listed'[k] = {}
          BY <1>2, <2>2, <4>2
        <5> QED
          BY <5>1 DEF Exist
      <4> QED
        BY <4>1, <4>2
    <3> QED
      BY <1>4, <3>1
  <2> QED
    BY <1>10, <2>1, <2>2, VisitClears
<1>11. ASSUME NEW c \in Connections,
              \/ FetchSchemas(c) \/ FetchTables(c) \/ \E a \in Aliases : Begin(c, a)
              \/ UseAfterFree(c) \/ ClearUCCaches(c)
       PROVE  ListedInv'
  <2>1. UNCHANGED <<sets, listed>>
    BY <1>11 DEF FetchSchemas, FetchTables, Fetch, Begin, UseAfterFree, ClearUCCaches, historyVars
  <2> QED
    BY <1>6, <2>1
<1>12. CASE UNCHANGED vars
  BY <1>6, <1>12 DEF vars, historyVars
<1> QED
  BY <1>7, <1>8, <1>9, <1>10, <1>11, <1>12, NextCases

ListedFound ==
    \A c \in Connections : using[c] # 0 /\ missing' =>
         /\ \A s \in Schemas \ {DefaultSchema}, returnNull \in BOOLEAN :
              Shown(s, NoName) \in listed[using[c]] => ~GetSchema(c, s, returnNull)
         /\ \A n \in Tables, type \in {"TABLE_ENTRY", "VIEW_ENTRY"} :
              Shown(held[c].schema, n) \in listed[using[c]] => ~GetEntry(c, type, n)

LEMMA ListedFoundNow == ListedInv => ListedFound
<1> SUFFICES ASSUME ListedInv, NEW c \in Connections, using[c] # 0
             PROVE  /\ \A s \in Schemas \ {DefaultSchema}, returnNull \in BOOLEAN :
                         Shown(s, NoName) \in listed[using[c]] /\ GetSchema(c, s, returnNull)
                           => ~missing'
                    /\ \A n \in Tables, type \in {"TABLE_ENTRY", "VIEW_ENTRY"} :
                         Shown(held[c].schema, n) \in listed[using[c]] /\ GetEntry(c, type, n)
                           => ~missing'
  BY DEF ListedFound
<1>1. Exist(using[c], listed[using[c]])
  BY SetsTyped DEF ListedInv, BaseInv, ListedOK, Exist
<1>2. \A p, shown : Return(c, "found", p, shown) => ~missing'
  BY DEF Return
<1>3. Throw(c, "error") => ~missing'
  BY DEF Throw, Finish
<1>4. ASSUME NEW s \in Schemas \ {DefaultSchema}, NEW returnNull \in BOOLEAN,
             Shown(s, NoName) \in listed[using[c]], GetSchema(c, s, returnNull)
      PROVE  ~missing'
  <2>1. sets[using[c]].schemas[s] # 0
    BY <1>1, <1>4 DEF Exist, Shown
  <2> QED
    BY <1>2, <1>3, <1>4, <2>1 DEF GetSchema
<1>5. ASSUME NEW n \in Tables, NEW type \in {"TABLE_ENTRY", "VIEW_ENTRY"},
             Shown(held[c].schema, n) \in listed[using[c]], GetEntry(c, type, n)
      PROVE  ~missing'
  <2>1. TableAt(c, n) # 0
    BY <1>1, <1>5, QueryNamesAssumption DEF Exist, Shown, TableAt
  <2>2. CatalogTypeIsSupported(type) /\ HasCatalogSet(type)
    BY DEF CatalogTypeIsSupported, HasCatalogSet
  <2>3. ReturnEntry(c, n) \/ Throw(c, "error")
    BY <1>5, <2>2 DEF GetEntry
  <2> QED
    BY <1>2, <1>3, <2>1, <2>3 DEF ReturnEntry
<1> QED
  BY <1>4, <1>5

\* GetCatalogSet gives the set that was scanned, and nothing removes an entry
\* from it: what ScanSchemas and Scan showed, GetSchema and GetEntry find.
THEOREM ListedFoundAlways == Spec => ListedIsFound
<1>1. Init => ListedInv
  BY BaseInit DEF Init, ListedInv, ListedOK
<1>2. ListedInv /\ [Next]_vars => [ListedFound]_vars
  BY ListedFoundNow
<1>3. Spec => [][ListedFound]_vars
  BY <1>1, <1>2, ListedStep, PTL DEF Spec
<1> QED
  BY <1>3 DEF ListedIsFound, ListedFound
=============================================================================
