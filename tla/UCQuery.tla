------------------------------- MODULE UCQuery -------------------------------
(***************************************************************************)
(* The operations of UCCatalog and UCSchemaEntry (src/storage/uc_catalog   *)
(* .cpp, uc_schema_entry.cpp) as the statements of several connections     *)
(* call them, on catalogs that are attached, detached and cleared          *)
(* meanwhile (uc_clear_cache.cpp).                                         *)
(*                                                                         *)
(* An operation asks at most one question of one catalog set.  It may load *)
(* the set first: the listing arrives, and entry by entry is inserted.  It *)
(* is then answered as CatalogContract allows, which UCCatalogSet          *)
(* implements: from the state of the set at one instant, or with an error; *)
(* that is one action.  What matters of the interleavings is what a        *)
(* statement carries from one step to the next: pointers between two       *)
(* operations, a listing during a load.                                    *)
(***************************************************************************)
EXTENDS UCAttach, FiniteSets

CONSTANTS
    Connections,
    Schemas, Tables, \* names
    DefaultSchema,   \* DEFAULT_SCHEMA, "main"
    OtherDatabases,  \* attached databases that are not of type "uc"
    MaxStatements    \* bound: statements of all connections together

ASSUME QueryNamesAssumption == NoName \notin Schemas \cup Tables
ASSUME OtherDatabasesAssumption == OtherDatabases \cap Nat = {}
ASSUME StatementsAssumption == MaxStatements \in Nat

VARIABLES
    sets,       \* sets[k]: the schema set of catalog k and its table sets.  Of
                \* an entry they hold when the listing it is from arrived, 0 is
                \* no entry
    using,      \* the catalog the connection's statement uses, 0 between two
    held,       \* the pointers to a schema and a table the statement has
    freed,      \* a clear has freed what these point to
    loads,      \* the listing its current operation inserts: of the schemas
                \* (NoName) or of a schema's tables, and when it arrived
    left,       \* databases the connection's uc_clear_cache still visits
    statements, \* statements begun
    crashed,    \* a freed entry was used: nothing can be said any more
    missing,    \* the last step was an operation that found no such entry
    clock,      \* history: clears begun
    mark,       \* history: the number of the connection's last clear
    listed,     \* history: listed[k]: what scans of k have shown since it was
                \* last cleared
    overtook    \* history: the catalogs the connection's last clear came to
                \* during a load of schemas listed before it began

callVars == <<using, held, freed, loads, left>>
historyVars == <<clock, mark, listed, overtook>>
vars == <<attachVars, sets, callVars, statements, crashed, missing, historyVars>>

\* Catalog types; the ones not named behave like a sequence.
Types == {"TABLE_ENTRY", "VIEW_ENTRY", "INDEX_ENTRY", "SEQUENCE_ENTRY"}
Policies == {"ERROR", "REPLACE", "IGNORE"}

NothingLoaded == [schemas |-> [s \in Schemas |-> 0],
                  tables |-> [s \in Schemas |-> [n \in Tables |-> 0]]]

NoPointers == [schema |-> NoName, schemaAt |-> 0, table |-> NoName, tableAt |-> 0]
NoLoad == [schema |-> NoName, at |-> 0]
ToSchema(k, s) == [NoPointers EXCEPT !.schema = s, !.schemaAt = sets[k].schemas[s]]

\* A schema or a table that a scan has shown.
Shown(s, n) == [schema |-> s, table |-> n]

Init ==
    /\ AttachInit
    /\ sets = <<>>
    /\ using = [c \in Connections |-> 0]
    /\ held = [c \in Connections |-> NoPointers]
    /\ freed = [c \in Connections |-> FALSE]
    /\ loads = [c \in Connections |-> NoLoad]
    /\ left = [c \in Connections |-> {}]
    /\ statements = 0
    /\ crashed = FALSE
    /\ missing = FALSE
    /\ clock = 0
    /\ mark = [c \in Connections |-> 0]
    /\ listed = <<>>
    /\ overtook = [c \in Connections |-> {}]
-----------------------------------------------------------------------------
(* Statements.                                                             *)

BeginStatement == statements < MaxStatements /\ statements' = statements + 1

Idle(c) == using[c] = 0 /\ left[c] = {}

\* CREATE SECRET, DROP SECRET, ATTACH, DETACH.
Administer ==
    /\ BeginStatement
    /\ \/ (ChangeSecrets \/ \E a \in Aliases : Detach(a)) /\ UNCHANGED <<sets, listed>>
       \/ /\ \E a \in Aliases, options \in SUBSET {"secret", "unknown"},
                text \in SecretNames \cup {NoName} : UCCatalogAttach(a, options, text)
          /\ sets' = Append(sets, NothingLoaded)
          /\ listed' = Append(listed, {})
    /\ missing' = FALSE
    /\ UNCHANGED <<callVars, crashed, clock, mark, overtook>>

\* A statement that names a catalog begins.
Begin(c, a) ==
    /\ Idle(c) /\ attached[a] # 0
    /\ BeginStatement
    /\ using' = [using EXCEPT ![c] = attached[a]]
    /\ missing' = FALSE
    /\ UNCHANGED <<attachVars, sets, held, freed, loads, left, crashed, historyVars>>

\* It ends, well or by an exception, and its pointers are gone.
Finish(c, how) ==
    /\ using' = [using EXCEPT ![c] = 0]
    /\ held' = [held EXCEPT ![c] = NoPointers]
    /\ freed' = [freed EXCEPT ![c] = FALSE]
    /\ loads' = [loads EXCEPT ![c] = NoLoad]
    /\ missing' = (how = "missing")

Throw(c, what) == Finish(c, what) /\ UNCHANGED listed

\* An operation returns: with pointers, and having shown some things.
Return(c, how, pointers, shown) ==
    /\ held' = [held EXCEPT ![c] = pointers]
    /\ freed' = [freed EXCEPT ![c] = FALSE]
    /\ loads' = [loads EXCEPT ![c] = NoLoad]
    /\ missing' = (how = "missing")
    /\ listed' = [listed EXCEPT ![using[c]] = @ \cup shown]
    /\ UNCHANGED using

Unchanged == UNCHANGED <<attachVars, sets, left, statements, crashed, clock, mark, overtook>>

\* The statement is between two operations.
OnCatalog(c) == using[c] # 0 /\ loads[c] = NoLoad

End(c) == OnCatalog(c) /\ Throw(c, "none") /\ Unchanged

\* The entries the statement has pointers to are the ones in the sets.
InSets(c) ==
    LET p == held[c]
        k == using[c] IN
    /\ p.schema # NoName => sets[k].schemas[p.schema] = p.schemaAt
    /\ p.table # NoName => sets[k].tables[p.schema][p.table] = p.tableAt

\* Its pointers point to entries that exist.
Valid(c) == ~freed[c] /\ InSets(c)

\* A statement goes on with a pointer to an entry that a clear has freed.
UseAfterFree(c) ==
    /\ using[c] # 0 /\ ~Valid(c)
    /\ crashed' = TRUE
    /\ UNCHANGED <<attachVars, sets, callVars, statements, missing, historyVars>>

-----------------------------------------------------------------------------
(* Loads.  Whether one is due, and that two connections may load one set at *)
(* the same time, is module UCCatalogSet's matter; here any operation that  *)
(* asks a set may begin with one, and fail or be answered at any time.      *)

\* An operation that needs the pointer to a schema, and one that asks its set.
OnSchema(c) == OnCatalog(c) /\ held[c].schema # NoName /\ Valid(c)
AtSchemas(c) == using[c] # 0 /\ loads[c].schema = NoName
AtTables(c) ==
    /\ using[c] # 0 /\ held[c].schema # NoName /\ Valid(c)
    /\ loads[c] # NoLoad => loads[c].schema # NoName

\* UCSchemaSet::LoadEntries and UCTableSet::LoadEntries: the listing arrives.
Fetch(c, s) ==
    /\ loads' = [loads EXCEPT ![c] = [schema |-> s, at |-> clock + 1]]
    /\ missing' = FALSE
    /\ UNCHANGED <<attachVars, sets, using, held, freed, left, statements, crashed,
                   historyVars>>

FetchSchemas(c) == OnCatalog(c) /\ Fetch(c, NoName)
FetchTables(c) == OnSchema(c) /\ Fetch(c, held[c].schema)

\* An entry is built from the listing and inserted.
CreateEntry(c) ==
    LET k == using[c]
        load == loads[c] IN
    /\ load # NoLoad
    /\ \/ \E s \in Schemas :
            /\ AtSchemas(c) /\ sets[k].schemas[s] = 0
            /\ sets' = [sets EXCEPT ![k].schemas[s] = load.at]
       \/ \E n \in Tables :
            /\ AtTables(c) /\ sets[k].tables[load.schema][n] = 0
            /\ sets' = [sets EXCEPT ![k].tables[load.schema][n] = load.at]
    /\ missing' = FALSE
    /\ UNCHANGED <<attachVars, callVars, statements, crashed, historyVars>>
-----------------------------------------------------------------------------
(* UCCatalog.                                                              *)

\* default_schema is never set: asking for DEFAULT_SCHEMA is always an error,
\* whatever the caller wants to happen when a schema is not found.
GetSchema(c, s, returnNull) ==
    LET k == using[c] IN
    /\ \/ s = DefaultSchema /\ OnCatalog(c) /\ Throw(c, "refused")
       \/ /\ s # DefaultSchema /\ AtSchemas(c)
          /\ \/ Throw(c, "error")
             \/ sets[k].schemas[s] # 0 /\ Return(c, "found", ToSchema(k, s), {})
             \/ /\ sets[k].schemas[s] = 0
                /\ IF returnNull THEN Return(c, "missing", NoPointers, {})
                   ELSE Throw(c, "missing")
    /\ Unchanged

\* The callback is given every schema; the caller goes on with one of them.
ScanSchemas(c) ==
    LET k == using[c]
        present == {s \in Schemas : sets[k].schemas[s] # 0} IN
    /\ AtSchemas(c)
    /\ \/ Throw(c, "error")
       \/ \E s \in present :
            Return(c, "found", ToSchema(k, s), {Shown(x, NoName) : x \in present})
       \/ present = {} /\ Return(c, "found", NoPointers, {})
    /\ Unchanged

DropSchemaErases(c, s) == \* mutant: the entry is erased before the exception
    /\ OnCatalog(c)
    /\ Throw(c, "error")
    /\ sets' = [sets EXCEPT ![using[c]].schemas[s] = 0]
    /\ UNCHANGED <<attachVars, left, statements, crashed, clock, mark, overtook>>

\* UCCatalogSet::DropEntry only throws.
DropSchema(c, s) == OnCatalog(c) /\ Throw(c, "refused") /\ Unchanged

\* With REPLACE it is DropEntry that throws, otherwise UCSchemaSet::CreateSchema.
CreateSchema(c) == OnCatalog(c) /\ Throw(c, "refused") /\ Unchanged

\* PlanInsert, PlanCreateTableAs, PlanDelete, PlanUpdate, BindCreateIndex.
PlanWrite(c) == OnCatalog(c) /\ Throw(c, "refused") /\ Unchanged

\* default_schema again.
GetDatabaseSize(c) == OnCatalog(c) /\ Throw(c, "refused") /\ Unchanged
-----------------------------------------------------------------------------
(* UCSchemaEntry.                                                          *)

CatalogTypeIsSupported(type) == type \in {"INDEX_ENTRY", "TABLE_ENTRY", "VIEW_ENTRY"}

\* The types for which GetCatalogSet does not throw an InternalException.
HasCatalogSet(type) == type \in {"TABLE_ENTRY", "VIEW_ENTRY"}

TableAt(c, n) == sets[using[c]].tables[held[c].schema][n]
ToTable(c, n) == [held[c] EXCEPT !.table = n, !.tableAt = TableAt(c, n)]

ReturnEntry(c, n) ==
    IF TableAt(c, n) # 0 THEN Return(c, "found", ToTable(c, n), {})
    ELSE Return(c, "missing", held[c], {})

GetEntry(c, type, n) ==
    /\ IF ~CatalogTypeIsSupported(type) THEN OnSchema(c) /\ Return(c, "missing", held[c], {})
       ELSE IF ~HasCatalogSet(type) THEN OnSchema(c) /\ Throw(c, "refused")
       ELSE AtTables(c) /\ (ReturnEntry(c, n) \/ Throw(c, "error"))
    /\ Unchanged

Scan(c, type) ==
    LET s == held[c].schema
        present == {n \in Tables : TableAt(c, n) # 0} IN
    /\ IF ~CatalogTypeIsSupported(type) THEN OnSchema(c) /\ Return(c, "found", held[c], {})
       ELSE IF ~HasCatalogSet(type) THEN OnSchema(c) /\ Throw(c, "refused")
       ELSE /\ AtTables(c)
            /\ \/ Throw(c, "error")
               \/ Return(c, "found", held[c], {Shown(s, n) : n \in present})
    /\ Unchanged

\* CREATE VIEW IF NOT EXISTS returns an entry of that name, be it a table.
\* Everything else ends in an exception: the empty statement, REPLACE of an
\* entry that exists, and RefreshTable, which throws before it inserts.
CreateView(c, n, policy, sqlEmpty) ==
    /\ IF sqlEmpty \/ policy = "ERROR" THEN OnSchema(c) /\ Throw(c, "error")
       ELSE /\ AtTables(c)
            /\ \/ policy = "IGNORE" /\ TableAt(c, n) # 0 /\ ReturnEntry(c, n)
               \/ Throw(c, "error")
    /\ Unchanged

DropEntryErases(c, type, n) == \* mutant: the entry is erased before the exception
    /\ OnSchema(c)
    /\ Throw(c, "error")
    /\ sets' = [sets EXCEPT ![using[c]].tables[held[c].schema][n] = 0]
    /\ UNCHANGED <<attachVars, left, statements, crashed, clock, mark, overtook>>

DropEntry(c, type, n) ==
    /\ OnSchema(c)
    /\ Throw(c, "refused")
    /\ Unchanged

\* With REPLACE it throws here, otherwise in UCTableSet::CreateTable.
CreateTable(c) == OnSchema(c) /\ Throw(c, "refused") /\ Unchanged

CreateFunction(c) == OnSchema(c) /\ Throw(c, "refused") /\ Unchanged

CreateIndex(c) == OnSchema(c) /\ Throw(c, "refused") /\ Unchanged

\* Types, sequences, table, copy and pragma functions, collations.
CreateOther(c) == OnSchema(c) /\ Throw(c, "refused") /\ Unchanged

\* Both for a table and for anything else.
Alter(c) == OnSchema(c) /\ Throw(c, "refused") /\ Unchanged

Operation(c) ==
    \/ \E s \in Schemas, returnNull \in BOOLEAN : GetSchema(c, s, returnNull)
    \/ ScanSchemas(c)
    \/ \E s \in Schemas : DropSchema(c, s)
    \/ CreateSchema(c) \/ PlanWrite(c) \/ GetDatabaseSize(c)
    \/ \E type \in Types, n \in Tables : GetEntry(c, type, n) \/ DropEntry(c, type, n)
    \/ \E type \in Types : Scan(c, type)
    \/ \E n \in Tables, policy \in Policies, sqlEmpty \in BOOLEAN :
         CreateView(c, n, policy, sqlEmpty)
    \/ CreateTable(c) \/ CreateFunction(c) \/ CreateIndex(c) \/ CreateOther(c) \/ Alter(c)
-----------------------------------------------------------------------------
(* uc_clear_cache, as a function or as a setting.  The function clears on  *)
(* the first call with its bind data, the ones after that return at once.  *)

RegisteredType(d) == IF d \in OtherDatabases THEN "duckdb" ELSE "uc_catalog" \* mutant

GetCatalogType(d) == IF d \in OtherDatabases THEN "duckdb" ELSE "uc"

\* GetDatabases: those attached now.
ClearUCCaches(c) ==
    /\ Idle(c)
    /\ BeginStatement
    /\ left' = [left EXCEPT ![c] = ({attached[a] : a \in Aliases} \ {0}) \cup OtherDatabases]
    /\ clock' = clock + 1
    /\ mark' = [mark EXCEPT ![c] = clock + 1]
    /\ missing' = FALSE
    /\ overtook' = [overtook EXCEPT ![c] = {}]
    /\ UNCHANGED <<attachVars, sets, using, held, freed, loads, crashed, listed>>

\* schemas.ClearEntries(): the table sets go with the schemas.  It comes between
\* two operations or during a load.  A load of tables has lost its set then, and
\* can only end in a use after free; one of schemas goes on with the listing it
\* has.  What else a clear may overlap is module UCCatalogSet's matter.
ClearCache(k) ==
    /\ sets' = [sets EXCEPT ![k] = NothingLoaded]
    /\ freed' = [u \in Connections |-> freed[u] \/ (using[u] = k /\ held[u] # NoPointers)]
    /\ listed' = [listed EXCEPT ![k] = {}]

\* Schemas of k that were listed before connection c's clear began are being
\* inserted.
OldLoad(c, k) ==
    \E u \in Connections : using[u] = k /\ AtSchemas(u) /\ loads[u].at \in 1..mark[c]

\* One turn of the loop.
VisitDatabase(c) ==
    /\ \E d \in left[c] :
         /\ left' = [left EXCEPT ![c] = @ \ {d}]
         /\ IF GetCatalogType(d) # "uc" THEN UNCHANGED <<sets, freed, listed, overtook>>
            ELSE /\ ClearCache(d)
                 /\ overtook' = [overtook EXCEPT ![c] =
                                    @ \cup {k \in {d} : OldLoad(c, k)}]
    /\ missing' = FALSE
    /\ UNCHANGED <<attachVars, using, held, loads, statements, crashed, clock, mark>>

Next ==
    /\ ~crashed
    /\ \/ Administer
       \/ \E c \in Connections :
            \/ \E a \in Aliases : Begin(c, a)
            \/ FetchSchemas(c) \/ FetchTables(c) \/ CreateEntry(c)
            \/ Operation(c) \/ End(c) \/ UseAfterFree(c)
            \/ ClearUCCaches(c) \/ VisitDatabase(c)

Spec == Init /\ [][Next]_vars
-----------------------------------------------------------------------------
(* Properties.                                                             *)

TypeOK ==
    /\ AttachTypeOK
    /\ sets \in Seq([schemas: [Schemas -> Nat], tables: [Schemas -> [Tables -> Nat]]])
    /\ listed \in Seq(SUBSET [schema: Schemas, table: Tables \cup {NoName}])
    /\ Len(sets) = Len(catalogs) /\ Len(listed) = Len(catalogs)
    /\ using \in [Connections -> 0..Len(sets)]
    /\ held \in [Connections -> [schema: Schemas \cup {NoName}, schemaAt: Nat,
                                 table: Tables \cup {NoName}, tableAt: Nat]]
    /\ loads \in [Connections -> [schema: Schemas \cup {NoName}, at: Nat]]
    /\ left \in [Connections -> SUBSET ((1..Len(sets)) \cup OtherDatabases)]
    /\ statements \in Nat /\ crashed \in BOOLEAN /\ missing \in BOOLEAN /\ clock \in Nat
    /\ mark \in [Connections -> 0..clock]
    /\ freed \in [Connections -> BOOLEAN]
    /\ overtook \in [Connections -> SUBSET (1..Len(sets))]

\* The pointers a statement carries from one operation to the next stay valid,
\* whatever other connections load, look up, detach, attach again, or try to
\* create, alter and drop; only a clear by another connection frees an entry in
\* use.
DanglingNeedsClear ==
    \A c \in Connections : using[c] # 0 /\ ~freed[c] => InSets(c)

\* Once a clear has visited a catalog, and for ever after it has returned, no
\* table in any attached catalog is from a listing received before the clear
\* began, whatever is attached, detached, loaded and cleared by others meanwhile:
\* a load of tables in flight never gets them in.  Neither is a schema, unless
\* the clear came between the listing of schemas and the end of a load begun
\* before it: such a load puts back what the clear has removed.
ClearForgetsEverywhere ==
    \A c \in Connections, a \in Aliases :
        LET k == attached[a] IN
        k # 0 /\ k \notin left[c] =>
            \A s \in Schemas :
                /\ sets[k].schemas[s] # 0 /\ k \notin overtook[c] =>
                     sets[k].schemas[s] > mark[c]
                /\ \A n \in Tables :
                     sets[k].tables[s][n] # 0 => sets[k].tables[s][n] > mark[c]

\* What a scan has shown to any connection can be opened by every connection
\* until the catalog is cleared: looking it up gives an entry or the error of a
\* load, also after failed attempts to drop or replace it.  The exceptions are
\* a schema of the name DEFAULT_SCHEMA, which is shown and cannot be opened, and
\* indexes, for which showing and opening both are an internal error.
ListedIsFound ==
    [][\A c \in Connections : using[c] # 0 /\ missing' =>
         /\ \A s \in Schemas \ {DefaultSchema}, returnNull \in BOOLEAN :
              Shown(s, NoName) \in listed[using[c]] => ~GetSchema(c, s, returnNull)
         /\ \A n \in Tables, type \in {"TABLE_ENTRY", "VIEW_ENTRY"} :
              Shown(held[c].schema, n) \in listed[using[c]] => ~GetEntry(c, type, n)]_vars
=============================================================================
