# A verification of uc_catalog

`uc_catalog` is a DuckDB extension that attaches a catalog of a Databricks Unity
Catalog server: `ATTACH 'c' AS a (TYPE UC_CATALOG)` makes the schemas and tables
of the server's catalog `c` visible to SQL. Nothing is copied: schemas and tables
are listed over REST the first time they are needed, kept in memory, and a table
is read through the `delta_scan` function with temporary S3 credentials fetched
for it. This directory holds TLA+ models of that program, TLC configurations that
check them on small instances, and proofs about them checked by TLAPS.

## Inventory

Paths are relative to `src/`, the repository's root.

| component | state | operations | hard behaviour |
|---|---|---|---|
| **Catalog sets** `src/storage/uc_catalog_set.cpp`, `uc_schema_set.cpp`, `uc_table_set.cpp`: a schema set per attached catalog, a table set per schema | `entries` (map, name -> owned entry), `is_loaded`, `entry_lock` | GetEntry, Scan, CreateEntry, LoadEntries, ClearEntries | used by the threads of all connections; `is_loaded` is unprotected; a load is a REST request followed by inserts, and may stop anywhere |
| **UCAPI** `src/uc_api.cpp` | none | GetSchemas, GetTables, GetTableCredentials | no timeout; HTTP status ignored; error documents parse as empty listings; missing fields throw half way |
| **UCCatalog, UCSchemaEntry** `src/storage/uc_catalog.cpp`, `uc_schema_entry.cpp` | the schema set, `credentials`, `internal_name`, `default_schema` | GetSchema, ScanSchemas, CreateSchema, DropSchema, GetDatabaseSize, the Plan functions, ClearCache; GetEntry, Scan, CreateView, CreateTable and its like, Alter, DropEntry | a statement carries raw pointers from one lookup to the next; dispatch on the catalog type; DDL that fails after a lookup |
| **UCTableEntry** `src/storage/uc_table_entry.cpp` | `table_data` (format, location, id) | GetScanFunction | request credentials, replace the table's secret, bind `delta_scan`: three steps, several connections, one shared secret per table |
| **Transactions** `src/storage/uc_transaction.cpp`, `uc_transaction_manager.cpp` | `transactions` map, `transaction_lock`, `transaction_state` | StartTransaction, CommitTransaction, RollbackTransaction | commit and rollback run outside the lock |
| **Type mapping** `src/uc_utils.cpp` | none | TypeToLogicalType, a recursive descent over type texts | separators and nesting; a scan that may run past its end |
| **Extension entry** `src/uc_catalog_extension.cpp` | secrets (DuckDB's), the credentials copied at ATTACH | CreateUCSecretFunction, GetSecret, UCCatalogAttach | two storages, of which one hides the other; credentials are a snapshot |
| **uc_clear_cache** `src/storage/uc_clear_cache.cpp` | `finished` of a call | ClearCacheFunction, ClearCacheOnSetting | a loop over the attached catalogs while others attach, detach and use them; not registered at this commit |

How they interact. DuckDB resolves `a.s.t` by `UCCatalog::GetSchema("s")` (the schema
set), then `UCSchemaEntry::GetEntry("t")` (that schema's table set), then
`UCTableEntry::GetScanFunction`. Each runs in the thread of the connection that
binds the query; threads share the sets, DuckDB's secrets and the transaction map,
and only `entry_lock`, `transaction_lock` and the secret manager order them. The
server is outside: it may change its contents at any time and its answer is one
of a listing, a listing with an incomplete item, any other body, or no answer.

What makes each component correct:

- *Catalog sets*: an existing schema or table is found; a pointer given out stays
  valid; a scan sees one state; a set marked loaded is complete; after a clear
  nothing old is served to a lone connection; nobody waits for another connection's request.
- *UCCatalog, UCSchemaEntry*: the pointer one operation gives is valid in the next;
  what is listed can be opened; failed DDL leaves the sets as they were.
- *UCTableEntry*: a scan runs with credentials that belong to its table; a failed
  request leaves the working secret in place; the secret is as fresh as the last
  answer.
- *Transactions*: every started transaction is removed exactly once; an open one is
  never freed.
- *Type mapping*: the type a text denotes is the type returned, or an error is.
- *Extension entry*: a catalog uses one secret, the one found at ATTACH, whole.
- *uc_clear_cache*: when it has returned, no attached catalog serves what was listed
  before it began, as far as no load was in flight.

## Modules

| module | models |
|---|---|
| `UCAPI` | what the REST client makes of the kinds of answer |
| `UCCatalogSet` | the catalog sets, their callers' threads, the server |
| `CatalogContract` | what the sets promise, without loads, locks or a server |
| `UCCatalogSetContract` | the refinement mapping between the two |
| `UCCatalogSetProofs`, `UCCatalogSetClearProofs`, `UCCatalogSetContractProofs` | theorems about them: in general, with clears, without |
| `UCTableScan`, `UCTableScanProofs` | planning a scan with temporary credentials; theorems |
| `UCTransactionManager` | the transaction map |
| `TransactionContract`, `UCTransactionContract`, `UCTransactionProofs` | what it promises, the refinement mapping; theorems |
| `UCTypeMapping` | from a type's text to a type |
| `UCTypeMappingProofs`, `UCTypeRoundTripProofs` | theorems about any text; about the texts of types |
| `UCAttach` | secrets, ATTACH and DETACH, the credentials a catalog keeps |
| `UCQuery`, `UCQueryProofs` | statements of several connections on attached catalogs, and clears; theorems |
| `MCUCCatalogSet`, `MCUCTableScan`, `MCUCTypeMapping`, `MCUCQuery` | small constants for TLC |

`UCAPI` has no state and is extended by `UCCatalogSet` and `UCTableScan`. Its listings assume
that the name of a schema, if present, is a string: for another JSON value `yyjson_get_str` gives a
null pointer, of which a `std::string` is made (`src/uc_api.cpp:214-216`), which is undefined.
`UCQuery` extends
`UCAttach` and stands on `CatalogContract`: it takes each operation of a catalog set as
the one step that `UCCatalogSet` is shown to implement.

### UCCatalogSet

*State.* `isLoaded`, `entries` and `entryLock` are the three members of every
`UCCatalogSet`; the set `Root` is the schema set and the sets `TableSets` are the table
sets, each named by its schema. An entry object is identified by the number of the
fetch whose answer it was built from (`fetches` counts them), 0 means there is
none, so two objects for one name are told apart exactly when they come from
different requests. Names stand for classes of equal names: the map ignores case.
`remote` is the server's contents. A thread has a control point `pc`, the
arguments `call`, the fetch it inserts `batch`, the items left `todo`, the outcome
`answer`, and the pointers its last call gave it, `held`. `loadFailed` and `wipedAt`
are history variables: no action reads them to decide anything.

*Actions.* Each statement that touches shared state is one action:

| action | code |
|---|---|
| `GetEntry`, `Scan`, `ClearEntries` | entering the function |
| `CheckLoaded` | `if (!is_loaded)`, not under the lock |
| `ClaimLoad` | `is_loaded = true` |
| `Fetch` | the request of `LoadEntries`, the answer and its parsing; throws or delivers |
| `CreateEntry` | one turn of the loop: build the entry, insert it under the lock; an existing one stays |
| `RejectEntry` | a turn that throws: unknown column type, empty name |
| `FinishLoad` | the loop ends |
| `FindEntry` | `entries.find` under the lock, and the return |
| `LockForScan`, `VisitEntry`, `FinishScan` | the lock, one callback, the unlock |
| `WipeEntries`, `ResetLoaded` | the two statements of `ClearEntries`, without the lock |

`Fetch` reads the server's contents at one instant between request and answer; the
HTTP exchange has no other effect. `Requested` is where the two kinds of set differ
in what they ask for: the schema set by the alias, table sets by the path.
`ServerChange` lets every name in `Volatile` come and go; the names in `Stable` exist
throughout, and the properties about finding things speak of those.

`is_loaded` is a plain `bool` read and written without synchronisation. The reads
and writes are separate actions, so every order of them is a behaviour; a read
that returns an older value than the latest is the same as a read that took place
before the write, unless the reader has synchronised with the writer since, and
then the older value cannot be returned.

`Clearers` is the set of threads that may clear the cache. At this commit
`UCClearCacheFunction` is not registered (`LoadInternal`,
`src/uc_catalog_extension.cpp:131-145`), so `Clearers = {}` is the program as it is
built, and the runs about pointers use that. `WipeEntries` and `ResetLoaded` model
`ClearEntries` as it is written. With two threads a clear may free an entry another
thread holds, or empty the map under a scan's iterator, after which nothing can be
said of that pointer or that scan. The properties of `set_clear` therefore speak of
the pointers to entries of listings received since the last clear (their number
exceeds `wipedAt`), of what is in the map at each step of a scan, and of who holds the
lock; no action dereferences a pointer.

`WipeEntries` is one step. In the code `entries.clear()` (`src/storage/uc_catalog_set.cpp:55`)
is many, and takes no lock: when it overlaps an insert, a lookup or a scan of another
thread, which do, that is a data race on the map, whose outcome is undefined. That race
is not modelled. All that is said of clears is said of executions without it.

### CatalogContract

The promise to connections that share the sets while nobody clears them: a map
to which entries are only added; every call is answered from its state at one
instant; a call may fail. It has no loads, locks or server. In the mapping of
`UCCatalogSetContract` the contract's map is `entries`, a thread is busy when its `pc` is
not `idle`, and what it found is what it holds once it is idle again.

### UCTableScan

*State.* A connection is at a control point `pc` of `GetScanFunction`, with its `table`
and the `credentials` it received. The rest belongs to DuckDB, whose source is not
in the repository (the submodule is empty), and is modelled by what the code relies
on: `secrets`, the secrets of committed transactions, `written`, those of each
connection's open transaction, and `bound`, the tables bound in it. That secrets are
read and written under the connection's transaction is how the extension itself
uses them (`src/uc_catalog_extension.cpp:51`). A location is a sequence of path
elements, so that one can contain another; a reader of a path gets the secret with
the longest scope that is a prefix of it. `received` is a history variable.

*Actions.* `GetScanFunction` checks the format, then whether the location is local;
`RequestCredentials` is `UCAPI::GetTableCredentials` with every kind of answer;
`CreateSecret` is the replacement of the secret, impossible while another
transaction has an uncommitted secret of that name; `RefuseSecret` is its failure, for
that reason or another of DuckDB's; `Bind` and `BindThrows` are `delta_scan`'s bind;
`Commit` and `Rollback` end the transaction. A call that throws ends its statement.
That `delta_scan` is there (`require delta` in the test) is taken for granted.

*Readers.* The bind, and the file readers it starts, look up the secret of the
table's location. `Reading` is the set of tables for which this can happen in a state,
and `ReadersUseOwnCredentials` says what every such lookup yields, so no action for a
lookup is needed. `LocationsDiffer` assumes that the server gives no two tables the
same location; a table re-created where an old one was is a hazard listed in
`PROJECT.json` that this leaves open.

### UCTransactionManager

*State.* `transactions` and `transactionLock` are the members of the manager; `object` is
the heap: which transaction is alive at which address. The map's key is the
address of the object it owns, so a key can come back as soon as the object is
freed. `MakeTransaction` and `InsertTransaction` are the two halves of `StartTransaction`;
`CommitTransaction` and `RollbackTransaction` are the calls of `UCTransaction::Commit` and
`::Rollback`; `FreeTransaction` and `RemoveTransaction` are the two effects of `erase`, in
the order that leaves more room for others. A transaction's state never leaves
NOT_YET_STARTED at this commit, because `GetConnection` is commented out; `Finish` is
modelled as written.

`TransactionContract` is the promise to the connections: starting and ending a
transaction each take effect at one instant, and no step of a connection touches the
transaction of another. It has no addresses, objects or locks. In the mapping of
`UCTransactionContract` a connection's transaction is owned when the very object the
connection was given is alive at its address and the map holds it there, so an object
that another one replaced at the same address would not do.

### UCTypeMapping

`TypeToLogicalType` as a function on texts that are sequences of tokens. `NextSep`
and `Members` are the two loops that split a map or a struct, `DecimalOf` the decimal
branch. `Types` and `TypeText` are the server's side: the types a column can have and
how it writes them. All primitive names behave the same and are one token. Reading
beyond the text is the outcome `Overrun`, after which nothing is said. `TypeToString`
and `ToUCType` have no callers.

A struct has any number of fields up to the length of `FieldNames`. `TypesAssumption` keeps
the names of fields apart from the tokens a struct is laid out with (`Structural`): a field
with a `:`, `,` or `>` in its name is outside the model, one called like a type, as `int` in
the runs, is not. A text has a `Hole` where a member is missing: the opener of a map or a
struct, or a comma, directly before a `>`.

### UCAttach

*State.* `secrets`, by storage and name, and `attached`, the catalog behind every alias,
belong to DuckDB. `catalogs` are the `UCCatalog` objects in the order of their making, each
with its `credentials` and, as history, the secret that was found for it. A detached
catalog is never looked at again by a new statement, but statements that began
before keep it. A value is the number of the secret it was given to, so a mixture
of two secrets would show; 0 is a value not given, and the empty text of credentials.

*Actions.* `CreateSecret` (with `CreateUCSecretFunction`) and `DropSecret`; `UCCatalogAttach` with
its options, the lookup in two storages (`GetSecret`), the copy (`CredentialsOf`, line by
line with its test of the region by the endpoint) and its two exceptions; `Detach`.
`GetSecret` uses the system catalog's transaction for both lookups, which is why it is
one step. That CREATE SECRET accepts only the registered parameters is DuckDB's, so
the last branch of `CreateUCSecretFunction` is never taken.

### UCQuery

*State.* `sets` are the schema set and the table sets of each catalog. Of an entry they hold
when the listing it was built from arrived, counted in clears: 1 before the first clear
began, 2 after it, and so on. It is the arrival of the listing that counts and not the insert,
because a load may insert long after it has listed. A connection's statement has a catalog
(`using`), the pointers its last operation returned (`held`), whether a clear has freed what
they point to (`freed`), and the listing its current operation inserts (`loads`); `left` are the
databases a running `uc_clear_cache` still visits. `clock`, `mark`, `listed` and `overtook` are
history; the clock is read only to date a listing.

*Actions.* `Begin` and `End` are a statement's, which may call any operations in any order
in between: what order the binder calls them in is DuckDB's. Every operation of
`UCCatalog` and `UCSchemaEntry` is an action: it returns pointers (`Return`) or throws, which
ends the statement. An operation of a schema entry needs the pointer to it. One that asks a
set may begin with a load of it: the listing arrives (`FetchSchemas`, `FetchTables`) and entry
by entry is inserted (`CreateEntry`), until the operation is answered or fails.
`ClearUCCaches` fetches the list of databases and `VisitDatabase` is a turn of the loop.
`UseAfterFree` is the step of a statement that goes on with a pointer a clear has freed;
the model stops there.

*Atomic operations.* An operation asks one question of one set, or none. Without a clear
during it, `ContractImplemented` says it is answered from the set's state at one instant,
or fails, while entries are only added; that is what the actions do. A clear comes
between two operations or during a load. A load of tables then runs in a set that was
freed with its schema, and can only end in a use after free. A load of schemas goes on: the
schema set is a member of the catalog and stays, so the load inserts the rest of what it
was given before the clear. What else a clear may overlap is `UCCatalogSet`'s matter. An
operation on a set may also end with the error of a load, at any time, because whether a
load is due is not kept here; whether a miss is justified is `MissHasCause` of
`UCCatalogSet`.

## Runs

In the runs of `MCUCCatalogSet`, `Kept` gives every listing the stable names r and s
(the catalog "other", asked for under a wrong alias, has none); `Changing` makes v come
and go where `Names` has it.

| run | instance | checks |
|---|---|---|
| `set_concurrent` | 2 threads, 2 calls each, schema set and a table set, all replies, names s and v, v with an unsupported type | `TypeOK`, `PointersStayValid`, `ScanSeesOneState`, `MissHasCause`, `ImplementsContract` |
| `set_clear` | 2 threads, both clear, 2 calls each, all replies, fair | `LoadedIsComplete`, `PointersOutliveLoads`, `ScanMissesNothing`, `LockOnlyForScans`, `ReturnsOrAwaitsServer` |
| `set_one_connection` | 1 thread, clears, 3 calls, schema set and a table set, names r, s and v, v with an unsupported type | `ClearForgets`, `OneListingPerSet`, `MissHasCause` |
| `set_miss_while_loading` | 2 threads, 1 call each, the server always lists | violates `ExistingIsFound` |
| `set_miss_after_failure` | 1 thread, 2 calls, one request may fail | violates `ExistingIsFound` |
| `set_miss_under_alias` | 1 thread, 1 call, alias "other" | violates `ExistingIsFound` |
| `scan_credentials` | 2 connections, 2 scans each, all replies, tables lake, part (inside lake), disk (local), csv (another format) | `ReadersUseOwnCredentials`, `SecretsBelong` |
| `scan_rejected` | 1 connection, the server may refuse | violates `SecretsHoldCredentials` |
| `transactions` | 3 connections, 3 addresses, 4 transactions | `OpenIsOwned`, `OnlyOpenIsOwned`, `ImplementsContract`, `CallsReturn` |
| `session` | 2 connections, 2 aliases, 4 statements in all, 2 names of secrets in 2 storages, schemas s and main, a table, another database | `CredentialsOfOneSecret`, `DanglingNeedsClear`, `ClearForgetsEverywhere`, `ListedIsFound` |
| `type_mapping` | every type nested two deep, structs of up to three fields, one of them named `int` | `NeverAnotherType`, `NestedTypesConvert`, `OverrunsHaveHoles` |
| `type_nested_decimal` | the same | violates `NestedCommasIgnored` |

Why these are enough. Two threads are what every race of the sets needs: one loads
or clears while the other checks, finds or scans; a third could only repeat the
part of one of the two. Two names make a load stop between two inserts, the
volatile one makes two listings differ. Two calls per thread let a call use what
the thread's earlier one left, or load what was cleared; three let a thread load,
clear and load again. What is checked for two threads in `set_clear` and
`set_concurrent` is proved for any number, the liveness property excepted, and what is
checked in `set_one_connection` for one thread with any sets, names and number of calls.
`MaxCalls` is the only bound on the length of a behaviour,
and it is why the runs say `CHECK_DEADLOCK FALSE`: when the calls are used up
everything stops. That no call gets stuck is `ReturnsOrAwaitsServer`.

For scans, two connections suffice for one to write between another's request,
secret and bind; two scans each let a transaction hold two tables, or one table
twice; the two nested locations are the case in which the scope decides. For
transactions, three connections let two others use a freed address while one is
still erasing. For types, depth 2 puts a nested type beside and inside another one,
and three fields a member before and behind one that is neither first nor last;
there are 13,274 types of depth 2. The properties are proved for any depth and any number of
fields.

For sessions, four statements are what the longest stories need: a secret, an ATTACH, a
statement of one connection and one of another beside it; or two ATTACHes, a clear and
a statement; or an ATTACH, a DETACH and an ATTACH under the same alias while a statement
or a clear still has the first catalog. A load of one connection beside a clear of the other
needs three. A statement may have any number of operations.
Secrets with all parameters and with only an endpoint make both outcomes of the test
at line 107 happen, and "main" beside "s" those of `GetSchema`. All four properties are
proved for any number. When the statements are used up, or after a use after free,
everything stops: hence `CHECK_DEADLOCK FALSE`.

What the runs show about the code:

- The order of the statements in `ClearEntries` and in the load is right for
  several threads: nobody can be left with a set that is marked loaded, at rest,
  and incomplete, unless a load was cut short.
- `entry_lock` does what it is for: pointers stay valid, scans are consistent, and
  no request is made under it.
- A clear does no harm beyond what it frees, as far as it does not overlap a locked
  operation on the map it empties (see `WipeEntries` above). The loads that follow it
  replace no entry, so a pointer obtained since stays valid, and no load can add an entry under a scan's
  iterator, although the load that runs may have begun before the clear.
- With one connection, nothing from before a clear is served after it, and a set is
  never a mixture of two answers, not even after a load that was cut short.
- A miss of something that exists has two causes, both of which happen, and which
  three findings state: another connection's load in progress
  (`set_miss_while_loading`), and a load that was cut short or answered with an
  error document, which is never tried again (`set_miss_after_failure`). The third,
  `set_miss_under_alias`, is about the name that is asked for.
- Naming a secret after the table's id and scoping it to the table's location is
  enough: a reader never gets another table's credentials, nor another
  connection's; and tables that need no credentials have no secret. But an answer that
  holds none is not an error, and stores empty credentials (`scan_rejected`).
- The map of transactions is right, although its keys can come back: the lock is
  held over the whole erase and taken for the insert. To the connections it looks as
  if every transaction were started and ended at one instant.
- Splitting nested types never yields another type than the column's. Two kinds
  are not converted: a decimal directly in a map or a struct, whose comma is taken
  for a separator (`type_nested_decimal`), and an empty struct, where the search
  starts at the end it looks for and runs past the text (the reason
  `NestedTypesConvert` leaves it out). Only where a member is missing can it run past the
  text, whatever the text is. One such column stops the load of all the
  tables of its schema.
- A catalog's credentials are one secret's, with one exception: the region is tested by
  the endpoint (`src/uc_catalog_extension.cpp:107`), so that a secret with an endpoint and
  no region gives the text of a NULL value as region, and one with a region only loses it.
- Only a clear makes the pointers of a statement dangle. DETACH does not, as long as
  DuckDB keeps the database for the statement, and DDL does not, because it throws before
  it would erase or replace anything. A clear between two operations of a statement does.
- What a scan has shown can be opened, except a schema called main: `default_schema` is
  never set, so `GetSchema` throws for it, and does even if asked to return nothing. For
  indexes, scans and lookups both are internal errors, because `CatalogTypeIsSupported`
  and `GetCatalogSet` disagree (`src/storage/uc_schema_entry.cpp:117`, `:151`).
- A clear reaches every catalog that was attached when it began, and leaves no table in
  any attached catalog that was listed before it began. Of schemas this is true with one
  exception: a load of schemas that was listed before the clear and is still inserting when
  it comes puts them back (`overtook`), and they stay until the next clear. Without the
  exception `ClearForgetsEverywhere` is violated in `session`.

*Fairness.* `FairSpec` has weak fairness of every thread's own steps: a thread that is
inside the catalog keeps running, and a mutex held only for bounded work is
eventually had. The same is assumed of the transaction manager, where every step
is bounded work. Weak fairness is enough although another thread may take the lock
in between, because with a bounded number of calls it cannot do so for ever.
Nothing is assumed of `Fetch`: no timeout is set on the transfer
(`src/uc_api.cpp:18-28`), so the answer may never come.

## Proofs

`UCCatalogSetProofs` proves, for any sets of threads, names and table sets, any
replies, any number of calls, with or without clears:

- `TypeCorrect`: `Spec => []TypeOK`. `TypeOK` is inductive.
- `LoadedComplete`: `Spec => []LoadedIsComplete`. The property is not inductive: it
  says nothing while a load runs, so it gives nothing at the moment the load ends.
  The invariant `LoadInv` accounts for every name at every moment: in a set that is
  marked loaded, where no load was cut short and no clear is half done, each name
  the server always had is in the map or in flight, that is some thread is about
  to fetch the listing or still has the name among the items to insert
  (`LoadsOK`); the server indeed always lists it (`ServerOK`); and what is inserted is
  an actual entry (`BatchOK`). `MoveKeepsLoads` is the lemma all ordinary steps go
  through; claiming a load starts a flight, and the two steps of a clear are the
  ones the premises of the property excuse.

`UCCatalogSetContractProofs` proves four more under `NoClears`, that is `Clearers = {}`, the
program as it is built:

- `PointersValid`, `ScansConsistent`: `Spec => []PointersStayValid`, `[]ScanSeesOneState`.
  Their invariant `ShareInv` adds what each control point means (`PhaseOK`: what is in
  `todo` and `held`) and who owns the lock (`LockOK`). Entries only appear, never change
  (`EntriesStay`), because an insert leaves an existing entry alone; a scan holds the
  lock, so during it they do not even appear.
- `ContractImplemented`: `Spec => ImplementsContract`. Steps inside a call are stutters
  (`InsideIsStutter`), except inserts, which are the contract's `AddEntry`, and a request
  that throws, which is its `Fail` (`FetchImplements`); the step that returns is the contract's answer (`ReturnIsAnswer`)
  and entering a call its question (`BeginIsAsk`).
- `MissesHaveCauses`: `Spec => MissHasCause`, from `ShareInv`, `LoadInv` and an invariant
  about `loadFailed`.

`UCCatalogSetClearProofs` proves what remains true when threads clear. For any number
of threads, from `ClearInv`:

- `PointersNeedClear`: `Spec => []PointersOutliveLoads`. It needs `PastOK`: listings are
  numbered as they are received, so nothing held or stored is younger than the last
  fetch, and what a wipe frees is not younger than `wipedAt`.
- `ScansMissNothing`, `LockForScansOnly`: `Spec => []ScanMissesNothing`,
  `[]LockOnlyForScans`. The first needs the second: an insert waits for the lock, the
  lock is the scan's, so during a scan the set only shrinks.

For one thread that also clears (`ASSUME OneThread`), from `SoloInv`:

- `ClearsForget`, `OneListing`: `Spec => []ClearForgets`, `[]OneListingPerSet`. `PhaseOne` says what
  the thread is doing to which set: while it inserts, everything in the set is of the
  listing it inserts; before its request and after a wipe the set is empty.
  `UnloadedEmpty` says that a set not marked loaded is empty, without which the next load would
  mix two listings.
- `LoneMissesHaveCauses`: `Spec => MissHasCause`, here with clears.

With two threads that clear, these three properties are false: in the constants of
`set_clear` TLC finds a counterexample to each. One thread inserts what it fetched before
another's clear; two threads both load, because both read `is_loaded` before either sets
it; a clear comes between one thread's load and its `entries.find`.

`UCTableScanProofs`: `TypeCorrect`, and `OwnCredentials`: `Spec => []ReadersUseOwnCredentials` for
any connections, tables and locations that differ. `ScopesOK` says a secret is scoped
to the location of the table it is named after, so of the secrets that match a
location none is longer than the table's own (`LookupFindsOwn`); `OwnOK` says the open
transaction's secret holds the last answer, which nobody else can replace because
it is the transaction's own. `SecretsBelongAlways`: `Spec => []SecretsBelong`, from `BelongInv`,
which adds that a connection past the two early returns has a remote table of the
right format and, when it writes the secret, credentials asked for that table.

`UCTransactionProofs`: `OpenTransactionsLive` and `NoTransactionLeaks`, from `OwnedInv`: what
each control point means for object and map, that no two connections hold objects
at one address, and that who is between freeing and removing has the lock.
`ContractImplemented`: `Spec => ImplementsContract`, from the same invariant. The insert is
the contract's `Start`, the free its `End` and the removal its `Return`; that a step leaves the
other connections' transactions owned is where addresses must differ.

`UCQueryProofs`, for any connections, aliases, names, secrets, statements and clears:
`TypeCorrect`, `OneSecret`, `PointersNeedClear`, `ClearsForget` and `ListedFoundAlways`, one for `TypeOK` and
each property of `session`. All rest on `BaseInv`, type correctness with `HeldOK`: pointers are
to entries that existed when they were given, a load of tables is of the schema pointed to,
and a connection without a statement has neither. `OperationShape` reduces the operations
of a statement to one shape: they leave the sets alone, and either end the statement or give it pointers to entries, and show
things, that are there (`Gives`). Each property is then about few steps. `OneSecret` needs
`SecretsOK`, that a secret holds one value only, kept by `CreateUCSecretFunction`.
`PointersNeedClear` holds because inserts fill only empty places (`CreateEntryFills`) and a
clear marks the statements whose pointers it frees. `ClearsForget` rests on `ForgetInv`: behind
a clear, that is in every attached catalog it has visited or need not visit, the tables, the
tables being inserted, and unless the clear met a load the schemas and the schemas being
inserted, are of listings newer than it. Whatever is fetched behind a clear is newer; a load
of tables that was under way when the clear came has lost its pointers (`freed`) and inserts
no more, a load of schemas puts the catalog into `overtook`; and a new catalog starts empty
(`AdministerAdds`). `ListedFoundAlways` needs
`ListedOK`, that what was shown and not cleared since is there. `NoCrashWithoutClear`
draws the conclusion for the program as it is built, in which no clear can begin:
no statement ever uses a freed entry.

`UCTypeMappingProofs` is about any text of tokens. The loops and the conversion are
recursive functions, and nothing is known of such a function before it is shown to
exist. `SetInduction`, induction for sets of naturals rather than predicates, follows from the
library's well-foundedness; with it each function is built up by how much of the text
is left, and then unfolded (`NextSepUnfold`, `SplitUnfold`,
`TypeToLogicalTypeUnfold`). On that rest two results:

- `NextSepFindsFirst`: a scan begun before the end of the type returns the first comma at
  which no bracket is open, or the end, and the nesting there.
- `OverrunsNeedHoles`: a conversion that leaves the text was given one with a `Hole`. Each
  piece that is converted further is a part of the text, so its hole is one of the text.

`UCTypeRoundTripProofs` is about the texts the server writes for types nested to any depth,
by induction over how types are formed (`TypesInduction`). `TextsOK` is what the induction
carries: the text of a member is balanced, and its separators are nested (`Sealed`),
unless it is a decimal. So a scan that begins where such a text begins ends where it
ends (`CutFound`). The members of a map or a struct lie in its text one behind the other, with
a comma between two (`Laid`, by induction over the members); from one on the split finds that
one and then the rest (`WholeTextFound`), so it finds them all (`AllFound`). Of a decimal the
scan finds what is before its comma, which converts to no type, and the first decimal among
the members is where it does so (`HeadFound`, `GroupFails`). `TypesConvertBack` says for every type that it is converted to itself or to no
type, and when to itself. `NeverAnotherTypeAlways`, `NestedTypesConvertAlways` and
`OverrunsHaveHolesAlways` state it of the specification, from `ColumnInv`.

The assumptions are the named `ASSUME`s of the modules, which TLC evaluates in every
run, and two hypotheses that theorems state: `NoClears`, the program as it is built,
and `OneThread`, a program with one connection. Every safety property and both
refinements the passing runs check are proved. Only model-checked are the two liveness properties,
`ReturnsOrAwaitsServer` and `CallsReturn`, which are out of the prover's reach, and the five
violations. What the models leave out and the theorems do not add: a field whose name holds a
character the conversion looks for.

## Plan

What is left, in this order:

1. `UCTableScan` with tables re-created at a location they share, and with one server
   attached twice, if a statement about it can be made without knowing how DuckDB
   breaks the tie between two secrets.
2. That the lookups of `UCQuery` are what `CatalogContract` allows: there an operation asks and
   is answered in one step, so the mapping needs the state in between as a variable.

## Not modelled

- DuckDB itself (binder, secret manager, transactions, `delta_scan`), curl, yyjson
  and the server, beyond what the modules state as external.
- The text of requests, documents and errors; TLS, tokens and HTTP headers.
- `TypeToString`, `ToUCType`, `EraseEntryInternal`, `UCUnqualifyColumnRef`, `GetCatalogs`: no
  callers. The statistics and storage functions that return a constant.
- What happens after a use after free. `UCQuery` reaches one and stops; `UCCatalogSet`, in
  runs with clears, says nothing of pointers to entries a clear has freed.
- That a clear may overlap an operation other than in its load, in `UCQuery`; in
  `UCCatalogSet` it may.
- The data race of `entries.clear()`, which takes no lock, with an insert, a lookup or a scan
  of the same map.
- A schema in a listing whose name is not a string.
- Secrets of other types named in ATTACH, and a second execution of a prepared call of
  `uc_clear_cache`: both depend on DuckDB's code.
- `LoadInternal`, which only registers, build files and CI.
