---------------------------- MODULE UCCatalogSet ----------------------------
(***************************************************************************)
(* The lazily loaded sets of catalog entries: UCCatalogSet with its two    *)
(* kinds, the schema set of a catalog (UCSchemaSet) and the table set of   *)
(* each schema (UCTableSet), as the threads of several DuckDB connections  *)
(* use them at the same time.                                              *)
(*                                                                         *)
(* A call is one of GetEntry, Scan and ClearEntries.  Each statement that  *)
(* touches shared state is an action of its own, because nothing but       *)
(* entry_lock orders the threads, and entry_lock covers the map only:      *)
(* is_loaded is read and written without it, LoadEntries runs without it,  *)
(* and so does ClearEntries.                                               *)
(*                                                                         *)
(* The Unity Catalog server is the environment: it changes its contents    *)
(* and answers a listing request in one of the ways of module UCAPI.       *)
(***************************************************************************)
EXTENDS Naturals, UCAPI

CONSTANTS
    Threads,      \* threads that call into the catalog
    Clearers,     \* those of them that may call ClearEntries (see README)
    NoThread,     \* the owner of a free entry_lock
    Root,         \* the schema set
    TableSets,    \* the table sets, named by their schema
    Names,        \* names of schemas and tables
    Path, Alias,  \* ATTACH '<Path>' AS <Alias>
    Catalogs,     \* catalog names, Path and Alias among them
    Stable,       \* listing -> names the server has throughout
    Volatile,     \* listing -> names the server may create and drop
    Unsupported,  \* tables with a column type TypeToLogicalType rejects
    Replies,      \* the kinds of reply the server gives
    MaxCalls      \* bound: calls made by one thread

Sets == {Root} \cup TableSets
Listings == Catalogs \cup TableSets
Items == Names \cup {NoName}

ASSUME ThreadsAssumption == NoThread \notin Threads /\ Clearers \subseteq Threads
ASSUME NamesAssumption == NoName \notin Names /\ Unsupported \subseteq Names
ASSUME SetsAssumption ==
    /\ Root \notin Catalogs \cup TableSets
    /\ TableSets \subseteq Names /\ Catalogs \cap TableSets = {}
    /\ Path \in Catalogs /\ Alias \in Catalogs
    /\ Stable \in [Listings -> SUBSET Names]
    /\ Volatile \in [Listings -> SUBSET Names]
ASSUME RepliesAssumption == Replies \subseteq AllReplies
ASSUME BoundAssumption == MaxCalls \in Nat

VARIABLES
    remote,      \* remote[l]: the names the server lists under l
    isLoaded,    \* is_loaded of each set
    entries,     \* entries[s][n]: the entry object of n, 0 when there is none;
                 \* an object is identified by the fetch that built it
    entryLock,   \* owner of each set's entry_lock
    fetches,     \* number of listings received so far
    pc, call,    \* control point and arguments of each thread's call
    batch,       \* LoadEntries: the fetch being inserted
    todo,        \* the items a load still inserts, or a scan still visits
    answer,      \* outcome of the thread's last call
    held,        \* held[t][n]: pointer to entry n the last call gave to t, or 0
    calls,       \* calls made by each thread
    loadFailed,  \* history: a load since is_loaded was last reset was cut short
    wipedAt      \* history: value of fetches when the map was last cleared

serverVars == <<remote, fetches>>
setVars == <<isLoaded, entries, entryLock, loadFailed, wipedAt>>
threadVars == <<pc, call, batch, todo, answer, held, calls>>
vars == <<serverVars, setVars, threadVars>>

NoEntries == [n \in Names |-> 0]
Calls == [op: {"GetEntry", "Scan", "ClearEntries"}, set: Sets, name: Items]

\* The listing LoadEntries asks for.  UCSchemaSet names the catalog by its
\* alias (catalog.GetName()), UCTableSet by its path (catalog.GetDBPath()).
Requested(s) == IF s = Root THEN Alias ELSE s

\* The listing of the attached catalog: what a user means by the set's contents.
Attached(s) == IF s = Root THEN Path ELSE s

Init ==
    /\ remote \in [Listings -> SUBSET Names]
    /\ \A l \in Listings : /\ Stable[l] \subseteq remote[l]
                           /\ remote[l] \subseteq Stable[l] \cup Volatile[l]
    /\ isLoaded = [s \in Sets |-> FALSE]
    /\ entries = [s \in Sets |-> NoEntries]
    /\ entryLock = [s \in Sets |-> NoThread]
    /\ fetches = 0
    /\ pc = [t \in Threads |-> "idle"]
    /\ call = [t \in Threads |-> [op |-> "Scan", set |-> Root, name |-> NoName]]
    /\ batch = [t \in Threads |-> 0]
    /\ todo = [t \in Threads |-> {}]
    /\ answer = [t \in Threads |-> "none"]
    /\ held = [t \in Threads |-> NoEntries]
    /\ calls = [t \in Threads |-> 0]
    /\ loadFailed = [s \in Sets |-> FALSE]
    /\ wipedAt = 0
-----------------------------------------------------------------------------
(* The environment: the server creates or drops a schema or a table.       *)
ServerChange(l, n) ==
    /\ n \in Volatile[l] \ Stable[l]
    /\ remote' = [remote EXCEPT ![l] = IF n \in @ THEN @ \ {n} ELSE @ \cup {n}]
    /\ UNCHANGED <<fetches, setVars, threadVars>>

(* A thread enters one of the public functions.  The pointers its previous *)
(* call gave it are no longer used.                                        *)
Begin(t, op, s, n, first) ==
    /\ pc[t] = "idle"
    /\ calls[t] < MaxCalls
    /\ pc' = [pc EXCEPT ![t] = first]
    /\ call' = [call EXCEPT ![t] = [op |-> op, set |-> s, name |-> n]]
    /\ answer' = [answer EXCEPT ![t] = "none"]
    /\ held' = [held EXCEPT ![t] = NoEntries]
    /\ calls' = [calls EXCEPT ![t] = @ + 1]
    /\ UNCHANGED <<serverVars, setVars, batch, todo>>

\* A table set belongs to its schema's entry: callers reach it through that.
Reachable(s) == s \in TableSets => entries[Root][s] # 0

GetEntry(t, s, n) == Reachable(s) /\ Begin(t, "GetEntry", s, n, "check")
Scan(t, s) == Reachable(s) /\ Begin(t, "Scan", s, NoName, "check")
ClearEntries(t) == t \in Clearers /\ Begin(t, "ClearEntries", Root, NoName, "clear")

Goto(t, label) == pc' = [pc EXCEPT ![t] = label]

Return(t, outcome) ==
    /\ Goto(t, "idle")
    /\ answer' = [answer EXCEPT ![t] = outcome]

\* Where GetEntry and Scan go on once the set counts as loaded.
Continue(t) == Goto(t, IF call[t].op = "GetEntry" THEN "find" ELSE "lock")

MustLoadOrMissing(t) == \* mutant: a lookup that would miss loads again
    LET s == call[t].set
        n == call[t].name IN
    ~isLoaded[s] \/ (call[t].op = "GetEntry" /\ entries[s][n] = 0)

MustLoad(t) == ~isLoaded[call[t].set]

\* if (!is_loaded): the read is not protected by entry_lock.
CheckLoaded(t) ==
    /\ pc[t] = "check"
    /\ IF MustLoad(t) THEN Goto(t, "claim") ELSE Continue(t)
    /\ UNCHANGED <<serverVars, setVars, call, batch, todo, answer, held, calls>>

LockFree(s) == entryLock[s] = NoThread

NoAcquire(s, t) == LockFree(s) /\ UNCHANGED entryLock \* mutant: lock not kept

Acquire(s, t) == LockFree(s) /\ entryLock' = [entryLock EXCEPT ![s] = t]

ClaimLoadLocked(t) == \* mutant: entry_lock is taken for the whole load
    /\ pc[t] = "claim"
    /\ Acquire(call[t].set, t)
    /\ isLoaded' = [isLoaded EXCEPT ![call[t].set] = TRUE]
    /\ Goto(t, "fetch")
    /\ UNCHANGED <<serverVars, entries, loadFailed, wipedAt,
                   call, batch, todo, answer, held, calls>>

\* is_loaded = true, before the load it announces.
ClaimLoad(t) ==
    /\ pc[t] = "claim"
    /\ isLoaded' = [isLoaded EXCEPT ![call[t].set] = TRUE]
    /\ Goto(t, "fetch")
    /\ UNCHANGED <<serverVars, entries, entryLock, loadFailed, wipedAt,
                   call, batch, todo, answer, held, calls>>

\* An exception leaves LoadEntries and the caller; is_loaded stays as it is.
LoadThrows(t) ==
    /\ Return(t, "error")
    /\ todo' = [todo EXCEPT ![t] = {}]
    /\ loadFailed' = [loadFailed EXCEPT ![call[t].set] = TRUE]

Throws(s, reply) == IF s = Root THEN GetSchemasThrows(reply) ELSE GetTablesThrows(reply)

Parsed(s, reply, listing) ==
    IF s = Root THEN GetSchemas(reply, listing) ELSE GetTables(reply, listing)

\* The request of LoadEntries, the server's answer to it and its parsing.
\* entry_lock is not held: any number of threads can be here.
Fetch(t) ==
    /\ pc[t] = "fetch"
    /\ \E reply \in Replies :
         LET s == call[t].set IN
         \/ /\ Throws(s, reply)
            /\ LoadThrows(t)
            /\ UNCHANGED <<fetches, batch>>
         \/ /\ ~Throws(s, reply)
            /\ fetches' = fetches + 1
            /\ batch' = [batch EXCEPT ![t] = fetches + 1]
            /\ todo' = [todo EXCEPT ![t] = Parsed(s, reply, remote[Requested(s)])]
            /\ loadFailed' = [loadFailed EXCEPT ![s] = @ \/ reply # "listing"]
            /\ Goto(t, "insert")
            /\ UNCHANGED answer
    /\ UNCHANGED <<remote, isLoaded, entries, entryLock, wipedAt, call, held, calls>>

Present(s) == {n \in Names : entries[s][n] # 0}

InsertedOver(old, new) == new \* mutant: entries[name] = new

\* map::insert: an entry that is already there stays, the new one is destroyed.
Inserted(old, new) == IF old = 0 THEN new ELSE old

\* One turn of the loop in LoadEntries that gets through: the entry is built
\* and CreateEntry inserts it under entry_lock.  The order of the items is the
\* server's, hence any.
CreateEntry(t) ==
    /\ pc[t] = "insert"
    /\ \E n \in todo[t] \cap Names :
         LET s == call[t].set IN
         /\ s = Root \/ n \notin Unsupported
         /\ LockFree(s)
         /\ entries' = [entries EXCEPT ![s][n] = Inserted(@, batch[t])]
         /\ todo' = [todo EXCEPT ![t] = @ \ {n}]
    /\ UNCHANGED <<serverVars, isLoaded, entryLock, loadFailed, wipedAt,
                   pc, call, batch, answer, held, calls>>

\* A turn that throws, with the earlier items already inserted: a column type
\* that TypeToLogicalType does not know, or CreateEntry given an empty name.
RejectEntry(t) ==
    /\ pc[t] = "insert"
    /\ LET s == call[t].set IN
       \/ s # Root /\ todo[t] \cap Unsupported # {}
       \/ NoName \in todo[t] /\ LockFree(s)
    /\ LoadThrows(t)
    /\ UNCHANGED <<serverVars, isLoaded, entries, entryLock, wipedAt,
                   call, batch, held, calls>>

LoopDoneEarly(t) == \E n \in Items : todo[t] \subseteq {n} \* mutant: off by one

LoopDone(t) == todo[t] = {}

FinishLoad(t) ==
    /\ pc[t] = "insert" /\ LoopDone(t)
    /\ Continue(t)
    /\ UNCHANGED <<serverVars, setVars, call, batch, todo, answer, held, calls>>

FoundUnchecked(s, n) == \* mutant: the end iterator is dereferenced
    IF entries[s][n] = 0 THEN "undefined" ELSE "hit"

Found(s, n) == IF entries[s][n] = 0 THEN "miss" ELSE "hit"

\* entries.find(name) under entry_lock; the raw pointer outlives the lock.
FindEntry(t) ==
    /\ pc[t] = "find"
    /\ LET s == call[t].set
           n == call[t].name IN
       /\ LockFree(s)
       /\ held' = [held EXCEPT ![t][n] = entries[s][n]]
       /\ Return(t, Found(s, n))
    /\ UNCHANGED <<serverVars, setVars, call, batch, todo, calls>>

\* Scan takes entry_lock and keeps it until the callback has seen every entry.
LockForScan(t) ==
    /\ pc[t] = "lock"
    /\ LET s == call[t].set IN
       /\ Acquire(s, t)
       /\ todo' = [todo EXCEPT ![t] = Present(s)]
    /\ Goto(t, "visit")
    /\ UNCHANGED <<serverVars, isLoaded, entries, loadFailed, wipedAt,
                   call, batch, answer, held, calls>>

\* callback(*entry.second): the callbacks DuckDB passes collect pointers and do
\* not come back to the set.  The order is the hash map's, hence any.
VisitEntry(t) ==
    /\ pc[t] = "visit"
    /\ \E n \in todo[t] :
         /\ held' = [held EXCEPT ![t][n] = entries[call[t].set][n]]
         /\ todo' = [todo EXCEPT ![t] = @ \ {n}]
    /\ UNCHANGED <<serverVars, setVars, pc, call, batch, answer, calls>>

FinishScan(t) ==
    /\ pc[t] = "visit" /\ todo[t] = {}
    /\ entryLock' = [entryLock EXCEPT ![call[t].set] = NoThread]
    /\ Return(t, "scanned")
    /\ UNCHANGED <<serverVars, isLoaded, entries, loadFailed, wipedAt,
                   call, batch, todo, held, calls>>

EntriesKept == entries \* mutant: entries.clear() is missing

EntriesCleared == [s \in Sets |-> NoEntries]

\* ClearEntries of the schema set, first statement: every schema entry is
\* destroyed, and its table set with it; a reload starts from new table sets.
\* entry_lock is not taken, so that entries.clear() may run while another thread
\* inserts, finds or iterates.  That is a data race, of which any outcome is
\* possible; it is left out here: the clear is one step, between two of theirs.
WipeEntries(t) ==
    /\ pc[t] = "clear"
    /\ entries' = EntriesCleared
    /\ isLoaded' = [s \in Sets |-> s = Root /\ isLoaded[s]]
    /\ loadFailed' = [s \in Sets |-> s = Root /\ loadFailed[s]]
    /\ wipedAt' = fetches
    /\ Goto(t, "reset")
    /\ UNCHANGED <<serverVars, entryLock, call, batch, todo, answer, held, calls>>

NotReset(flag) == flag \* mutant: is_loaded = false is missing

Reset(flag) == [flag EXCEPT ![Root] = FALSE]

\* Second statement: is_loaded = false.
ResetLoaded(t) ==
    /\ pc[t] = "reset"
    /\ isLoaded' = Reset(isLoaded)
    /\ loadFailed' = Reset(loadFailed)
    /\ Return(t, "cleared")
    /\ UNCHANGED <<serverVars, entries, entryLock, wipedAt, call, batch, todo, held, calls>>

Begins(t) ==
    \/ \E s \in Sets, n \in Names : GetEntry(t, s, n)
    \/ \E s \in Sets : Scan(t, s)
    \/ ClearEntries(t)

\* Steps a thread takes on its own, that is without the server.
LocalStep(t) ==
    \/ CheckLoaded(t) \/ ClaimLoad(t)
    \/ CreateEntry(t) \/ RejectEntry(t) \/ FinishLoad(t)
    \/ FindEntry(t) \/ LockForScan(t) \/ VisitEntry(t) \/ FinishScan(t)
    \/ WipeEntries(t) \/ ResetLoaded(t)

Next ==
    \/ \E l \in Listings, n \in Names : ServerChange(l, n)
    \/ \E t \in Threads : Begins(t) \/ LocalStep(t) \/ Fetch(t)

Spec == Init /\ [][Next]_vars

\* A thread inside a call keeps running.  Nothing is assumed of the server:
\* no timeout is set on the transfer, so Fetch may never happen.
FairSpec == Spec /\ \A t \in Threads : WF_vars(LocalStep(t))
-----------------------------------------------------------------------------
(* Properties.                                                             *)

Labels == {"idle", "check", "claim", "fetch", "insert", "find", "lock",
           "visit", "clear", "reset"}
Outcomes == {"none", "hit", "miss", "scanned", "cleared", "error"}

\* Type invariant of the catalog sets, the server and the threads' calls.
TypeOK ==
    /\ remote \in [Listings -> SUBSET Names]
    /\ isLoaded \in [Sets -> BOOLEAN]
    /\ entries \in [Sets -> [Names -> Nat]]
    /\ entryLock \in [Sets -> Threads \cup {NoThread}]
    /\ fetches \in Nat
    /\ pc \in [Threads -> Labels]
    /\ call \in [Threads -> Calls]
    /\ batch \in [Threads -> Nat]
    /\ todo \in [Threads -> SUBSET Items]
    /\ answer \in [Threads -> Outcomes]
    /\ held \in [Threads -> [Names -> Nat]]
    /\ calls \in [Threads -> Nat]
    /\ loadFailed \in [Sets -> BOOLEAN]
    /\ wipedAt \in Nat

Loading(s) == \E t \in Threads : call[t].set = s /\ pc[t] \in {"fetch", "insert"}
Clearing(s) == s = Root /\ \E t \in Threads : pc[t] = "reset"

\* A set that says it is loaded, with no load or clear still under way and no
\* load cut short since the flag was last reset, has every entry the server had
\* all along.  However loads and clears of several threads interleave, the
\* order "clear the map, then reset is_loaded" in ClearEntries never leaves a
\* set that is marked loaded and will stay incomplete.
LoadedIsComplete ==
    \A s \in Sets :
        isLoaded[s] /\ ~loadFailed[s] /\ ~Loading(s) /\ ~Clearing(s)
            => \A n \in Stable[Requested(s)] : entries[s][n] # 0

\* A pointer handed out by GetEntry or Scan, or in use by a scan, stays a
\* pointer to the entry in the map (the map owns it): no later load, of any
\* thread, replaces or erases an entry.  Holds when nobody clears the cache.
PointersStayValid ==
    \A t \in Threads, n \in Names :
        held[t][n] # 0 => entries[call[t].set][n] = held[t][n]

\* While a scan holds entry_lock the map does not change under its iterator:
\* the scan's callback sees one state of the set, not a mixture of two.
ScanSeesOneState ==
    \A t \in Threads : pc[t] = "visit" =>
        \A n \in Names : LET s == call[t].set IN
            IF n \in todo[t] THEN n \in Present(s) ELSE held[t][n] = entries[s][n]

\* The same when threads do clear the cache, for entries of listings received
\* since the last clear: only a clear takes an entry from under a pointer,
\* never a load, a lookup, a scan or a clear that came before.
PointersOutliveLoads ==
    \A t \in Threads, n \in Names :
        held[t][n] > wipedAt => entries[call[t].set][n] = held[t][n]

\* A scan's callback is given all there is, however many loads and scans go on:
\* each entry was visited or still will be, since none is added under the
\* iterator.  A clear during the scan invalidates the iterator; the map is empty
\* from then until the scan ends, and nothing is claimed of it.
ScanMissesNothing ==
    \A t \in Threads : pc[t] = "visit" =>
        \A n \in Names : LET s == call[t].set IN
            entries[s][n] # 0 => n \in todo[t] \/ held[t][n] = entries[s][n]

\* entry_lock is kept across steps by the thread that scans the set and by no
\* other: never while the server is asked, by a thread that is done, or by one
\* that waits for another set's lock.
LockOnlyForScans ==
    \A s \in Sets, t \in Threads :
        entryLock[s] = t <=> pc[t] = "visit" /\ call[t].set = s

\* A schema or table the attached catalog has throughout is found: GetEntry
\* returns its entry and a scan includes it.
ExistingIsFound ==
    \A t \in Threads : \A n \in Stable[Attached(call[t].set)] :
        /\ answer[t] = "miss" => call[t].name # n
        /\ answer[t] = "scanned" => held[t][n] # 0

\* A lookup by thread t misses an entry of the listing, or a scan leaves it out,
\* only for a reason t does not control: a load of the set was cut short, or
\* another thread is in the middle of loading it.  (Other threads do not clear.)
MissHasCause ==
    [][\A t \in Threads : LET s == call[t].set IN
         (\/ FindEntry(t) /\ answer'[t] = "miss" /\ call[t].name \in Stable[Requested(s)]
          \/ LockForScan(t) /\ \E n \in Stable[Requested(s)] : n \notin todo'[t])
            => \/ loadFailed[s]
               \/ \E u \in Threads \ {t} : call[u].set = s /\ pc[u] \in {"fetch", "insert"}]_vars

\* For one connection: after ClearEntries nothing fetched before it is served.
ClearForgets ==
    \A s \in Sets, n \in Names : entries[s][n] # 0 => entries[s][n] > wipedAt

\* For one connection: a set is the server's answer to one request, never a
\* mixture of two, also when a load was cut short and the set used again.
OneListingPerSet ==
    \A s \in Sets, m, n \in Names :
        entries[s][m] # 0 /\ entries[s][n] # 0 => entries[s][m] = entries[s][n]

\* A call returns, or it waits for the server's answer to its own request: no
\* thread is ever kept waiting by another one's request, because the request is
\* made without entry_lock, and no lock is kept by a call that has returned.
ReturnsOrAwaitsServer ==
    \A t \in Threads : pc[t] # "idle" ~> pc[t] \in {"idle", "fetch"}
=============================================================================
