----------------------- MODULE UCCatalogSetClearProofs -----------------------
(***************************************************************************)
(* What the catalog sets keep when threads clear the cache: for any        *)
(* numbers of threads, first; then for a single thread, a program that     *)
(* has one connection, which gets more.                                    *)
(***************************************************************************)
EXTENDS UCCatalogSetProofs

USE DEF Sets, Items

Moves(t) == Begins(t) \/ LocalStep(t) \/ Fetch(t)

\* Listings are numbered as they are received.
PastOK ==
    /\ wipedAt <= fetches
    /\ \A s \in Sets, n \in Names : entries[s][n] <= fetches
    /\ \A t \in Threads : batch[t] <= fetches /\ \A n \in Names : held[t][n] <= fetches

ClearInv == TypeOK /\ PastOK /\ LockOnlyForScans /\ PointersOutliveLoads /\ ScanMissesNothing
-----------------------------------------------------------------------------
(* What steps do.                                                          *)

\* Entering a call changes nothing but the thread's own call.
Enters(t, first) ==
    /\ pc[t] = "idle" /\ pc' = [pc EXCEPT ![t] = first]
    /\ \E c \in Calls : call' = [call EXCEPT ![t] = c]
    /\ held' = [held EXCEPT ![t] = NoEntries]
    /\ UNCHANGED <<serverVars, setVars, batch, todo>>

LEMMA BeginsShape ==
    ASSUME NEW t \in Threads, Begins(t)
    PROVE  Enters(t, "check") \/ Enters(t, "clear")
<1> USE DEF Begin, Enters
<1>1. ASSUME NEW op \in {"GetEntry", "Scan", "ClearEntries"}, NEW s \in Sets, NEW n \in Items
      PROVE  [op |-> op, set |-> s, name |-> n] \in Calls
  BY DEF Calls
<1>2. CASE \E s \in Sets, n \in Names : GetEntry(t, s, n)
  BY <1>1, <1>2 DEF GetEntry
<1>3. CASE \E s \in Sets : Scan(t, s)
  BY <1>1, <1>3 DEF Scan
<1>4. CASE ClearEntries(t)
  BY <1>1, <1>4 DEF ClearEntries
<1> QED
  BY <1>2, <1>3, <1>4 DEF Begins

\* A thread's step leaves the other threads where they are.
LEMMA OthersStay ==
    ASSUME TypeOK, NEW t \in Threads, Moves(t), NEW u \in Threads, u # t
    PROVE  /\ pc'[u] = pc[u] /\ call'[u] = call[u] /\ batch'[u] = batch[u]
           /\ todo'[u] = todo[u] /\ held'[u] = held[u]
<1>1. CASE Begins(t)
  BY <1>1 DEF TypeOK, Begins, GetEntry, Scan, ClearEntries, Begin
<1>2. CASE LocalStep(t)
  BY <1>2 DEF TypeOK, LocalStep, CheckLoaded, ClaimLoad, CreateEntry, RejectEntry, FinishLoad,
     FindEntry, LockForScan, VisitEntry, FinishScan, WipeEntries, ResetLoaded,
     Goto, Return, Continue, LoadThrows
<1>3. CASE Fetch(t)
  BY <1>3 DEF TypeOK, Fetch, Goto, Return, LoadThrows
<1> QED
  BY <1>1, <1>2, <1>3 DEF Moves

\* Listings are numbered upwards, and only a clear sets wipedAt.
LEMMA CountersMove ==
    ASSUME TypeOK, PastOK, NEW t \in Threads, Moves(t)
    PROVE  /\ fetches' \in {fetches, fetches + 1}
           /\ wipedAt' = IF WipeEntries(t) THEN fetches ELSE wipedAt
<1>1. CASE Begins(t)
  <2>1. pc[t] # "clear" /\ UNCHANGED <<fetches, wipedAt>>
    BY <1>1 DEF Begins, GetEntry, Scan, ClearEntries, Begin, serverVars, setVars
  <2> QED
    BY <2>1 DEF WipeEntries, TypeOK
<1>2. CASE Fetch(t)
  <2>1. pc[t] # "clear" /\ UNCHANGED wipedAt /\ fetches' \in {fetches, fetches + 1}
    BY <1>2 DEF Fetch
  <2> QED
    BY <2>1 DEF WipeEntries, TypeOK
<1>3. CASE LocalStep(t)
  BY <1>3 DEF TypeOK, LocalStep, CheckLoaded, ClaimLoad, CreateEntry, RejectEntry, FinishLoad,
     FindEntry, LockForScan, VisitEntry, FinishScan, WipeEntries, ResetLoaded,
     serverVars, setVars
<1> QED
  BY <1>1, <1>2, <1>3 DEF Moves

\* What a step does to the map: an insert fills an empty place, of the set the
\* thread loads, with the listing it was given and while nobody scans the set;
\* a clear empties everything; no other step touches it.
LEMMA EntriesMove ==
    ASSUME TypeOK, NEW t \in Threads, Moves(t), NEW s \in Sets, NEW n \in Names
    PROVE  \/ entries'[s][n] = entries[s][n]
           \/ CreateEntry(t) /\ s = call[t].set /\ LockFree(s) /\ pc[t] = "insert"
                 /\ entries[s][n] = 0 /\ entries'[s][n] = batch[t]
           \/ WipeEntries(t) /\ entries'[s][n] = 0
<1>1. CASE CreateEntry(t)
  <2>1. PICK m \in todo[t] \cap Names :
          /\ LockFree(call[t].set)
          /\ entries' = [entries EXCEPT ![call[t].set][m] = Inserted(@, batch[t])]
    BY <1>1 DEF CreateEntry
  <2>2. call[t].set \in Sets /\ pc[t] = "insert"
    BY <1>1 DEF TypeOK, Calls, CreateEntry
  <2>3. CASE s = call[t].set /\ n = m
    <3>1. entries'[s][n] = Inserted(entries[s][n], batch[t])
      BY <2>1, <2>3 DEF TypeOK
    <3> QED
      BY <1>1, <2>1, <2>2, <2>3, <3>1 DEF Inserted
  <2>4. CASE ~(s = call[t].set /\ n = m)
    BY <2>1, <2>2, <2>4 DEF TypeOK
  <2> QED
    BY <2>3, <2>4
<1>2. CASE WipeEntries(t)
  BY <1>2 DEF WipeEntries, EntriesCleared, NoEntries
<1>3. Begins(t) \/ Fetch(t) => UNCHANGED entries
  BY DEF Begins, GetEntry, Scan, ClearEntries, Begin, Fetch, setVars
<1>4. LocalStep(t) => CreateEntry(t) \/ WipeEntries(t) \/ UNCHANGED entries
  BY DEF LocalStep, CheckLoaded, ClaimLoad, RejectEntry, FinishLoad, FindEntry,
     LockForScan, VisitEntry, FinishScan, ResetLoaded, setVars
<1> QED
  BY <1>1, <1>2, <1>3, <1>4 DEF Moves

\* A step that gives the thread a pointer gives it the one in the map.
LEMMA HeldMove ==
    ASSUME TypeOK, NEW t \in Threads, Moves(t), NEW n \in Names
    PROVE  \/ held'[t][n] = held[t][n] /\ call'[t] = call[t]
           \/ held'[t][n] = 0
           \/ /\ held'[t][n] = entries[call[t].set][n]
              /\ UNCHANGED <<entries, call, wipedAt, fetches>>
<1>1. CASE Begins(t)
  BY <1>1 DEF TypeOK, Begins, GetEntry, Scan, ClearEntries, Begin, NoEntries
<1>2. CASE FindEntry(t) \/ VisitEntry(t)
  <2>1. PICK m : held' = [held EXCEPT ![t][m] = entries[call[t].set][m]]
    BY <1>2 DEF FindEntry, VisitEntry
  <2>2. UNCHANGED <<entries, call, wipedAt, fetches>>
    BY <1>2 DEF FindEntry, VisitEntry, setVars, serverVars
  <2> QED
    BY <2>1, <2>2 DEF TypeOK
<1>3. Fetch(t) => UNCHANGED <<held, call>>
  BY DEF Fetch
<1>4. LocalStep(t) => FindEntry(t) \/ VisitEntry(t) \/ UNCHANGED <<held, call>>
  BY DEF LocalStep, CheckLoaded, ClaimLoad, CreateEntry, RejectEntry, FinishLoad,
     LockForScan, FinishScan, WipeEntries, ResetLoaded
<1> QED
  BY <1>1, <1>2, <1>3, <1>4 DEF Moves
-----------------------------------------------------------------------------
(* Any number of threads.                                                  *)

LEMMA PastMove ==
    ASSUME TypeOK, PastOK, NEW t \in Threads, Moves(t)
    PROVE  PastOK'
<1>1. fetches \in Nat /\ fetches' \in Nat /\ fetches' >= fetches /\ wipedAt' <= fetches'
  <2>1. fetches \in Nat /\ wipedAt \in Nat /\ wipedAt <= fetches
    BY DEF PastOK, TypeOK
  <2>2. fetches' \in {fetches, fetches + 1} /\ wipedAt' \in {fetches, wipedAt}
    BY CountersMove
  <2> QED
    BY <2>1, <2>2
<1>2. ASSUME NEW s \in Sets, NEW n \in Names PROVE entries'[s][n] <= fetches'
  <2>1. entries'[s][n] \in {entries[s][n], batch[t], 0}
    BY EntriesMove
  <2>2. entries[s][n] \in Nat /\ entries[s][n] <= fetches /\ batch[t] \in Nat /\ batch[t] <= fetches
    BY DEF PastOK, TypeOK
  <2> QED
    BY <1>1, <2>1, <2>2
<1>3. batch'[t] <= fetches'
  <2>1. Fetch(t) => batch'[t] = batch[t] \/ batch'[t] = fetches'
    BY DEF Fetch, TypeOK
  <2>2. Begins(t) \/ LocalStep(t) => UNCHANGED batch
    BY DEF Begins, GetEntry, Scan, ClearEntries, Begin, LocalStep, CheckLoaded, ClaimLoad,
       CreateEntry, RejectEntry, FinishLoad, FindEntry, LockForScan, VisitEntry, FinishScan,
       WipeEntries, ResetLoaded
  <2>3. batch[t] \in Nat /\ batch[t] <= fetches
    BY DEF PastOK, TypeOK
  <2> QED
    BY <1>1, <2>1, <2>2, <2>3 DEF Moves
<1>4. ASSUME NEW n \in Names PROVE held'[t][n] <= fetches'
  <2>1. held'[t][n] \in {held[t][n], 0, entries[call[t].set][n]}
    BY HeldMove
  <2>2. /\ entries[call[t].set][n] \in Nat /\ entries[call[t].set][n] <= fetches
        /\ held[t][n] \in Nat /\ held[t][n] <= fetches
    BY DEF PastOK, TypeOK, Calls
  <2> QED
    BY <1>1, <2>1, <2>2
<1>5. ASSUME NEW u \in Threads, u # t
      PROVE  batch'[u] <= fetches' /\ \A n \in Names : held'[u][n] <= fetches'
  BY <1>1, <1>5, OthersStay DEF PastOK, TypeOK
<1> QED
  BY <1>1, <1>2, <1>3, <1>4, <1>5 DEF PastOK

LEMMA LockMove ==
    ASSUME TypeOK, LockOnlyForScans, NEW t \in Threads, Moves(t)
    PROVE  LockOnlyForScans'
<1>b. Begins(t) => UNCHANGED entryLock /\ pc[t] # "visit" /\ pc'[t] # "visit"
  <2>1. Begins(t) => /\ UNCHANGED entryLock /\ pc[t] = "idle"
                     /\ \E first \in {"check", "clear"} : pc' = [pc EXCEPT ![t] = first]
    BY BeginsShape DEF Enters, setVars
  <2>2. pc \in [Threads -> Labels]
    BY DEF TypeOK
  <2> QED
    BY <2>1, <2>2
<1>o. \A u \in Threads \ {t} : pc'[u] = pc[u] /\ call'[u] = call[u]
  BY OthersStay
<1>1. CASE pc[t] # "visit" /\ pc'[t] # "visit" /\ UNCHANGED entryLock
  BY <1>o, <1>1 DEF LockOnlyForScans
<1> USE DEF TypeOK, LockOnlyForScans
<1>0. call[t].set \in Sets
  BY DEF Calls
<1>2. CASE Begins(t)
  BY <1>b, <1>1, <1>2
<1>3. CASE Fetch(t)
  BY <1>3, <1>1 DEF Fetch, LoadThrows, Return, Goto
<1>4. CASE CheckLoaded(t) \/ ClaimLoad(t) \/ FinishLoad(t)
  BY <1>4, <1>1 DEF CheckLoaded, ClaimLoad, FinishLoad, Continue, Goto, setVars
<1>5. CASE CreateEntry(t) \/ RejectEntry(t)
  BY <1>5, <1>1 DEF CreateEntry, RejectEntry, LoadThrows, Return, Goto
<1>6. CASE FindEntry(t) \/ WipeEntries(t) \/ ResetLoaded(t)
  BY <1>6, <1>1 DEF FindEntry, WipeEntries, ResetLoaded, Return, Goto, setVars
<1>7. CASE LockForScan(t)
  BY <1>0, <1>o, <1>7, ThreadsAssumption DEF LockForScan, Acquire, LockFree, Goto
<1>8. CASE VisitEntry(t)
  BY <1>o, <1>8 DEF VisitEntry, setVars
<1>9. CASE FinishScan(t)
  BY <1>0, <1>o, <1>9, ThreadsAssumption DEF FinishScan, Return, Goto
<1> QED
  BY <1>2, <1>3, <1>4, <1>5, <1>6, <1>7, <1>8, <1>9 DEF Moves, LocalStep

LEMMA PointersMove ==
    ASSUME ClearInv, NEW t \in Threads, Moves(t)
    PROVE  PointersOutliveLoads'
<1> USE DEF ClearInv, TypeOK, PastOK
<1> SUFFICES ASSUME NEW u \in Threads, NEW n \in Names, held'[u][n] > wipedAt'
             PROVE  entries'[call'[u].set][n] = held'[u][n]
  BY DEF PointersOutliveLoads
<1>1. call[u].set \in Sets
  BY DEF Calls
<1>2. CASE held'[u][n] = held[u][n] /\ call'[u] = call[u]
  <2>1. ~WipeEntries(t) /\ held[u][n] > wipedAt
    BY <1>2, CountersMove
  <2>2. entries[call[u].set][n] = held[u][n] /\ held[u][n] # 0
    BY <2>1 DEF PointersOutliveLoads
  <2> QED
    BY <1>1, <1>2, <2>1, <2>2, EntriesMove
<1>3. CASE held'[u][n] = 0
  BY <1>3, TypeStep DEF Moves, Next
<1>4. CASE held'[u][n] = entries[call[u].set][n] /\ UNCHANGED <<entries, call>>
  BY <1>4
<1> QED
  BY <1>2, <1>3, <1>4, HeldMove, OthersStay

LEMMA ScanMove ==
    ASSUME ClearInv, NEW t \in Threads, Moves(t)
    PROVE  ScanMissesNothing'
<1> USE DEF ClearInv, TypeOK
<1> SUFFICES ASSUME NEW u \in Threads, pc'[u] = "visit", NEW n \in Names,
                    entries'[call'[u].set][n] # 0
             PROVE  n \in todo'[u] \/ held'[u][n] = entries'[call'[u].set][n]
  BY DEF ScanMissesNothing
<1>1. call[u].set \in Sets /\ call[t].set \in Sets
  BY DEF Calls
<1>2. CASE u # t
  <2>1. /\ pc[u] = "visit" /\ call'[u] = call[u]
        /\ todo'[u] = todo[u] /\ held'[u] = held[u]
    BY <1>2, OthersStay
  <2>2. ~LockFree(call[u].set)
    BY <1>1, <2>1, ThreadsAssumption DEF LockOnlyForScans, LockFree
  <2>3. entries'[call[u].set][n] = entries[call[u].set][n]
    BY <1>1, <2>1, <2>2, EntriesMove
  <2> QED
    BY <2>1, <2>3 DEF ScanMissesNothing
<1>3. CASE u = t
  <2>1. CASE LockForScan(t)
    BY <1>1, <1>3, <2>1 DEF LockForScan, Present
  <2>2. CASE VisitEntry(t)
    <3>1. PICK m \in todo[t] : /\ held' = [held EXCEPT ![t][m] = entries[call[t].set][m]]
                               /\ todo' = [todo EXCEPT ![t] = @ \ {m}]
      BY <2>2 DEF VisitEntry
    <3>2. UNCHANGED <<entries, call, pc>>
      BY <2>2 DEF VisitEntry, setVars
    <3> QED
      BY <1>3, <3>1, <3>2 DEF ScanMissesNothing
  <2>3. LocalStep(t) => LockForScan(t) \/ VisitEntry(t) \/ pc'[t] # "visit"
    BY DEF LocalStep, CheckLoaded, ClaimLoad, CreateEntry, RejectEntry, FinishLoad, FindEntry,
       FinishScan, WipeEntries, ResetLoaded, Goto, Return, Continue, LoadThrows
  <2>4. Begins(t) \/ Fetch(t) => pc'[t] # "visit"
    BY BeginsShape DEF Enters, Fetch, Goto, Return, LoadThrows
  <2> QED
    BY <1>3, <2>1, <2>2, <2>3, <2>4 DEF Moves
<1> QED
  BY <1>2, <1>3

LEMMA ClearInvAlways == Spec => []ClearInv
<1>1. Init => ClearInv
  <2> SUFFICES ASSUME Init PROVE ClearInv
    OBVIOUS
  <2>1. PastOK /\ PointersOutliveLoads
    BY DEF Init, PastOK, PointersOutliveLoads, NoEntries
  <2>2. LockOnlyForScans /\ ScanMissesNothing
    BY ThreadsAssumption DEF Init, LockOnlyForScans, ScanMissesNothing
  <2> QED
    BY <2>1, <2>2, InitType DEF ClearInv
<1>2. ClearInv /\ [Next]_vars => ClearInv'
  <2> SUFFICES ASSUME ClearInv, [Next]_vars PROVE ClearInv'
    OBVIOUS
  <2>1. CASE UNCHANGED <<fetches, setVars, threadVars>>
    BY <2>1, TypeStep DEF ClearInv, setVars, threadVars, PastOK, LockOnlyForScans,
       PointersOutliveLoads, ScanMissesNothing
  <2>2. ASSUME NEW t \in Threads, Moves(t) PROVE ClearInv'
    BY <2>2, TypeStep, PastMove, LockMove, PointersMove, ScanMove DEF ClearInv
  <2> QED
    BY <2>1, <2>2 DEF Next, Moves, ServerChange, vars, serverVars
<1> QED
  BY <1>1, <1>2, PTL DEF Spec

\* Only a clear takes an entry from under a pointer, whatever else the threads
\* do and however many clears there are.
THEOREM PointersNeedClear == Spec => []PointersOutliveLoads
<1>1. ClearInv => PointersOutliveLoads
  BY DEF ClearInv
<1> QED
  BY <1>1, ClearInvAlways, PTL

\* A scan shows its callback all there is, also when other threads load the set
\* while the scan is under way, and whatever was cleared before.
THEOREM ScansMissNothing == Spec => []ScanMissesNothing
<1>1. ClearInv => ScanMissesNothing
  BY DEF ClearInv
<1> QED
  BY <1>1, ClearInvAlways, PTL

\* Nobody holds entry_lock while the server is asked or after a call is over,
\* however it ended: what makes waiting for the lock a wait for a scan only.
THEOREM LockForScansOnly == Spec => []LockOnlyForScans
<1>1. ClearInv => LockOnlyForScans
  BY DEF ClearInv
<1> QED
  BY <1>1, ClearInvAlways, PTL
-----------------------------------------------------------------------------
(* One thread: nothing moves between its own statements.                   *)

OneThread == \A t, u \in Threads : t = u

\* A set that does not count as loaded holds nothing a load could be mixed with.
UnloadedEmpty == \A s \in Sets, n \in Names : ~isLoaded[s] => entries[s][n] = 0

\* ClearForgets and OneListingPerSet say nothing of a call under way.  What each
\* statement of a call finds is what the statements before it left.
PhaseOne ==
    \A t \in Threads : LET s == call[t].set IN
        /\ pc[t] = "claim" => ~isLoaded[s]
        /\ pc[t] \in {"fetch", "insert", "find", "lock", "visit"} => isLoaded[s]
        /\ pc[t] = "fetch" => \A n \in Names : entries[s][n] = 0
        /\ pc[t] = "insert" => /\ batch[t] > wipedAt
                               /\ \A n \in Names : entries[s][n] \in {0, batch[t]}
        /\ pc[t] = "reset" => \A x \in Sets, n \in Names : entries[x][n] = 0

SoloInv ==
    /\ TypeOK /\ PastOK
    /\ UnloadedEmpty /\ ClearForgets /\ OneListingPerSet
    /\ PhaseOne

\* What the sets hold stays sound, whichever statement is next.
LEMMA SoloSets ==
    ASSUME OneThread, SoloInv, NEW t \in Threads, Moves(t)
    PROVE  UnloadedEmpty' /\ ClearForgets' /\ OneListingPerSet'
<1> USE DEF SoloInv, UnloadedEmpty, ClearForgets, OneListingPerSet
<1>0. call[t].set \in Sets
  BY DEF TypeOK, Calls
<1>1. CASE UNCHANGED <<isLoaded, entries, wipedAt>>
  BY <1>1
<1>2. CASE ClaimLoad(t)
  <2>1. UNCHANGED <<entries, wipedAt>> /\ \A s \in Sets : isLoaded[s] => isLoaded'[s]
    BY <1>2 DEF ClaimLoad, TypeOK
  <2> QED
    BY <2>1
<1>3. CASE CreateEntry(t)
  <2> DEFINE s == call[t].set
  <2>1. UNCHANGED <<isLoaded, wipedAt>> /\ pc[t] = "insert"
    BY <1>3 DEF CreateEntry
  <2>2. isLoaded[s] /\ batch[t] > wipedAt /\ \A n \in Names : entries[s][n] \in {0, batch[t]}
    BY <2>1 DEF PhaseOne
  <2>3. /\ \A n \in Names : entries'[s][n] \in {0, batch[t]}
        /\ \A x \in Sets \ {s}, n \in Names : entries'[x][n] = entries[x][n]
    <3>1. \A x \in Sets, n \in Names :
             \/ entries'[x][n] = entries[x][n]
             \/ x = s /\ entries'[x][n] = batch[t]
      BY EntriesMove, <2>1 DEF WipeEntries
    <3> QED
      BY <1>0, <2>2, <3>1
  <2> QED
    BY <1>0, <2>1, <2>2, <2>3
<1>4. CASE WipeEntries(t)
  <2>1. \A s \in Sets, n \in Names : entries'[s][n] = 0
    BY <1>4 DEF WipeEntries, EntriesCleared, NoEntries
  <2> QED
    BY <2>1
<1>5. CASE ResetLoaded(t)
  <2>1. UNCHANGED <<entries, wipedAt>> /\ pc[t] = "reset"
    BY <1>5 DEF ResetLoaded
  <2>2. \A s \in Sets, n \in Names : entries'[s][n] = 0
    BY <2>1 DEF PhaseOne
  <2> QED
    BY <2>2
<1>6. Begins(t) \/ Fetch(t) => UNCHANGED <<isLoaded, entries, wipedAt>>
  BY DEF Begins, GetEntry, Scan, ClearEntries, Begin, Fetch, setVars
<1>7. LocalStep(t) => \/ ClaimLoad(t) \/ CreateEntry(t) \/ WipeEntries(t) \/ ResetLoaded(t)
                      \/ UNCHANGED <<isLoaded, entries, wipedAt>>
  BY DEF LocalStep, CheckLoaded, RejectEntry, FinishLoad, FindEntry, LockForScan,
     VisitEntry, FinishScan, setVars
<1> QED
  BY <1>1, <1>2, <1>3, <1>4, <1>5, <1>6, <1>7 DEF Moves

LEMMA SoloPhase ==
    ASSUME OneThread, SoloInv, NEW t \in Threads, Moves(t)
    PROVE  PhaseOne'
<1> DEFINE s == call[t].set
<1> SUFFICES
      /\ pc'[t] = "claim" => ~isLoaded'[call'[t].set]
      /\ pc'[t] \in {"fetch", "insert", "find", "lock", "visit"} => isLoaded'[call'[t].set]
      /\ pc'[t] = "fetch" => \A n \in Names : entries'[call'[t].set][n] = 0
      /\ pc'[t] = "insert" => /\ batch'[t] > wipedAt'
                              /\ \A n \in Names : entries'[call'[t].set][n] \in {0, batch'[t]}
      /\ pc'[t] = "reset" => \A x \in Sets, n \in Names : entries'[x][n] = 0
  <2>1. \A u \in Threads : u = t
    BY DEF OneThread
  <2> QED
    BY <2>1 DEF PhaseOne
<1>0. s \in Sets /\ pc \in [Threads -> Labels]
  BY DEF SoloInv, TypeOK, Calls
<1>1. CASE Begins(t)
  <2>1. pc'[t] \in {"check", "clear"}
    BY <1>0, <1>1, BeginsShape DEF Enters
  <2> QED
    BY <2>1
<1>2. CASE Fetch(t)
  <2>1. UNCHANGED <<isLoaded, entries, wipedAt, call>> /\ pc[t] = "fetch"
    BY <1>2 DEF Fetch
  <2>2. \/ pc'[t] = "idle"
        \/ pc'[t] = "insert" /\ batch'[t] = fetches + 1
    BY <1>0, <1>2 DEF Fetch, LoadThrows, Return, Goto, SoloInv, TypeOK
  <2>3. wipedAt \in Nat /\ fetches \in Nat /\ wipedAt <= fetches
    BY DEF SoloInv, TypeOK, PastOK
  <2>4. isLoaded[s] /\ \A n \in Names : entries[s][n] = 0
    BY <2>1 DEF SoloInv, PhaseOne
  <2> QED
    BY <2>1, <2>2, <2>3, <2>4
<1>3. CASE CheckLoaded(t)
  <2>1. UNCHANGED <<isLoaded, call>>
    BY <1>3 DEF CheckLoaded, setVars
  <2>2. IF isLoaded[s] THEN pc'[t] \in {"find", "lock"} ELSE pc'[t] = "claim"
    BY <1>0, <1>3 DEF CheckLoaded, MustLoad, Continue, Goto
  <2> QED
    BY <2>1, <2>2
<1>4. CASE ClaimLoad(t)
  <2>1. /\ UNCHANGED <<entries, call>> /\ pc[t] = "claim" /\ pc'[t] = "fetch"
        /\ isLoaded'[s]
    BY <1>0, <1>4 DEF ClaimLoad, Goto, SoloInv, TypeOK
  <2>2. ~isLoaded[s]
    BY <2>1 DEF SoloInv, PhaseOne
  <2>3. \A n \in Names : entries[s][n] = 0
    BY <1>0, <2>2 DEF SoloInv, UnloadedEmpty
  <2> QED
    BY <2>1, <2>3
<1>5. CASE CreateEntry(t)
  <2>1. UNCHANGED <<isLoaded, wipedAt, pc, call, batch>> /\ pc[t] = "insert"
    BY <1>5 DEF CreateEntry
  <2>2. isLoaded[s] /\ batch[t] > wipedAt /\ \A n \in Names : entries[s][n] \in {0, batch[t]}
    BY <2>1 DEF SoloInv, PhaseOne
  <2>3. \A n \in Names : entries'[s][n] \in {0, batch[t]}
    BY <1>0, <1>5, <2>2, EntriesMove DEF SoloInv
  <2> QED
    BY <2>1, <2>2, <2>3
<1>6. CASE FinishLoad(t)
  <2>1. /\ UNCHANGED <<isLoaded, call>> /\ pc[t] = "insert"
        /\ pc'[t] \in {"find", "lock"}
    BY <1>0, <1>6 DEF FinishLoad, Continue, Goto, setVars
  <2> QED
    BY <2>1 DEF SoloInv, PhaseOne
<1>7. CASE LockForScan(t) \/ VisitEntry(t)
  <2>1. UNCHANGED <<isLoaded, call>> /\ pc[t] \in {"lock", "visit"} /\ pc'[t] = "visit"
    BY <1>0, <1>7 DEF LockForScan, VisitEntry, Goto, setVars
  <2> QED
    BY <2>1 DEF SoloInv, PhaseOne
<1>8. CASE WipeEntries(t)
  BY <1>0, <1>8 DEF WipeEntries, EntriesCleared, NoEntries, Goto
<1>9. CASE RejectEntry(t) \/ FindEntry(t) \/ FinishScan(t) \/ ResetLoaded(t)
  <2>1. pc'[t] = "idle"
    BY <1>0, <1>9 DEF RejectEntry, LoadThrows, FindEntry, FinishScan, ResetLoaded, Return, Goto
  <2> QED
    BY <2>1
<1> QED
  BY <1>1, <1>2, <1>3, <1>4, <1>5, <1>6, <1>7, <1>8, <1>9 DEF Moves, LocalStep

LEMMA SoloInvAlways == ASSUME OneThread PROVE Spec => []SoloInv
<1>1. Init => SoloInv
  <2> SUFFICES ASSUME Init PROVE SoloInv
    OBVIOUS
  <2>1. PastOK /\ UnloadedEmpty /\ ClearForgets /\ OneListingPerSet
    BY DEF Init, PastOK, UnloadedEmpty, ClearForgets, OneListingPerSet, NoEntries
  <2>2. PhaseOne
    BY DEF Init, PhaseOne
  <2> QED
    BY <2>1, <2>2, InitType DEF SoloInv
<1>2. SoloInv /\ [Next]_vars => SoloInv'
  <2> SUFFICES ASSUME SoloInv, [Next]_vars PROVE SoloInv'
    OBVIOUS
  <2>1. CASE UNCHANGED <<fetches, setVars, threadVars>>
    BY <2>1, TypeStep DEF SoloInv, setVars, threadVars, PastOK, UnloadedEmpty, ClearForgets,
       OneListingPerSet, PhaseOne
  <2>2. ASSUME NEW t \in Threads, Moves(t) PROVE SoloInv'
    BY <2>2, TypeStep, PastMove, SoloSets, SoloPhase DEF SoloInv
  <2> QED
    BY <2>1, <2>2 DEF Next, Moves, ServerChange, vars, serverVars
<1> QED
  BY <1>1, <1>2, PTL DEF Spec

\* With one connection uc_clear_cache forgets: no entry of before it is served.
THEOREM ClearsForget == ASSUME OneThread PROVE Spec => []ClearForgets
<1>1. SoloInv => ClearForgets
  BY DEF SoloInv
<1> QED
  BY <1>1, SoloInvAlways, PTL

\* With one connection a set never mixes two answers of the server, although a
\* load that was cut short leaves what it had inserted.
THEOREM OneListing == ASSUME OneThread PROVE Spec => []OneListingPerSet
<1>1. SoloInv => OneListingPerSet
  BY DEF SoloInv
<1> QED
  BY <1>1, SoloInvAlways, PTL

\* With one thread the set counts as loaded, and nobody is loading or clearing
\* it, when an entry is looked up.
LEMMA SoloMissing ==
    ASSUME OneThread, SoloInv, LoadInv, NEW t \in Threads, pc[t] \in {"find", "lock"},
           NEW n \in Stable[Requested(call[t].set)], entries[call[t].set][n] = 0
    PROVE  loadFailed[call[t].set]
<1> DEFINE s == call[t].set
<1>1. s \in Sets
  BY DEF SoloInv, TypeOK, Calls
<1>2. isLoaded[s]
  BY DEF SoloInv, PhaseOne
<1>3. ~Clearing(s) /\ ~InFlight(s, n)
  BY DEF OneThread, Clearing, InFlight
<1> QED
  BY <1>1, <1>2, <1>3 DEF LoadInv, LoadsOK

\* With one connection, which may clear the cache, a lookup misses what the
\* server always listed only after a load that was cut short.
THEOREM LoneMissesHaveCauses == ASSUME OneThread PROVE Spec => MissHasCause
<1> DEFINE s(t) == call[t].set
           Missing(t) == \/ FindEntry(t) /\ answer'[t] = "miss"
                            /\ call[t].name \in Stable[Requested(s(t))]
                         \/ LockForScan(t) /\ \E n \in Stable[Requested(s(t))] : n \notin todo'[t]
           Cause(t) == \/ loadFailed[s(t)]
                       \/ \E u \in Threads \ {t} :
                             call[u].set = s(t) /\ pc[u] \in {"fetch", "insert"}
           Inv == SoloInv /\ LoadInv
<1>1. Init => LoadInv
  BY InitType DEF Init, LoadInv, ServerOK, BatchOK, LoadsOK
<1>2. LoadInv /\ [Next]_vars => LoadInv'
  BY LoadInvStep
<1>3. Spec => []Inv
  BY <1>1, <1>2, SoloInvAlways, PTL DEF Spec
<1>4. ASSUME Inv, NEW t \in Threads, Missing(t) PROVE Cause(t)
  <2>1. s(t) \in Sets /\ answer \in [Threads -> Outcomes] /\ todo \in [Threads -> SUBSET Items]
    BY <1>4 DEF SoloInv, TypeOK, Calls
  <2>2. CASE /\ FindEntry(t) /\ answer'[t] = "miss"
             /\ call[t].name \in Stable[Requested(s(t))]
    <3>1. pc[t] = "find" /\ Found(s(t), call[t].name) = "miss"
      BY <2>1, <2>2 DEF FindEntry, Return
    <3> QED
      BY <1>4, <2>2, <3>1, SoloMissing DEF Found
  <2>3. CASE LockForScan(t) /\ \E n \in Stable[Requested(s(t))] : n \notin todo'[t]
    <3>1. PICK n \in Stable[Requested(s(t))] : n \notin todo'[t]
      BY <2>3
    <3>2. pc[t] = "lock" /\ todo'[t] = Present(s(t))
      BY <2>1, <2>3 DEF LockForScan
    <3>3. entries[s(t)][n] = 0
      BY <2>1, <3>1, <3>2, StableListed DEF Present
    <3> QED
      BY <1>4, <3>2, <3>3, SoloMissing
  <2> QED
    BY <1>4, <2>2, <2>3
<1>5. Inv => \A t \in Threads : Missing(t) => Cause(t)
  BY <1>4
<1>6. Inv /\ [Next]_vars => [\A t \in Threads : Missing(t) => Cause(t)]_vars
  BY <1>5
<1> QED
  BY <1>3, <1>6, PTL DEF Spec, MissHasCause
=============================================================================
