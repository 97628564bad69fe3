------------------------- MODULE UCCatalogSetProofs -------------------------
(***************************************************************************)
(* Theorems about the catalog sets, for any numbers of threads, table      *)
(* sets, names and calls, any server and any replies.                      *)
(***************************************************************************)
EXTENDS UCCatalogSet, TLAPS

USE DEF Sets, Listings, Items

-----------------------------------------------------------------------------
(* Type correctness.                                                       *)

LEMMA ParsedType ==
    ASSUME NEW s, NEW reply, NEW names \in SUBSET Names
    PROVE  Parsed(s, reply, names) \in SUBSET Items
BY DEF Parsed, GetSchemas, GetTables

LEMMA BeginType ==
    ASSUME TypeOK, NEW t \in Threads, Begins(t)
    PROVE  TypeOK'
<1>1. ASSUME NEW op \in {"GetEntry", "Scan", "ClearEntries"}, NEW s \in Sets,
             NEW n \in Items, NEW first \in {"check", "clear"},
             Begin(t, op, s, n, first)
      PROVE  TypeOK'
  <2>1. [op |-> op, set |-> s, name |-> n] \in Calls
    BY DEF Calls
  <2>2. NoEntries \in [Names -> Nat]
    BY DEF NoEntries
  <2> QED
    BY <1>1, <2>1, <2>2 DEF Begin, TypeOK, Labels, Outcomes, serverVars, setVars
<1> QED
  BY <1>1 DEF Begins, GetEntry, Scan, ClearEntries

LEMMA FetchType ==
    ASSUME TypeOK, NEW t \in Threads, Fetch(t)
    PROVE  TypeOK'
<1>1. call[t].set \in Sets
  BY DEF TypeOK, Calls
<1>2. Requested(call[t].set) \in Listings
  BY <1>1, SetsAssumption DEF Requested
<1> DEFINE Delivered(reply) ==
        /\ fetches' = fetches + 1
        /\ batch' = [batch EXCEPT ![t] = fetches + 1]
        /\ todo' = [todo EXCEPT ![t] =
                      Parsed(call[t].set, reply, remote[Requested(call[t].set)])]
        /\ loadFailed' = [loadFailed EXCEPT ![call[t].set] = @ \/ reply # "listing"]
        /\ Goto(t, "insert")
        /\ UNCHANGED answer
<1>3. UNCHANGED <<remote, isLoaded, entries, entryLock, wipedAt, call, held, calls>>
  BY DEF Fetch
<1>4. CASE LoadThrows(t) /\ UNCHANGED <<fetches, batch>>
  BY <1>1, <1>3, <1>4 DEF LoadThrows, Return, Goto, TypeOK, Labels, Outcomes
<1>5. ASSUME NEW reply \in Replies, Delivered(reply)
      PROVE  TypeOK'
  <2>1. Parsed(call[t].set, reply, remote[Requested(call[t].set)]) \in SUBSET Items
    BY <1>2, ParsedType DEF TypeOK
  <2>2. loadFailed' \in [Sets -> BOOLEAN]
    BY <1>1, <1>5, Zenon DEF TypeOK
  <2> QED
    BY <1>3, <1>5, <2>1, <2>2 DEF Goto, TypeOK, Labels
<1> QED
  BY <1>4, <1>5 DEF Fetch

LEMMA LocalType ==
    ASSUME TypeOK, NEW t \in Threads, LocalStep(t)
    PROVE  TypeOK'
<1> USE DEF TypeOK, Labels, Outcomes, Goto, Return, serverVars, setVars
<1>0. call[t] \in Calls /\ call[t].set \in Sets
  BY DEF Calls
<1>1. CASE CheckLoaded(t)
  BY <1>0, <1>1 DEF CheckLoaded, Continue
<1>2. CASE ClaimLoad(t)
  BY <1>0, <1>2 DEF ClaimLoad
<1>3. CASE CreateEntry(t)
  <2>1. PICK n \in todo[t] \cap Names :
          /\ entries' = [entries EXCEPT ![call[t].set][n] = Inserted(@, batch[t])]
          /\ todo' = [todo EXCEPT ![t] = @ \ {n}]
    BY <1>3 DEF CreateEntry
  <2>2. Inserted(entries[call[t].set][n], batch[t]) \in Nat
    BY <1>0 DEF Inserted
  <2> QED
    BY <1>0, <1>3, <2>1, <2>2 DEF CreateEntry
<1>4. CASE RejectEntry(t)
  BY <1>0, <1>4 DEF RejectEntry, LoadThrows
<1>5. CASE FinishLoad(t)
  BY <1>5 DEF FinishLoad, Continue
<1>6. CASE FindEntry(t)
  <2>1. \A n \in Names : entries[call[t].set][n] \in Nat
    BY <1>0
  <2>2. held' \in [Threads -> [Names -> Nat]]
    BY <1>6, <2>1 DEF FindEntry, Found
  <2> QED
    BY <1>6, <2>2 DEF FindEntry, Found
<1>7. CASE LockForScan(t)
  BY <1>0, <1>7 DEF LockForScan, Acquire, Present
<1>8. CASE VisitEntry(t)
  <2>1. PICK n \in todo[t] :
          /\ held' = [held EXCEPT ![t][n] = entries[call[t].set][n]]
          /\ todo' = [todo EXCEPT ![t] = @ \ {n}]
    BY <1>8 DEF VisitEntry
  <2>2. \A m \in Names : entries[call[t].set][m] \in Nat
    BY <1>0
  <2>3. held' \in [Threads -> [Names -> Nat]]
    BY <2>1, <2>2
  <2> QED
    BY <1>8, <2>1, <2>3 DEF VisitEntry
<1>9. CASE FinishScan(t)
  BY <1>0, <1>9 DEF FinishScan
<1>10. CASE WipeEntries(t)
  BY <1>10 DEF WipeEntries, EntriesCleared, NoEntries
<1>11. CASE ResetLoaded(t)
  BY <1>11 DEF ResetLoaded, Reset
<1> QED
  BY <1>1, <1>2, <1>3, <1>4, <1>5, <1>6, <1>7, <1>8, <1>9, <1>10, <1>11 DEF LocalStep

LEMMA InitType == Init => TypeOK
<1> SUFFICES ASSUME Init PROVE TypeOK
  OBVIOUS
<1>1. [op |-> "Scan", set |-> Root, name |-> NoName] \in Calls
  BY DEF Calls
<1> QED
  BY <1>1 DEF Init, TypeOK, Labels, Outcomes, NoEntries

LEMMA TypeStep ==
    ASSUME TypeOK, [Next]_vars
    PROVE  TypeOK'
<1>1. ASSUME NEW l \in Listings, NEW n \in Names, ServerChange(l, n)
      PROVE  TypeOK'
  BY <1>1 DEF ServerChange, TypeOK, setVars, threadVars
<1>2. CASE UNCHANGED vars
  BY <1>2 DEF vars, serverVars, setVars, threadVars, TypeOK
<1> QED
  BY <1>1, <1>2, BeginType, FetchType, LocalType DEF Next

\* TypeOK is an invariant of the sets: every control point, pointer and lock
\* owner stays in its range whatever the server answers.
THEOREM TypeCorrect == Spec => []TypeOK
<1>1. Init => TypeOK
  BY InitType
<1>2. TypeOK /\ [Next]_vars => TypeOK'
  BY TypeStep
<1> QED
  BY <1>1, <1>2, PTL DEF Spec
-----------------------------------------------------------------------------
(* The inductive invariant behind LoadedIsComplete.                        *)

\* The server never loses the names that are Stable.
ServerOK == \A l \in Listings : Stable[l] \subseteq remote[l]

\* A load of s will still insert n.
InFlight(s, n) ==
    \E t \in Threads :
        /\ call[t].set = s
        /\ pc[t] = "fetch" \/ (pc[t] = "insert" /\ n \in todo[t])

\* LoadedIsComplete is not inductive: while a load runs it says nothing, so it
\* does not give what is needed when the load ends.  LoadsOK accounts for every
\* missing name at every moment of the load.
LoadsOK ==
    \A s \in Sets :
        isLoaded[s] /\ ~loadFailed[s] /\ ~Clearing(s)
            => \A n \in Stable[Requested(s)] : entries[s][n] # 0 \/ InFlight(s, n)

\* A load in progress inserts entries of an actual fetch.
BatchOK == \A t \in Threads : pc[t] = "insert" => batch[t] # 0

LoadInv == TypeOK /\ ServerOK /\ BatchOK /\ LoadsOK

LEMMA StableListed ==
    ASSUME NEW s \in Sets
    PROVE  Requested(s) \in Listings /\ Stable[Requested(s)] \subseteq Names
BY SetsAssumption DEF Requested

\* What makes a missing name of a loaded set excusable.
Accounted(s, n) == entries[s][n] # 0 \/ InFlight(s, n)

\* Thread t moves; nothing becomes loaded, healed or erased, and the flights of
\* the other threads go on.  What is left to show is t's own flight.
LEMMA MoveKeepsLoads ==
    ASSUME LoadInv, NEW t \in Threads,
           pc' = [pc EXCEPT ![t] = pc'[t]],
           call' = [call EXCEPT ![t] = call'[t]],
           todo' = [todo EXCEPT ![t] = todo'[t]],
           \A s \in Sets : isLoaded'[s] => isLoaded[s],
           \A s \in Sets : loadFailed[s] => loadFailed'[s],
           \A s \in Sets, n \in Names : entries[s][n] # 0 => entries'[s][n] # 0,
           pc[t] # "reset",
           \A s \in Sets : ~loadFailed'[s] =>
              \A n \in Stable[Requested(s)] :
                 call[t].set = s /\ (pc[t] = "fetch" \/ (pc[t] = "insert" /\ n \in todo[t]))
                    => Accounted(s, n)'
    PROVE  LoadsOK'
<1> SUFFICES ASSUME NEW s \in Sets, isLoaded'[s], ~loadFailed'[s], ~Clearing(s)',
                    NEW n \in Stable[Requested(s)]
             PROVE  Accounted(s, n)'
  BY DEF LoadsOK, Accounted
<1>1. n \in Names
  BY StableListed
<1>2. ~Clearing(s)
  BY DEF Clearing, LoadInv, TypeOK
<1>3. Accounted(s, n)
  <2>1. isLoaded[s] /\ ~loadFailed[s]
    OBVIOUS
  <2> QED
    BY <1>2, <2>1, Zenon DEF LoadInv, LoadsOK, Accounted
<1>4. CASE entries[s][n] # 0
  BY <1>1, <1>4 DEF Accounted
<1>5. CASE InFlight(s, n)
  <2>1. PICK u \in Threads :
           call[u].set = s /\ (pc[u] = "fetch" \/ (pc[u] = "insert" /\ n \in todo[u]))
    BY <1>5 DEF InFlight
  <2>2. CASE u = t
    BY <2>1, <2>2
  <2>3. CASE u # t
    BY <2>1, <2>3 DEF Accounted, InFlight, LoadInv, TypeOK
  <2> QED
    BY <2>2, <2>3
<1> QED
  BY <1>3, <1>4, <1>5 DEF Accounted

LEMMA BeginLoads ==
    ASSUME LoadInv, NEW t \in Threads, Begins(t)
    PROVE  LoadsOK'
<1>1. /\ UNCHANGED <<isLoaded, loadFailed, entries, todo>>
      /\ pc[t] = "idle"
      /\ pc' = [pc EXCEPT ![t] = pc'[t]]
      /\ call' = [call EXCEPT ![t] = call'[t]]
  BY DEF Begins, GetEntry, Scan, ClearEntries, Begin, setVars, LoadInv, TypeOK
<1>2. todo' = [todo EXCEPT ![t] = todo'[t]]
  BY <1>1 DEF LoadInv, TypeOK
<1> QED
  BY <1>1, <1>2, MoveKeepsLoads

LEMMA FetchLoads ==
    ASSUME LoadInv, NEW t \in Threads, Fetch(t)
    PROVE  LoadsOK'
<1> DEFINE mine == call[t].set
           Delivery(reply) ==
              /\ todo' = [todo EXCEPT ![t] = Parsed(mine, reply, remote[Requested(mine)])]
              /\ loadFailed' = [loadFailed EXCEPT ![mine] = @ \/ reply # "listing"]
              /\ Goto(t, "insert")
<1>0. mine \in Sets /\ TypeOK
  BY DEF LoadInv, TypeOK, Calls
<1>1. UNCHANGED <<isLoaded, entries, call>> /\ pc[t] = "fetch"
  BY DEF Fetch
<1>2. call' = [call EXCEPT ![t] = call'[t]]
  BY <1>0, <1>1 DEF TypeOK
<1>3. CASE LoadThrows(t)
  <2>1. /\ pc' = [pc EXCEPT ![t] = pc'[t]]
        /\ todo' = [todo EXCEPT ![t] = todo'[t]]
        /\ \A s \in Sets : loadFailed[s] => loadFailed'[s]
        /\ loadFailed'[mine]
    BY <1>0, <1>3 DEF LoadThrows, Return, Goto, TypeOK
  <2> QED
    BY <1>1, <1>2, <2>1, MoveKeepsLoads
<1>4. ASSUME NEW reply \in Replies, Delivery(reply)
      PROVE  LoadsOK'
  <2>1. loadFailed'[mine] = (loadFailed[mine] \/ reply # "listing")
    BY <1>0, <1>4, Zenon DEF TypeOK
  <2>2. \A s \in Sets : loadFailed[s] => loadFailed'[s]
    <3> SUFFICES ASSUME NEW s \in Sets, loadFailed[s] PROVE loadFailed'[s]
      OBVIOUS
    <3>1. CASE s = mine
      BY <2>1, <3>1
    <3>2. CASE s # mine
      BY <1>0, <1>4, <3>2, Zenon DEF TypeOK
    <3> QED
      BY <3>1, <3>2
  <2>3. /\ pc' = [pc EXCEPT ![t] = pc'[t]] /\ pc'[t] = "insert"
        /\ todo' = [todo EXCEPT ![t] = todo'[t]]
        /\ todo'[t] = Parsed(mine, reply, remote[Requested(mine)])
    BY <1>0, <1>4 DEF Goto, TypeOK
  <2>4. reply = "listing" => Stable[Requested(mine)] \subseteq todo'[t]
    BY <1>0, <2>3, StableListed DEF Parsed, GetSchemas, GetTables, LoadInv, ServerOK
  <2>5. ASSUME ~loadFailed'[mine], NEW n \in Stable[Requested(mine)]
        PROVE  Accounted(mine, n)'
    BY <1>0, <1>1, <2>1, <2>3, <2>4, <2>5 DEF Accounted, InFlight
  <2> QED
    BY <1>0, <1>1, <1>2, <2>2, <2>3, <2>5, MoveKeepsLoads
<1> QED
  BY <1>3, <1>4 DEF Fetch

LEMMA LocalLoads ==
    ASSUME LoadInv, NEW t \in Threads, LocalStep(t)
    PROVE  LoadsOK'
<1> USE DEF LoadInv, TypeOK, Goto, Return
<1> DEFINE mine == call[t].set
<1>0. mine \in Sets
  BY DEF Calls
<1>1. CASE CheckLoaded(t)
  BY <1>1, MoveKeepsLoads DEF CheckLoaded, Continue, setVars
<1>2. CASE ClaimLoad(t)
  <2> SUFFICES ASSUME NEW s \in Sets, isLoaded'[s], ~loadFailed'[s], ~Clearing(s)',
                      NEW n \in Stable[Requested(s)]
               PROVE  Accounted(s, n)'
    BY DEF LoadsOK, Accounted
  <2>1. CASE s = mine
    BY <1>2, <2>1 DEF ClaimLoad, Accounted, InFlight
  <2>2. CASE s # mine
    <3>1. isLoaded[s] /\ ~loadFailed[s] /\ ~Clearing(s)
      BY <1>0, <1>2, <2>2 DEF ClaimLoad, Clearing
    <3>2. Accounted(s, n)
      BY <3>1, Zenon DEF LoadsOK, Accounted
    <3> QED
      BY <1>2, <3>2 DEF ClaimLoad, Accounted, InFlight
  <2> QED
    BY <2>1, <2>2
<1>3. CASE CreateEntry(t)
  <2>1. PICK n \in todo[t] \cap Names :
          /\ entries' = [entries EXCEPT ![mine][n] = Inserted(@, batch[t])]
          /\ todo' = [todo EXCEPT ![t] = @ \ {n}]
    BY <1>3 DEF CreateEntry
  <2>2. UNCHANGED <<isLoaded, loadFailed, pc, call>> /\ pc[t] = "insert"
    BY <1>3 DEF CreateEntry
  <2>3. entries'[mine][n] # 0
    BY <1>0, <2>1, <2>2 DEF Inserted, BatchOK
  <2>4. \A s \in Sets, m \in Names : entries[s][m] # 0 => entries'[s][m] # 0
    BY <1>0, <2>1, <2>3
  <2>5. ASSUME NEW m \in Stable[Requested(mine)], m \in todo[t]
        PROVE  Accounted(mine, m)'
    <3>1. m = n \/ m \in todo'[t]
      BY <2>1, <2>5
    <3> QED
      BY <2>2, <2>3, <3>1 DEF Accounted, InFlight
  <2>6. /\ pc' = [pc EXCEPT ![t] = pc'[t]]
        /\ call' = [call EXCEPT ![t] = call'[t]]
        /\ todo' = [todo EXCEPT ![t] = todo'[t]]
    BY <2>1, <2>2
  <2> QED
    BY <2>2, <2>4, <2>5, <2>6, MoveKeepsLoads
<1>4. CASE RejectEntry(t)
  <2>1. /\ UNCHANGED <<isLoaded, entries, call>> /\ pc[t] = "insert"
        /\ pc' = [pc EXCEPT ![t] = "idle"] /\ todo' = [todo EXCEPT ![t] = {}]
        /\ loadFailed' = [loadFailed EXCEPT ![mine] = TRUE]
    BY <1>4 DEF RejectEntry, LoadThrows
  <2> QED
    BY <1>0, <2>1, MoveKeepsLoads
<1>5. CASE FinishLoad(t)
  BY <1>5, MoveKeepsLoads DEF FinishLoad, LoopDone, Continue, setVars
<1>6. CASE FindEntry(t)
  BY <1>6, MoveKeepsLoads DEF FindEntry, Found, setVars
<1>7. CASE LockForScan(t)
  BY <1>7, MoveKeepsLoads DEF LockForScan, Acquire
<1>8. CASE VisitEntry(t)
  BY <1>8, MoveKeepsLoads DEF VisitEntry, setVars
<1>9. CASE FinishScan(t)
  BY <1>9, MoveKeepsLoads DEF FinishScan
<1>10. CASE WipeEntries(t)
  BY <1>10 DEF WipeEntries, EntriesCleared, LoadsOK, Clearing
<1>11. CASE ResetLoaded(t)
  <2> SUFFICES ASSUME NEW s \in Sets, isLoaded'[s], ~loadFailed'[s],
                      NEW n \in Stable[Requested(s)]
               PROVE  Accounted(s, n)'
    BY DEF LoadsOK, Accounted
  <2>1. s # Root /\ isLoaded[s] /\ ~loadFailed[s] /\ ~Clearing(s)
    BY <1>11 DEF ResetLoaded, Reset, Clearing
  <2>2. Accounted(s, n)
    BY <2>1, Zenon DEF LoadsOK, Accounted
  <2> QED
    BY <1>11, <2>2 DEF ResetLoaded, Reset, Accounted, InFlight
<1> QED
  BY <1>1, <1>2, <1>3, <1>4, <1>5, <1>6, <1>7, <1>8, <1>9, <1>10, <1>11 DEF LocalStep

LEMMA BatchStep ==
    ASSUME TypeOK, BatchOK, [Next]_vars
    PROVE  BatchOK'
<1> USE DEF BatchOK, TypeOK
<1>1. CASE UNCHANGED <<pc, batch>>
  BY <1>1
<1>2. ASSUME NEW t \in Threads, Begins(t)
      PROVE  BatchOK'
  BY <1>2 DEF Begins, GetEntry, Scan, ClearEntries, Begin
<1>3. ASSUME NEW t \in Threads, LocalStep(t)
      PROVE  BatchOK'
  BY <1>3 DEF LocalStep, CheckLoaded, ClaimLoad, CreateEntry, RejectEntry, FinishLoad,
     FindEntry, LockForScan, VisitEntry, FinishScan, WipeEntries, ResetLoaded, Reset,
     Goto, Return, Continue, LoadThrows
<1>4. ASSUME NEW t \in Threads, Fetch(t)
      PROVE  BatchOK'
  BY <1>4 DEF Fetch, Goto, Return, LoadThrows
<1>5. ASSUME NEW l \in Listings, NEW n \in Names, ServerChange(l, n)
      PROVE  UNCHANGED <<pc, batch>>
  BY <1>5 DEF ServerChange, threadVars
<1> QED
  BY <1>1, <1>2, <1>3, <1>4, <1>5 DEF Next, vars, threadVars

LEMMA LoadInvStep ==
    ASSUME LoadInv, [Next]_vars
    PROVE  LoadInv'
<1>1. TypeOK'
  BY TypeStep DEF LoadInv
<1>2. ServerOK'
  <2>1. ASSUME NEW l \in Listings, NEW n \in Names, ServerChange(l, n)
        PROVE  ServerOK'
    BY <2>1 DEF LoadInv, ServerOK, TypeOK, ServerChange
  <2>2. CASE UNCHANGED remote
    BY <2>2 DEF LoadInv, ServerOK
  <2>3. ASSUME NEW t \in Threads, Begins(t)
        PROVE  UNCHANGED remote
    BY <2>3 DEF Begins, GetEntry, Scan, ClearEntries, Begin, serverVars
  <2>4. ASSUME NEW t \in Threads, LocalStep(t)
        PROVE  UNCHANGED remote
    BY <2>4 DEF LocalStep, CheckLoaded, ClaimLoad, CreateEntry, RejectEntry, FinishLoad,
       FindEntry, LockForScan, VisitEntry, FinishScan, WipeEntries, ResetLoaded, serverVars
  <2>5. ASSUME NEW t \in Threads, Fetch(t)
        PROVE  UNCHANGED remote
    BY <2>5 DEF Fetch
  <2> QED
    BY <2>1, <2>2, <2>3, <2>4, <2>5 DEF Next, vars, serverVars
<1>3. BatchOK'
  BY BatchStep DEF LoadInv
<1>4. LoadsOK'
  <2>1. ASSUME NEW l \in Listings, NEW n \in Names, ServerChange(l, n)
        PROVE  LoadsOK'
    BY <2>1 DEF LoadInv, LoadsOK, InFlight, Clearing, ServerChange, setVars, threadVars
  <2>2. CASE UNCHANGED vars
    BY <2>2 DEF LoadInv, LoadsOK, InFlight, Clearing, vars, setVars, threadVars
  <2> QED
    BY <2>1, <2>2, BeginLoads, FetchLoads, LocalLoads DEF Next
<1> QED
  BY <1>1, <1>2, <1>3, <1>4 DEF LoadInv

\* Once a load that was not cut short is over and no clear is half done, every
\* schema (table) the server kept listing has its entry, for any interleaving of
\* any number of lookups, scans, loads and clears.
THEOREM LoadedComplete == Spec => []LoadedIsComplete
<1>1. Init => LoadInv
  <2> SUFFICES ASSUME Init PROVE LoadInv
    OBVIOUS
  <2> QED
    BY InitType DEF Init, LoadInv, ServerOK, BatchOK, LoadsOK
<1>2. LoadInv /\ [Next]_vars => LoadInv'
  BY LoadInvStep
<1>3. LoadInv => LoadedIsComplete
  BY DEF LoadInv, LoadsOK, InFlight, LoadedIsComplete, Loading
<1> QED
  BY <1>1, <1>2, <1>3, PTL DEF Spec
=============================================================================
