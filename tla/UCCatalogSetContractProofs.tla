--------------------- MODULE UCCatalogSetContractProofs ---------------------
(***************************************************************************)
(* While nobody clears the cache (Clearers = {}, the program as it is      *)
(* built at this commit) pointers stay valid, scans are consistent, misses *)
(* have causes and the sets implement CatalogContract: for any numbers of  *)
(* threads, sets, names and calls, any server and any replies.             *)
(***************************************************************************)
EXTENDS UCCatalogSetContract, UCCatalogSetProofs

NoClears == Clearers = {}

Moves(t) == Begins(t) \/ LocalStep(t) \/ Fetch(t)

\* What a thread's control point says about its call, its pointers and its scan.
PhaseOK ==
    \A t \in Threads :
        /\ pc[t] \notin {"clear", "reset"} /\ call[t].op \in {"GetEntry", "Scan"}
        /\ call[t].op = "GetEntry" => call[t].name \in Names
        /\ pc[t] = "find" => call[t].op = "GetEntry"
        /\ pc[t] \in {"lock", "visit"} => call[t].op = "Scan"
        /\ pc[t] \notin {"idle", "visit"} => held[t] = NoEntries
        /\ pc[t] = "visit" => todo[t] \subseteq Names

\* entry_lock is kept across steps by the scanning thread and nobody else.
LockOK ==
    \A s \in Sets, t \in Threads :
        entryLock[s] = t <=> pc[t] = "visit" /\ call[t].set = s

ShareInv ==
    TypeOK /\ BatchOK /\ PhaseOK /\ LockOK /\ PointersStayValid /\ ScanSeesOneState
-----------------------------------------------------------------------------
\* A thread's step leaves the other threads where they are.
LEMMA OthersStay ==
    ASSUME TypeOK, NEW t \in Threads, Moves(t), NEW u \in Threads, u # t
    PROVE  /\ pc'[u] = pc[u] /\ call'[u] = call[u]
           /\ todo'[u] = todo[u] /\ held'[u] = held[u]
<1>1. CASE Begins(t)
  BY <1>1 DEF TypeOK, Begins, GetEntry, Scan, ClearEntries, Begin
<1>2. CASE LocalStep(t)
  BY <1>2 DEF TypeOK, LocalStep, CheckLoaded, ClaimLoad, CreateEntry, RejectEntry, FinishLoad,
     FindEntry, LockForScan, VisitEntry, FinishScan, WipeEntries, ResetLoaded,
     Goto, Return, Continue, LoadThrows
<1>3. CASE Fetch(t)
  BY <1>3 DEF TypeOK, Fetch, Goto, Return, LoadThrows
<1> QED
  BY <1>1, <1>2, <1>3 DEF Moves

\* The two ways in that are left.
LEMMA BeginsOpen ==
    ASSUME NoClears, NEW t \in Threads, Begins(t)
    PROVE  \/ \E s \in Sets, n \in Names : Begin(t, "GetEntry", s, n, "check")
           \/ \E s \in Sets : Begin(t, "Scan", s, NoName, "check")
BY DEF NoClears, Begins, GetEntry, Scan, ClearEntries

LEMMA PhaseMove ==
    ASSUME NoClears, TypeOK, PhaseOK, NEW t \in Threads, Moves(t)
    PROVE  PhaseOK'
<1> DEFINE OK(u) ==
        /\ pc[u] \notin {"clear", "reset"} /\ call[u].op \in {"GetEntry", "Scan"}
        /\ call[u].op = "GetEntry" => call[u].name \in Names
        /\ pc[u] = "find" => call[u].op = "GetEntry"
        /\ pc[u] \in {"lock", "visit"} => call[u].op = "Scan"
        /\ pc[u] \notin {"idle", "visit"} => held[u] = NoEntries
        /\ pc[u] = "visit" => todo[u] \subseteq Names
<1>1. \A u \in Threads : OK(u)
  BY DEF PhaseOK
<1>2. ASSUME NEW u \in Threads, u # t
      PROVE  OK(u)'
  <2>1. NoEntries' = NoEntries
    BY DEF NoEntries
  <2> QED
    BY <1>1, <1>2, <2>1, OthersStay
<1>3. OK(t)'
  <2> USE DEF TypeOK
  <2>1. CASE Begins(t)
    BY <2>1, BeginsOpen DEF Begin, NoEntries
  <2>2. CASE Fetch(t)
    BY <2>2, <1>1 DEF Fetch, LoadThrows, Return, Goto, NoEntries
  <2>3. CASE CheckLoaded(t) \/ ClaimLoad(t) \/ FinishLoad(t)
    BY <2>3, <1>1 DEF CheckLoaded, ClaimLoad, FinishLoad, Continue, Goto, Calls, NoEntries
  <2>4. CASE CreateEntry(t)
    BY <2>4, <1>1 DEF CreateEntry, NoEntries
  <2>5. CASE RejectEntry(t)
    BY <2>5, <1>1 DEF RejectEntry, LoadThrows, Return, Goto
  <2>6. CASE FindEntry(t)
    BY <2>6, <1>1 DEF FindEntry, Return, Goto
  <2>7. CASE LockForScan(t)
    BY <2>7, <1>1 DEF LockForScan, Goto, Present
  <2>8. CASE VisitEntry(t)
    BY <2>8, <1>1 DEF VisitEntry
  <2>9. CASE FinishScan(t)
    BY <2>9, <1>1 DEF FinishScan, Return, Goto
  <2>10. CASE WipeEntries(t) \/ ResetLoaded(t)
    BY <2>10, <1>1 DEF WipeEntries, ResetLoaded
  <2> QED
    BY <2>1, <2>2, <2>3, <2>4, <2>5, <2>6, <2>7, <2>8, <2>9, <2>10 DEF Moves, LocalStep
<1> QED
  BY <1>2, <1>3 DEF PhaseOK

LEMMA LockMove ==
    ASSUME NoClears, TypeOK, PhaseOK, LockOK, NEW t \in Threads, Moves(t)
    PROVE  LockOK'
<1> USE DEF TypeOK, LockOK
<1>1. CASE pc[t] # "visit" /\ pc'[t] # "visit" /\ UNCHANGED entryLock
  BY <1>1, OthersStay, ThreadsAssumption
<1>2. CASE Begins(t)
  BY <1>2, <1>1, BeginsOpen DEF Begin, setVars
<1>3. CASE Fetch(t)
  BY <1>3, <1>1 DEF Fetch, LoadThrows, Return, Goto
<1>4. CASE CheckLoaded(t) \/ ClaimLoad(t) \/ FinishLoad(t)
  BY <1>4, <1>1 DEF CheckLoaded, ClaimLoad, FinishLoad, Continue, Goto, setVars
<1>5. CASE CreateEntry(t) \/ RejectEntry(t)
  BY <1>5, <1>1 DEF CreateEntry, RejectEntry, LoadThrows, Return, Goto
<1>6. CASE FindEntry(t)
  BY <1>6, <1>1 DEF FindEntry, Return, Goto, setVars
<1>7. CASE LockForScan(t)
  <2>1. call[t].set \in Sets
    BY DEF Calls
  <2> QED
    BY <1>7, <2>1, OthersStay, ThreadsAssumption
       DEF LockForScan, Acquire, LockFree, Goto, Moves, LocalStep
<1>8. CASE VisitEntry(t)
  BY <1>8, OthersStay DEF VisitEntry, setVars, Moves, LocalStep
<1>9. CASE FinishScan(t)
  <2>1. call[t].set \in Sets
    BY DEF Calls
  <2> QED
    BY <1>9, <2>1, OthersStay, ThreadsAssumption DEF FinishScan, Return, Goto
<1>10. CASE WipeEntries(t) \/ ResetLoaded(t)
  BY <1>10 DEF PhaseOK, WipeEntries, ResetLoaded
<1> QED
  BY <1>2, <1>3, <1>4, <1>5, <1>6, <1>7, <1>8, <1>9, <1>10 DEF Moves, LocalStep

\* Loads only add: an entry that is in a map stays there, whoever moves.
LEMMA EntriesStay ==
    ASSUME NoClears, TypeOK, PhaseOK, NEW t \in Threads, Moves(t),
           NEW s \in Sets, NEW n \in Names, entries[s][n] # 0
    PROVE  entries'[s][n] = entries[s][n]
<1>1. CASE CreateEntry(t)
  <2>1. PICK m \in todo[t] \cap Names :
          entries' = [entries EXCEPT ![call[t].set][m] = Inserted(@, batch[t])]
    BY <1>1 DEF CreateEntry
  <2>2. call[t].set \in Sets
    BY DEF TypeOK, Calls
  <2> QED
    BY <2>1, <2>2 DEF TypeOK, Inserted
<1>2. CASE UNCHANGED entries
  BY <1>2
<1>3. Begins(t) \/ Fetch(t) => UNCHANGED entries
  BY DEF Begins, GetEntry, Scan, ClearEntries, Begin, Fetch, setVars
<1>4. LocalStep(t) => CreateEntry(t) \/ UNCHANGED entries
  BY DEF PhaseOK, LocalStep, CheckLoaded, ClaimLoad, RejectEntry, FinishLoad, FindEntry,
     LockForScan, VisitEntry, FinishScan, WipeEntries, ResetLoaded, setVars
<1> QED
  BY <1>1, <1>2, <1>3, <1>4 DEF Moves

\* While a thread scans a set the map of that set does not change at all.
LEMMA ScannedStays ==
    ASSUME NoClears, TypeOK, PhaseOK, LockOK, NEW t \in Threads, Moves(t),
           NEW u \in Threads, pc[u] = "visit", NEW n \in Names
    PROVE  entries'[call[u].set][n] = entries[call[u].set][n]
<1>1. call[t].set \in Sets /\ call[u].set \in Sets
  BY DEF TypeOK, Calls
<1>2. CASE CreateEntry(t)
  <2>1. PICK m \in todo[t] \cap Names :
          /\ LockFree(call[t].set)
          /\ entries' = [entries EXCEPT ![call[t].set][m] = Inserted(@, batch[t])]
    BY <1>2 DEF CreateEntry
  <2>2. call[t].set # call[u].set
    BY <1>1, <2>1, ThreadsAssumption DEF LockOK, LockFree
  <2> QED
    BY <1>1, <2>1, <2>2 DEF TypeOK
<1>3. CASE UNCHANGED entries
  BY <1>3
<1>4. Begins(t) \/ Fetch(t) => UNCHANGED entries
  BY DEF Begins, GetEntry, Scan, ClearEntries, Begin, Fetch, setVars
<1>5. LocalStep(t) => CreateEntry(t) \/ UNCHANGED entries
  BY DEF PhaseOK, LocalStep, CheckLoaded, ClaimLoad, RejectEntry, FinishLoad, FindEntry,
     LockForScan, VisitEntry, FinishScan, WipeEntries, ResetLoaded, setVars
<1> QED
  BY <1>2, <1>3, <1>4, <1>5 DEF Moves

LEMMA PointersMove ==
    ASSUME NoClears, TypeOK, PhaseOK, PointersStayValid, NEW t \in Threads, Moves(t)
    PROVE  PointersStayValid'
<1> DEFINE Valid(u) == \A n \in Names :
                         held[u][n] # 0 => entries[call[u].set][n] = held[u][n]
<1>0. \A u \in Threads : call[u].set \in Sets
  BY DEF TypeOK, Calls
<1>1. ASSUME NEW u \in Threads, held'[u] = held[u], call'[u] = call[u]
      PROVE  Valid(u)'
  BY <1>0, <1>1, EntriesStay DEF PointersStayValid
<1>2. Valid(t)'
  <2>1. CASE held'[t] = held[t] /\ call'[t] = call[t]
    BY <2>1, <1>1
  <2>2. CASE Begins(t)
    BY <2>2, BeginsOpen DEF Begin, NoEntries, TypeOK
  <2>3. CASE FindEntry(t)
    <3> DEFINE name == call[t].name
    <3>1. name \in Names
      BY <2>3 DEF PhaseOK, FindEntry
    <3>2. held[t] = NoEntries
      BY <2>3 DEF PhaseOK, FindEntry
    <3>3. held' = [held EXCEPT ![t][name] = entries[call[t].set][name]]
      BY <2>3 DEF FindEntry
    <3>4. UNCHANGED <<entries, call>>
      BY <2>3 DEF FindEntry, setVars
    <3> QED
      BY <3>1, <3>2, <3>3, <3>4 DEF NoEntries, TypeOK
  <2>4. CASE VisitEntry(t)
    <3>1. PICK m \in todo[t] : held' = [held EXCEPT ![t][m] = entries[call[t].set][m]]
      BY <2>4 DEF VisitEntry
    <3>2. m \in Names /\ UNCHANGED <<entries, call>>
      BY <2>4 DEF PhaseOK, VisitEntry, setVars
    <3> QED
      BY <3>1, <3>2 DEF PointersStayValid, TypeOK
  <2>5. Fetch(t) => UNCHANGED <<held, call>>
    BY DEF Fetch
  <2>6. LocalStep(t) => FindEntry(t) \/ VisitEntry(t) \/ UNCHANGED <<held, call>>
    BY DEF LocalStep, CheckLoaded, ClaimLoad, CreateEntry, RejectEntry, FinishLoad,
       LockForScan, FinishScan, WipeEntries, ResetLoaded
  <2> QED
    BY <2>1, <2>2, <2>3, <2>4, <2>5, <2>6 DEF Moves
<1>3. ASSUME NEW u \in Threads, u # t
      PROVE  Valid(u)'
  BY <1>1, <1>3, OthersStay
<1> QED
  BY <1>2, <1>3 DEF PointersStayValid

LEMMA ScanMove ==
    ASSUME NoClears, TypeOK, PhaseOK, LockOK, ScanSeesOneState, NEW t \in Threads, Moves(t)
    PROVE  ScanSeesOneState'
<1> SUFFICES ASSUME NEW u \in Threads, pc'[u] = "visit", NEW n \in Names
             PROVE  IF n \in todo'[u] THEN entries'[call'[u].set][n] # 0
                    ELSE held'[u][n] = entries'[call'[u].set][n]
  BY DEF ScanSeesOneState, Present
<1>0. call[u].set \in Sets
  BY DEF TypeOK, Calls
<1>1. pc[u] = "visit" => IF n \in todo[u] THEN entries[call[u].set][n] # 0
                         ELSE held[u][n] = entries[call[u].set][n]
  BY DEF ScanSeesOneState, Present
<1>2. CASE u # t
  <2>1. pc[u] = "visit" /\ call'[u] = call[u] /\ todo'[u] = todo[u] /\ held'[u] = held[u]
    BY <1>2, OthersStay
  <2> QED
    BY <1>1, <2>1, ScannedStays
<1>3. CASE u = t
  <2>1. LockForScan(t) \/ VisitEntry(t)
    BY <1>3 DEF TypeOK, Moves, Begins, GetEntry, Scan, ClearEntries, Begin, Fetch, LocalStep,
       CheckLoaded, ClaimLoad, CreateEntry, RejectEntry, FinishLoad, FindEntry, FinishScan,
       WipeEntries, ResetLoaded, LoadThrows, Continue, Return, Goto
  <2>2. CASE LockForScan(t)
    <3>1. held[t] = NoEntries /\ UNCHANGED <<entries, call, held>>
      BY <2>2 DEF LockForScan, PhaseOK
    <3>2. todo'[t] = Present(call[t].set)
      BY <2>2 DEF LockForScan, TypeOK
    <3> QED
      BY <1>3, <3>1, <3>2 DEF Present, NoEntries
  <2>3. CASE VisitEntry(t)
    <3>1. PICK m \in todo[t] :
            /\ held' = [held EXCEPT ![t][m] = entries[call[t].set][m]]
            /\ todo' = [todo EXCEPT ![t] = @ \ {m}]
      BY <2>3 DEF VisitEntry
    <3>2. m \in Names /\ UNCHANGED <<entries, call>> /\ pc[t] = "visit"
      BY <2>3 DEF PhaseOK, VisitEntry, setVars
    <3> QED
      BY <1>1, <1>3, <3>1, <3>2 DEF TypeOK
  <2> QED
    BY <2>1, <2>2, <2>3
<1> QED
  BY <1>2, <1>3

LEMMA ShareInit == Init => ShareInv
<1> SUFFICES ASSUME Init PROVE ShareInv
  OBVIOUS
<1> QED
  BY InitType, ThreadsAssumption DEF Init, ShareInv, BatchOK, PhaseOK, LockOK,
     PointersStayValid, ScanSeesOneState, NoEntries

LEMMA ShareStep ==
    ASSUME NoClears, ShareInv, [Next]_vars
    PROVE  ShareInv'
<1> USE DEF ShareInv
<1>1. TypeOK' /\ BatchOK'
  BY TypeStep, BatchStep
<1>2. CASE UNCHANGED <<isLoaded, entries, entryLock, pc, call, todo, held>>
  <2>1. NoEntries' = NoEntries
    BY DEF NoEntries
  <2> QED
    BY <1>1, <1>2, <2>1 DEF PhaseOK, LockOK, PointersStayValid, ScanSeesOneState, Present
<1>3. ASSUME NEW t \in Threads, Moves(t)
      PROVE  ShareInv'
  BY <1>1, <1>3, PhaseMove, LockMove, PointersMove, ScanMove
<1>4. (\E l \in Listings, n \in Names : ServerChange(l, n)) \/ UNCHANGED vars
        => UNCHANGED <<isLoaded, entries, entryLock, pc, call, todo, held>>
  BY DEF ServerChange, vars, setVars, threadVars
<1> QED
  BY <1>2, <1>3, <1>4 DEF Next, Moves

LEMMA Sharing == ASSUME NoClears PROVE Spec => []ShareInv
<1>1. Init => ShareInv
  BY ShareInit
<1>2. ShareInv /\ [Next]_vars => ShareInv'
  BY ShareStep
<1> QED
  BY <1>1, <1>2, PTL DEF Spec

\* Whatever the other threads load, a pointer GetEntry or Scan has given to a
\* thread is a pointer to the entry that is in the map.
THEOREM PointersValid == ASSUME NoClears PROVE Spec => []PointersStayValid
<1>1. ShareInv => PointersStayValid
  BY DEF ShareInv
<1> QED
  BY <1>1, Sharing, PTL

\* Every scan shows its callback the state the set had when it took the lock.
THEOREM ScansConsistent == ASSUME NoClears PROVE Spec => []ScanSeesOneState
<1>1. ShareInv => ScanSeesOneState
  BY DEF ShareInv
<1> QED
  BY <1>1, Sharing, PTL
-----------------------------------------------------------------------------
(* The refinement.  Busy and Given are what Contract's instance puts for   *)
(* its variables busy and found.                                           *)

Busy == [t \in Threads |-> pc[t] # "idle"]
Given == [t \in Threads |-> IF pc[t] = "idle" THEN held[t] ELSE NoEntries]

\* A step inside a call that does not touch the map is invisible.
LEMMA InsideIsStutter ==
    ASSUME TypeOK, NEW t \in Threads, Moves(t), pc[t] # "idle", pc'[t] # "idle",
           UNCHANGED <<entries, call, answer>>
    PROVE  UNCHANGED Contract!vars
<1>1. \A u \in Threads : (pc[u] = "idle") = (pc'[u] = "idle")
  BY OthersStay
<1>2. Busy' = Busy
  BY <1>1 DEF Busy
<1>3. \A u \in Threads : pc[u] = "idle" => held'[u] = held[u]
  BY OthersStay
<1>4. Given' = Given
  BY <1>1, <1>3 DEF Given, NoEntries
<1> QED
  BY <1>2, <1>4 DEF Contract!vars, Busy, Given

\* A step that ends a call is an answer to it.
LEMMA ReturnIsAnswer ==
    ASSUME TypeOK, NEW t \in Threads, Moves(t), pc[t] # "idle",
           NEW outcome, Return(t, outcome), UNCHANGED <<entries, call>>
    PROVE  Contract!Answer(t, outcome, held'[t])
<1>1. \A u \in Threads \ {t} : pc'[u] = pc[u] /\ held'[u] = held[u]
  BY OthersStay
<1>2. pc'[t] = "idle"
  BY DEF Return, Goto, TypeOK
<1>3. Busy' = [Busy EXCEPT ![t] = FALSE]
  BY <1>1, <1>2 DEF Busy
<1>4. Given' = [Given EXCEPT ![t] = held'[t]]
  BY <1>1, <1>2 DEF Given, NoEntries
<1> QED
  BY <1>3, <1>4 DEF Contract!Answer, Busy, Given, Return

LEMMA BeginIsAsk ==
    ASSUME NoClears, TypeOK, NEW t \in Threads, Begins(t)
    PROVE  Contract!Next
<1>1. ASSUME NEW op, NEW s, NEW n, Begin(t, op, s, n, "check")
      PROVE  Contract!Ask(t, op, s, n)
  <2>1. pc[t] = "idle" /\ pc' = [pc EXCEPT ![t] = "check"]
    BY <1>1 DEF Begin
  <2>2. Busy' = [Busy EXCEPT ![t] = TRUE]
    BY <2>1 DEF Busy, TypeOK
  <2>3. Given' = [Given EXCEPT ![t] = NoEntries]
    BY <1>1, <2>1 DEF Given, Begin, NoEntries, TypeOK
  <2> QED
    BY <1>1, <2>1, <2>2, <2>3
       DEF Contract!Ask, Contract!Nothing, Busy, Given, NoEntries, Begin, setVars
<1> QED
  BY <1>1, BeginsOpen DEF Contract!Next

LEMMA LocalStepImplements ==
    ASSUME NoClears, ShareInv, NEW t \in Threads, LocalStep(t)
    PROVE  Contract!Next \/ UNCHANGED Contract!vars
<1> USE DEF ShareInv
<1>0. Moves(t) /\ call[t].set \in Sets
  BY DEF Moves, TypeOK, Calls
<1>1. CASE CheckLoaded(t) \/ ClaimLoad(t) \/ FinishLoad(t)
  <2>1. pc[t] # "idle" /\ pc'[t] # "idle" /\ UNCHANGED <<entries, call, answer>>
    BY <1>1 DEF CheckLoaded, ClaimLoad, FinishLoad, Continue, Goto, TypeOK, setVars
  <2> QED
    BY <1>0, <2>1, InsideIsStutter
<1>2. CASE LockForScan(t) \/ VisitEntry(t)
  <2>1. pc[t] # "idle" /\ pc'[t] # "idle" /\ UNCHANGED <<entries, call, answer>>
    BY <1>2 DEF LockForScan, VisitEntry, Goto, TypeOK, setVars
  <2> QED
    BY <1>0, <2>1, InsideIsStutter
<1>3. CASE CreateEntry(t)
  <2> DEFINE s == call[t].set
  <2>1. PICK n \in todo[t] \cap Names :
          entries' = [entries EXCEPT ![s][n] = Inserted(@, batch[t])]
    BY <1>3 DEF CreateEntry
  <2>2. UNCHANGED <<pc, call, answer, held>> /\ batch[t] # 0 /\ pc[t] = "insert"
    BY <1>3 DEF CreateEntry, BatchOK
  <2>3. CASE entries[s][n] # 0
    <3>1. UNCHANGED entries
      BY <1>0, <2>1, <2>3 DEF Inserted, TypeOK
    <3> QED
      BY <1>0, <2>2, <3>1, InsideIsStutter
  <2>4. CASE entries[s][n] = 0
    <3>1. entries'[s][n] = batch[t]
      BY <1>0, <2>1, <2>4 DEF Inserted, TypeOK
    <3>2. entries' = [entries EXCEPT ![s][n] = entries'[s][n]]
      BY <1>0, <2>1, <3>1 DEF TypeOK
    <3>3. Contract!AddEntry(s, n)
      BY <2>2, <2>4, <3>1, <3>2 DEF Contract!AddEntry, NoEntries
    <3> QED
      BY <1>0, <3>3 DEF Contract!Next
  <2> QED
    BY <2>3, <2>4
<1>4. CASE RejectEntry(t)
  <2>1. pc[t] = "insert" /\ Return(t, "error") /\ UNCHANGED <<entries, call, held>>
    BY <1>4 DEF RejectEntry, LoadThrows
  <2>2. held'[t] = NoEntries
    BY <2>1 DEF PhaseOK
  <2>3. Contract!Answer(t, "error", held'[t])
    BY <1>0, <2>1, ReturnIsAnswer
  <2>4. Contract!Fail(t)
    BY <2>2, <2>3 DEF Contract!Fail, Contract!Answer, Contract!Nothing, NoEntries
  <2> QED
    BY <2>4 DEF Contract!Next
<1>5. CASE FindEntry(t)
  <2> DEFINE s == call[t].set
             n == call[t].name
  <2>1. /\ pc[t] = "find" /\ Return(t, Found(s, n)) /\ UNCHANGED <<entries, call>>
        /\ held' = [held EXCEPT ![t][n] = entries[s][n]]
    BY <1>5 DEF FindEntry, setVars
  <2>2. held[t] = NoEntries /\ n \in Names /\ call[t].op = "GetEntry"
    BY <2>1 DEF PhaseOK
  <2>3. held'[t] = [NoEntries EXCEPT ![n] = entries[s][n]]
    BY <2>1, <2>2 DEF TypeOK
  <2>4. Contract!Answer(t, Found(s, n), held'[t])
    BY <1>0, <2>1, ReturnIsAnswer
  <2>5. Contract!AnswerGetEntry(t)
    BY <2>2, <2>3, <2>4
       DEF Contract!AnswerGetEntry, Contract!Answer, Contract!Nothing, NoEntries, Found
  <2> QED
    BY <2>5 DEF Contract!Next
<1>6. CASE FinishScan(t)
  <2> DEFINE s == call[t].set
  <2>1. /\ pc[t] = "visit" /\ todo[t] = {} /\ Return(t, "scanned")
        /\ UNCHANGED <<entries, call, held>>
    BY <1>6 DEF FinishScan
  <2>2. call[t].op = "Scan" /\ \A n \in Names : held[t][n] = entries[s][n]
    BY <2>1 DEF PhaseOK, ScanSeesOneState
  <2>3. held'[t] = entries[s]
    BY <1>0, <2>1, <2>2 DEF TypeOK
  <2>4. Contract!Answer(t, "scanned", held'[t])
    BY <1>0, <2>1, ReturnIsAnswer
  <2>5. Contract!AnswerScan(t)
    BY <2>2, <2>3, <2>4 DEF Contract!AnswerScan, Contract!Answer
  <2> QED
    BY <2>5 DEF Contract!Next
<1>7. CASE WipeEntries(t) \/ ResetLoaded(t)
  BY <1>7 DEF PhaseOK, WipeEntries, ResetLoaded
<1> QED
  BY <1>1, <1>2, <1>3, <1>4, <1>5, <1>6, <1>7 DEF LocalStep

LEMMA FetchImplements ==
    ASSUME NoClears, ShareInv, NEW t \in Threads, Fetch(t)
    PROVE  Contract!Next \/ UNCHANGED Contract!vars
<1>1. TypeOK /\ Moves(t) /\ pc[t] = "fetch" /\ UNCHANGED <<entries, call, held>>
  BY DEF ShareInv, Moves, Fetch
<1>2. CASE Return(t, "error")
  <2>1. held'[t] = NoEntries
    BY <1>1 DEF ShareInv, PhaseOK
  <2>2. Contract!Answer(t, "error", held'[t])
    BY <1>1, <1>2, ReturnIsAnswer
  <2>3. Contract!Fail(t)
    BY <2>1, <2>2 DEF Contract!Fail, Contract!Answer, Contract!Nothing, NoEntries
  <2> QED
    BY <2>3 DEF Contract!Next
<1>3. CASE Goto(t, "insert") /\ UNCHANGED answer
  BY <1>1, <1>3, InsideIsStutter DEF Goto, TypeOK
<1> QED
  BY <1>2, <1>3 DEF Fetch, LoadThrows

\* The sets keep the contract: for any interleaving of lookups, scans and loads,
\* cut short or not, each call is answered as by one look at a map to which
\* entries are only added.
THEOREM ContractImplemented == ASSUME NoClears PROVE Spec => ImplementsContract
<1>1. Init => Contract!Init
  BY DEF Init, Contract!Init, Contract!Nothing, NoEntries
<1>2. ShareInv /\ [Next]_vars => [Contract!Next]_(Contract!vars)
  <2> SUFFICES ASSUME ShareInv, [Next]_vars
               PROVE  Contract!Next \/ UNCHANGED Contract!vars
    OBVIOUS
  <2>1. ASSUME NEW t \in Threads, Begins(t)
        PROVE  Contract!Next
    BY <2>1, BeginIsAsk DEF ShareInv
  <2>2. CASE UNCHANGED <<entries, call, pc, answer, held>>
    BY <2>2 DEF Contract!vars, NoEntries
  <2>3. (\E l \in Listings, n \in Names : ServerChange(l, n)) \/ UNCHANGED vars
          => UNCHANGED <<entries, call, pc, answer, held>>
    BY DEF ServerChange, vars, setVars, threadVars
  <2> QED
    BY <2>1, <2>2, <2>3, LocalStepImplements, FetchImplements DEF Next
<1> QED
  BY <1>1, <1>2, Sharing, PTL DEF Spec, ImplementsContract, Contract!Spec
-----------------------------------------------------------------------------
(* Why a lookup misses.                                                    *)

\* A call is past the check only in a set that is marked loaded.
FlagOK ==
    \A t \in Threads : pc[t] \in {"fetch", "insert", "find", "lock"} => isLoaded[call[t].set]

CauseInv == ShareInv /\ LoadInv /\ FlagOK

LEMMA FlagStep ==
    ASSUME NoClears, ShareInv, FlagOK, [Next]_vars
    PROVE  FlagOK'
<1> USE DEF FlagOK
<1>1. TypeOK /\ PhaseOK /\ \A t \in Threads : call[t].set \in Sets
  BY DEF ShareInv, TypeOK, Calls
<1>2. ASSUME NEW t \in Threads, Moves(t)
      PROVE  FlagOK'
  <2>1. \A s \in Sets : isLoaded[s] => isLoaded'[s]
    BY <1>1, <1>2 DEF TypeOK, PhaseOK, Moves, Begins, GetEntry, Scan, ClearEntries, Begin, Fetch,
       LocalStep, CheckLoaded, ClaimLoad, CreateEntry, RejectEntry, FinishLoad, FindEntry,
       LockForScan, VisitEntry, FinishScan, WipeEntries, ResetLoaded, setVars
  <2>2. \A u \in Threads \ {t} : pc'[u] = pc[u] /\ call'[u] = call[u]
    BY <1>1, <1>2, OthersStay
  <2>3. pc'[t] \in {"fetch", "insert", "find", "lock"}
          => call'[t] = call[t] /\ isLoaded'[call[t].set]
    <3>1. CASE Begins(t)
      BY <1>1, <3>1, BeginsOpen DEF Begin, TypeOK
    <3>2. CASE Fetch(t)
      BY <1>1, <3>2 DEF Fetch, TypeOK
    <3>3. CASE CheckLoaded(t)
      BY <1>1, <3>3 DEF CheckLoaded, MustLoad, Continue, Goto, TypeOK, setVars
    <3>4. CASE ClaimLoad(t)
      BY <1>1, <3>4 DEF ClaimLoad, TypeOK
    <3>5. CASE CreateEntry(t) \/ FinishLoad(t)
      BY <1>1, <3>5 DEF CreateEntry, FinishLoad, TypeOK, setVars
    <3>6. CASE RejectEntry(t) \/ FindEntry(t) \/ LockForScan(t) \/ VisitEntry(t) \/ FinishScan(t)
      BY <1>1, <3>6 DEF RejectEntry, LoadThrows, FindEntry, LockForScan, VisitEntry, FinishScan,
         Return, Goto, TypeOK
    <3>7. CASE WipeEntries(t) \/ ResetLoaded(t)
      BY <1>1, <3>7 DEF PhaseOK, WipeEntries, ResetLoaded
    <3> QED
      BY <1>2, <3>1, <3>2, <3>3, <3>4, <3>5, <3>6, <3>7 DEF Moves, LocalStep
  <2> QED
    BY <1>1, <2>1, <2>2, <2>3
<1>3. CASE UNCHANGED <<isLoaded, pc, call>>
  BY <1>3
<1>4. (\E l \in Listings, n \in Names : ServerChange(l, n)) \/ UNCHANGED vars
        => UNCHANGED <<isLoaded, pc, call>>
  BY DEF ServerChange, vars, setVars, threadVars
<1> QED
  BY <1>2, <1>3, <1>4 DEF Next, Moves

\* What LoadInv says to a thread that found no entry.
LEMMA MissingIsExplained ==
    ASSUME CauseInv, NEW t \in Threads, pc[t] \in {"find", "lock"},
           NEW n \in Stable[Requested(call[t].set)], entries[call[t].set][n] = 0
    PROVE  \/ loadFailed[call[t].set]
           \/ \E u \in Threads \ {t} :
                 call[u].set = call[t].set /\ pc[u] \in {"fetch", "insert"}
<1>1. call[t].set \in Sets /\ isLoaded[call[t].set]
  BY DEF CauseInv, ShareInv, TypeOK, Calls, FlagOK
<1>2. ~Clearing(call[t].set)
  BY DEF CauseInv, ShareInv, PhaseOK, Clearing
<1>3. loadFailed[call[t].set] \/ InFlight(call[t].set, n)
  BY <1>1, <1>2, Zenon DEF CauseInv, LoadInv, LoadsOK
<1> QED
  BY <1>3 DEF InFlight

\* An existing entry is missed only when a load of the set was cut short, or
\* while another thread is loading it.
THEOREM MissesHaveCauses == ASSUME NoClears PROVE Spec => MissHasCause
<1> DEFINE s(t) == call[t].set
           Missing(t) == \/ FindEntry(t) /\ answer'[t] = "miss"
                            /\ call[t].name \in Stable[Requested(s(t))]
                         \/ LockForScan(t) /\ \E n \in Stable[Requested(s(t))] : n \notin todo'[t]
           Cause(t) == \/ loadFailed[s(t)]
                       \/ \E u \in Threads \ {t} :
                             call[u].set = s(t) /\ pc[u] \in {"fetch", "insert"}
<1>1. Init => CauseInv
  <2> SUFFICES ASSUME Init PROVE CauseInv
    OBVIOUS
  <2>1. LoadInv
    BY InitType DEF Init, LoadInv, ServerOK, BatchOK, LoadsOK
  <2>2. FlagOK
    BY DEF Init, FlagOK
  <2> QED
    BY <2>1, <2>2, ShareInit DEF CauseInv
<1>2. CauseInv /\ [Next]_vars => CauseInv'
  BY ShareStep, LoadInvStep, FlagStep DEF CauseInv
<1>3. ASSUME CauseInv, NEW t \in Threads, Missing(t)
      PROVE  Cause(t)
  <2>1. s(t) \in Sets
    BY <1>3 DEF CauseInv, ShareInv, TypeOK, Calls
  <2>2. CASE /\ FindEntry(t) /\ answer'[t] = "miss"
             /\ call[t].name \in Stable[Requested(s(t))]
    <3>1. pc[t] = "find" /\ Found(s(t), call[t].name) = "miss"
      BY <1>3, <2>2 DEF FindEntry, Return, CauseInv, ShareInv, TypeOK
    <3>2. entries[s(t)][call[t].name] = 0
      BY <3>1 DEF Found
    <3> QED
      BY <1>3, <2>2, <3>1, <3>2, MissingIsExplained
  <2>3. CASE LockForScan(t) /\ \E n \in Stable[Requested(s(t))] : n \notin todo'[t]
    <3>1. PICK n \in Stable[Requested(s(t))] : n \notin todo'[t]
      BY <2>3
    <3>2. pc[t] = "lock" /\ todo'[t] = Present(s(t))
      BY <1>3, <2>3 DEF LockForScan, CauseInv, ShareInv, TypeOK
    <3>3. entries[s(t)][n] = 0
      BY <2>1, <3>1, <3>2, StableListed DEF Present
    <3> QED
      BY <1>3, <3>1, <3>2, <3>3, MissingIsExplained
  <2> QED
    BY <1>3, <2>2, <2>3
<1>4. CauseInv => \A t \in Threads : Missing(t) => Cause(t)
  BY <1>3
<1>5. CauseInv /\ [Next]_vars => [\A t \in Threads : Missing(t) => Cause(t)]_vars
  BY <1>4
<1> QED
  BY <1>1, <1>2, <1>5, PTL DEF Spec, MissHasCause
=============================================================================
