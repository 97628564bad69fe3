------------------------ MODULE UCTransactionProofs ------------------------
(***************************************************************************)
(* Theorems about UCTransactionManager, for any number of connections,     *)
(* addresses and transactions.  The invariant says what each connection's  *)
(* control point means for the object and the map (PlaceOK), that no two   *)
(* connections hold objects at one address (ApartOK), that the connection  *)
(* in the middle of an erase has the lock (LockOK), and that every entry   *)
(* of the map belongs to a connection (MapOK).  For the contract, a number *)
(* is one connection's (NumbersOK) and so is every object (ObjectsOK).     *)
(***************************************************************************)
EXTENDS UCTransactionContract, TLAPS

Holding(t) == pc[t] \in {"insert", "open", "erase"}
InMap(t) == pc[t] \in {"open", "erase", "remove"}

PlaceOK ==
    \A t \in Threads :
        /\ Holding(t) => mine[t] > 0 /\ object[address[t]] = mine[t]
        /\ InMap(t) => mine[t] > 0 /\ transactions[address[t]] = mine[t]

ApartOK ==
    \A t, u \in Threads : t # u /\ address[t] = address[u] =>
        /\ ~(Holding(t) /\ Holding(u))
        /\ ~(InMap(t) /\ InMap(u))

LockOK == \A t \in Threads : pc[t] = "remove" <=> transactionLock = t

MapOK ==
    \A a \in Addresses : transactions[a] # 0 =>
        \E t \in Threads : InMap(t) /\ address[t] = a /\ mine[t] = transactions[a]

OwnedInv == TypeOK /\ PlaceOK /\ ApartOK /\ LockOK /\ MapOK

LEMMA OwnedInit == Init => OwnedInv
BY ThreadsAssumption
DEF Init, OwnedInv, TypeOK, States, Free, PlaceOK, ApartOK, LockOK, MapOK, Holding, InMap

LEMMA OwnedStep == OwnedInv /\ [Next]_vars => OwnedInv'
<1> SUFFICES ASSUME OwnedInv, [Next]_vars PROVE OwnedInv'
  OBVIOUS
<1> USE ThreadsAssumption DEF OwnedInv, TypeOK, Goto
<1>1. CASE UNCHANGED vars
  BY <1>1 DEF vars, threadVars, PlaceOK, ApartOK, LockOK, MapOK, Holding, InMap
<1>2. ASSUME NEW t \in Threads, NEW a \in Addresses, MakeTransaction(t, a) PROVE OwnedInv'
  <2>1. TypeOK'
    BY <1>2 DEF MakeTransaction, States
  <2>2. made' > 0 /\ object[a] = 0
    BY <1>2 DEF MakeTransaction
  <2>3. \A u \in Threads \ {t} : Holding(u) => address[u] # a
    BY <2>2 DEF PlaceOK
  <2>4. PlaceOK'
    BY <1>2, <2>2, <2>3 DEF MakeTransaction, PlaceOK, Holding, InMap
  <2>5. ApartOK'
    BY <1>2, <2>3 DEF MakeTransaction, ApartOK, Holding, InMap
  <2>6. LockOK'
    BY <1>2 DEF MakeTransaction, LockOK
  <2>7. MapOK'
    BY <1>2 DEF MakeTransaction, MapOK, InMap
  <2> QED
    BY <2>1, <2>4, <2>5, <2>6, <2>7
<1>3. ASSUME NEW t \in Threads, InsertTransaction(t) PROVE OwnedInv'
  <2>1. TypeOK'
    BY <1>3 DEF InsertTransaction
  <2>2. \A u \in Threads : pc[u] # "remove"
    BY <1>3 DEF InsertTransaction, LockFree, LockOK
  <2>3. \A u \in Threads \ {t} : InMap(u) => address[u] # address[t]
    BY <1>3, <2>2 DEF InsertTransaction, ApartOK, Holding, InMap
  <2>4. PlaceOK'
    BY <1>3, <2>3 DEF InsertTransaction, PlaceOK, Holding, InMap
  <2>5. ApartOK'
    BY <1>3, <2>3 DEF InsertTransaction, ApartOK, Holding, InMap
  <2>6. LockOK'
    BY <1>3 DEF InsertTransaction, LockOK
  <2>7. MapOK'
    BY <1>3, <2>3 DEF InsertTransaction, MapOK, InMap
  <2> QED
    BY <2>1, <2>4, <2>5, <2>6, <2>7
<1>4. ASSUME NEW t \in Threads, CommitTransaction(t) \/ RollbackTransaction(t) PROVE OwnedInv'
  <2>1. Finish(t, "erase")
    BY <1>4 DEF CommitTransaction, RollbackTransaction
  <2>2. TypeOK'
    BY <2>1 DEF Finish, States
  <2>3. PlaceOK' /\ ApartOK'
    BY <2>1 DEF Finish, PlaceOK, ApartOK, Holding, InMap
  <2>4. LockOK' /\ MapOK'
    BY <2>1 DEF Finish, LockOK, MapOK, InMap
  <2> QED
    BY <2>2, <2>3, <2>4
<1>5. ASSUME NEW t \in Threads, FreeTransaction(t) PROVE OwnedInv'
  <2>1. TypeOK'
    BY <1>5 DEF FreeTransaction
  <2>2. PlaceOK'
    BY <1>5 DEF FreeTransaction, PlaceOK, ApartOK, Holding, InMap
  <2>3. ApartOK'
    BY <1>5 DEF FreeTransaction, ApartOK, Holding, InMap
  <2>4. LockOK'
    BY <1>5 DEF FreeTransaction, LockFree, LockOK
  <2>5. MapOK'
    BY <1>5 DEF FreeTransaction, MapOK, InMap
  <2> QED
    BY <2>1, <2>2, <2>3, <2>4, <2>5
<1>6. ASSUME NEW t \in Threads, RemoveTransaction(t) PROVE OwnedInv'
  <2>1. TypeOK'
    BY <1>6 DEF RemoveTransaction, Unlock
  <2>2. PlaceOK'
    BY <1>6 DEF RemoveTransaction, PlaceOK, ApartOK, Holding, InMap
  <2>3. ApartOK'
    BY <1>6 DEF RemoveTransaction, ApartOK, Holding, InMap
  <2>4. LockOK'
    BY <1>6 DEF RemoveTransaction, Unlock, LockOK
  <2>5. MapOK'
    BY <1>6 DEF RemoveTransaction, MapOK, InMap
  <2> QED
    BY <2>1, <2>2, <2>3, <2>4, <2>5
<1> QED
  BY <1>1, <1>2, <1>3, <1>4, <1>5, <1>6 DEF Next, Inside

LEMMA OwnedAlways == Spec => []OwnedInv
BY OwnedInit, OwnedStep, PTL DEF Spec

\* A transaction a connection has been given is not freed, and is owned by the
\* map, until the connection ends it.
THEOREM OpenTransactionsLive == Spec => []OpenIsOwned
<1>1. OwnedInv => OpenIsOwned
  BY DEF OwnedInv, PlaceOK, OpenIsOwned, Started, Holding, InMap
<1> QED
  BY <1>1, OwnedAlways, PTL

\* The map holds nothing but the open transactions: none leaks.
THEOREM NoTransactionLeaks == Spec => []OnlyOpenIsOwned
<1>1. OwnedInv => OnlyOpenIsOwned
  BY DEF OwnedInv, MapOK, OnlyOpenIsOwned, InMap
<1> QED
  BY <1>1, OwnedAlways, PTL
-----------------------------------------------------------------------------
(* The contract.                                                           *)

\* Transactions are numbered as they are made.
NumbersOK ==
    /\ \A t \in Threads : mine[t] <= made
    /\ \A t, u \in Threads : t # u /\ mine[t] = mine[u] => mine[t] = 0

ObjectsOK ==
    \A a \in Addresses : object[a] # 0 =>
        \E t \in Threads : Holding(t) /\ address[t] = a /\ mine[t] = object[a]

ContractInv == OwnedInv /\ NumbersOK /\ ObjectsOK

LEMMA NumbersStep ==
    ASSUME OwnedInv, NumbersOK, [Next]_vars
    PROVE  NumbersOK'
<1>1. CASE UNCHANGED <<mine, made>>
  BY <1>1 DEF NumbersOK
<1>2. ASSUME NEW t \in Threads, NEW a \in Addresses, MakeTransaction(t, a) PROVE NumbersOK'
  <2>1. made \in Nat /\ mine \in [Threads -> Nat]
    BY DEF OwnedInv, TypeOK
  <2>2. made' = made + 1 /\ mine' = [mine EXCEPT ![t] = made']
    BY <1>2 DEF MakeTransaction
  <2> QED
    BY <2>1, <2>2 DEF NumbersOK
<1> QED
  BY <1>1, <1>2 DEF Next, vars, threadVars, CommitTransaction, RollbackTransaction, Finish,
     Inside, InsertTransaction, FreeTransaction, RemoveTransaction

LEMMA ObjectsStep ==
    ASSUME OwnedInv, ObjectsOK, [Next]_vars
    PROVE  ObjectsOK'
<1> USE DEF OwnedInv, TypeOK, Goto, ObjectsOK, Holding
<1>1. CASE UNCHANGED vars
  BY <1>1 DEF vars, threadVars
<1>2. ASSUME NEW t \in Threads, NEW a \in Addresses, MakeTransaction(t, a) PROVE ObjectsOK'
  <2> SUFFICES ASSUME NEW b \in Addresses, object'[b] # 0
               PROVE  \E u \in Threads : Holding(u)' /\ address'[u] = b /\ mine'[u] = object'[b]
    OBVIOUS
  <2>1. CASE b = a
    BY <1>2, <2>1 DEF MakeTransaction
  <2>2. CASE b # a
    <3>1. object[b] # 0 /\ object'[b] = object[b]
      BY <1>2, <2>2 DEF MakeTransaction
    <3>2. PICK u \in Threads : Holding(u) /\ address[u] = b /\ mine[u] = object[b]
      BY <3>1
    <3>3. u # t
      BY <1>2, <3>2 DEF MakeTransaction
    <3> QED
      BY <1>2, <3>1, <3>2, <3>3 DEF MakeTransaction
  <2> QED
    BY <2>1, <2>2
<1>3. ASSUME NEW t \in Threads, InsertTransaction(t) PROVE ObjectsOK'
  BY <1>3 DEF InsertTransaction
<1>4. ASSUME NEW t \in Threads, Finish(t, "erase") PROVE ObjectsOK'
  BY <1>4 DEF Finish
<1>5. ASSUME NEW t \in Threads, FreeTransaction(t) PROVE ObjectsOK'
  <2>1. pc[t] = "erase" /\ transactions[address[t]] # 0
    BY <1>5 DEF FreeTransaction, PlaceOK, InMap
  <2>2. object' = [object EXCEPT ![address[t]] = 0] /\ UNCHANGED <<address, mine>>
    BY <1>5, <2>1 DEF FreeTransaction
  <2> SUFFICES ASSUME NEW b \in Addresses, object'[b] # 0
               PROVE  \E u \in Threads : Holding(u)' /\ address'[u] = b /\ mine'[u] = object'[b]
    OBVIOUS
  <2>3. b # address[t] /\ object[b] # 0 /\ object'[b] = object[b]
    BY <2>2
  <2>4. PICK u \in Threads : Holding(u) /\ address[u] = b /\ mine[u] = object[b]
    BY <2>3
  <2> QED
    BY <1>5, <2>2, <2>3, <2>4 DEF FreeTransaction
<1>6. ASSUME NEW t \in Threads, RemoveTransaction(t) PROVE ObjectsOK'
  BY <1>6 DEF RemoveTransaction
<1> QED
  BY <1>1, <1>2, <1>3, <1>4, <1>5, <1>6 DEF Next, Inside, CommitTransaction, RollbackTransaction

\* The mapping's notion of ownership, which looks at the heap and the map only,
\* comes to the control points between insert and erase.
OwnersOK == \A t \in Threads : Owned(t) <=> Started(t)

LEMMA OwnedMeansStarted == ContractInv => OwnersOK
<1> SUFFICES ASSUME ContractInv PROVE OwnersOK
  OBVIOUS
<1> USE DEF ContractInv, OwnedInv, TypeOK
<1>1. ASSUME NEW t \in Threads, Started(t) PROVE Owned(t)
  BY <1>1 DEF PlaceOK, Started, Owned, Holding, InMap
<1>2. ASSUME NEW t \in Threads, Owned(t) PROVE Started(t)
  <2>1. PICK u \in Threads : Holding(u) /\ mine[u] = mine[t]
    BY <1>2 DEF Owned, ObjectsOK
  <2>2. PICK v \in Threads : InMap(v) /\ mine[v] = mine[t]
    BY <1>2 DEF Owned, MapOK
  <2>3. u = t /\ v = t
    BY <1>2, <2>1, <2>2 DEF Owned, NumbersOK
  <2> QED
    BY <2>1, <2>2, <2>3 DEF Started, Holding, InMap
<1> QED
  BY <1>1, <1>2 DEF OwnersOK

AbsRequest == [t \in Threads |-> Asked(t)]
AbsOwned == {t \in Threads : Owned(t)}

LEMMA StepImplements ==
    ASSUME TypeOK, OwnersOK, OwnersOK', [Next]_vars
    PROVE  [Contract!Next]_(Contract!vars)
<1> DEFINE Moved(t, request, owned) ==
              /\ AbsRequest' = [AbsRequest EXCEPT ![t] = request]
              /\ AbsOwned' = owned
<1>1. AbsOwned = {t \in Threads : Started(t)} /\ AbsOwned' = {t \in Threads : Started(t)'}
  BY DEF OwnersOK, AbsOwned
<1>2. pc \in [Threads -> {"idle", "insert", "open", "erase", "remove"}]
  BY DEF TypeOK
<1>3. CASE UNCHANGED vars
  BY <1>3 DEF vars, threadVars, Contract!vars, Asked, Owned
<1> USE DEF Asked, Started
<1>4. ASSUME NEW t \in Threads, NEW a \in Addresses, MakeTransaction(t, a)
      PROVE  Contract!AskStart(t)
  <2>1. pc[t] = "idle" /\ pc' = [pc EXCEPT ![t] = "insert"]
    BY <1>4 DEF MakeTransaction, Goto
  <2>2. AbsRequest[t] = "none" /\ t \notin AbsOwned /\ Moved(t, "start", AbsOwned)
    BY <1>1, <1>2, <2>1 DEF AbsRequest
  <2> QED
    BY <2>2 DEF Contract!AskStart, Contract!Ask, AbsRequest, AbsOwned
<1>5. ASSUME NEW t \in Threads, InsertTransaction(t)
      PROVE  Contract!Start(t)
  <2>1. pc[t] = "insert" /\ pc' = [pc EXCEPT ![t] = "open"]
    BY <1>5 DEF InsertTransaction, Goto
  <2>2. AbsRequest[t] = "start" /\ Moved(t, "none", AbsOwned \cup {t})
    BY <1>1, <1>2, <2>1 DEF AbsRequest
  <2> QED
    BY <2>2 DEF Contract!Start, AbsRequest, AbsOwned
<1>6. ASSUME NEW t \in Threads, CommitTransaction(t) \/ RollbackTransaction(t)
      PROVE  Contract!AskEnd(t)
  <2>1. pc[t] = "open" /\ pc' = [pc EXCEPT ![t] = "erase"]
    BY <1>6 DEF CommitTransaction, RollbackTransaction, Finish, Goto
  <2>2. AbsRequest[t] = "none" /\ t \in AbsOwned /\ Moved(t, "end", AbsOwned)
    BY <1>1, <1>2, <2>1 DEF AbsRequest
  <2> QED
    BY <2>2 DEF Contract!AskEnd, Contract!Ask, AbsRequest, AbsOwned
<1>7. ASSUME NEW t \in Threads, FreeTransaction(t)
      PROVE  Contract!End(t)
  <2>1. pc[t] = "erase" /\ pc' = [pc EXCEPT ![t] = "remove"]
    BY <1>7 DEF FreeTransaction, Goto
  <2>2. AbsRequest[t] = "end" /\ t \in AbsOwned /\ Moved(t, "end", AbsOwned \ {t})
    BY <1>1, <1>2, <2>1 DEF AbsRequest
  <2>3. AbsRequest' = AbsRequest
    BY <1>2, <2>1 DEF AbsRequest
  <2> QED
    BY <2>2, <2>3 DEF Contract!End, AbsRequest, AbsOwned
<1>8. ASSUME NEW t \in Threads, RemoveTransaction(t)
      PROVE  Contract!Return(t)
  <2>1. pc[t] = "remove" /\ pc' = [pc EXCEPT ![t] = "idle"]
    BY <1>8 DEF RemoveTransaction, Goto
  <2>2. AbsRequest[t] = "end" /\ t \notin AbsOwned /\ Moved(t, "none", AbsOwned)
    BY <1>1, <1>2, <2>1 DEF AbsRequest
  <2> QED
    BY <2>2 DEF Contract!Return, AbsRequest, AbsOwned
<1> QED
  BY <1>3, <1>4, <1>5, <1>6, <1>7, <1>8 DEF Next, Inside, Contract!Next

\* The manager implements its contract: each start and each end takes effect at
\* one instant and touches no other connection's transaction, although the map
\* is keyed by addresses that are used again.
THEOREM ContractImplemented == Spec => ImplementsContract
<1>1. Init => ContractInv /\ Contract!Init
  <2> SUFFICES ASSUME Init PROVE ContractInv /\ Contract!Init
    OBVIOUS
  <2>1. ContractInv
    BY OwnedInit DEF Init, ContractInv, NumbersOK, ObjectsOK, Free
  <2>2. Contract!Init
    BY DEF Init, Contract!Init, Asked, Owned
  <2> QED
    BY <2>1, <2>2
<1>2. ContractInv /\ [Next]_vars => ContractInv'
  BY OwnedStep, NumbersStep, ObjectsStep DEF ContractInv
<1>3. ContractInv => TypeOK /\ OwnersOK
  BY OwnedMeansStarted DEF ContractInv, OwnedInv
<1>4. TypeOK /\ OwnersOK /\ OwnersOK' /\ [Next]_vars => [Contract!Next]_(Contract!vars)
  BY StepImplements
<1> QED
  BY <1>1, <1>2, <1>3, <1>4, PTL DEF Spec, ImplementsContract, Contract!Spec
=============================================================================
