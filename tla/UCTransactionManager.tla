------------------------ MODULE UCTransactionManager ------------------------
(***************************************************************************)
(* The transactions of an attached catalog: UCTransactionManager and       *)
(* UCTransaction (src/storage/uc_transaction_manager.cpp,                  *)
(* uc_transaction.cpp), as the connections start and end them at the same  *)
(* time.                                                                   *)
(*                                                                         *)
(* The map `transactions` owns the UCTransaction objects and its key is    *)
(* the address of the object, which the allocator may give to a new object *)
(* as soon as the old one is freed.  Objects are therefore told apart by a *)
(* number, and freeing one and removing it from the map are two steps.     *)
(***************************************************************************)
EXTENDS Naturals

CONSTANTS
    Threads,        \* a thread per connection
    Addresses,      \* where the allocator may put a transaction
    NoThread,       \* the owner of a free transaction_lock
    MaxTransactions \* bound: transactions started in all

ASSUME ThreadsAssumption == NoThread \notin Threads
ASSUME BoundAssumption == MaxTransactions \in Nat

VARIABLES
    object,          \* object[a]: the number of the transaction at a, 0 if none
    state,           \* state[a]: its transaction_state
    transactions,    \* the map: the number of the object it holds for a, or 0
    transactionLock, \* owner of transaction_lock
    made,            \* number of transactions made so far
    pc,              \* control point of each connection
    address, mine    \* the connection's transaction: its address, its number

threadVars == <<pc, address, mine>>
vars == <<object, state, transactions, transactionLock, made, threadVars>>

Free == [a \in Addresses |-> 0]
States == {"NOT_YET_STARTED", "STARTED", "FINISHED"}

Init ==
    /\ object = Free /\ transactions = Free
    /\ state = [a \in Addresses |-> "NOT_YET_STARTED"]
    /\ transactionLock = NoThread
    /\ made = 0
    /\ pc = [t \in Threads |-> "idle"]
    /\ address \in [Threads -> Addresses]
    /\ mine = [t \in Threads |-> 0]
-----------------------------------------------------------------------------
Goto(t, from, to) == pc[t] = from /\ pc' = [pc EXCEPT ![t] = to]

LockIgnored(t) == TRUE \* mutant: no lock_guard

LockFree(t) == transactionLock = NoThread

LockKept == UNCHANGED transactionLock \* mutant: the lock is not released

Unlock == transactionLock' = NoThread

\* StartTransaction: make_uniq puts the object at a free address, Start()
\* sets its state; only this thread knows it yet.
MakeTransaction(t, a) ==
    /\ Goto(t, "idle", "insert")
    /\ made < MaxTransactions /\ object[a] = 0
    /\ made' = made + 1
    /\ object' = [object EXCEPT ![a] = made']
    /\ state' = [state EXCEPT ![a] = "NOT_YET_STARTED"]
    /\ address' = [address EXCEPT ![t] = a]
    /\ mine' = [mine EXCEPT ![t] = made']
    /\ UNCHANGED <<transactions, transactionLock>>

\* transactions[result] = std::move(transaction), under the lock.
InsertTransaction(t) ==
    /\ Goto(t, "insert", "open")
    /\ LockFree(t)
    /\ transactions' = [transactions EXCEPT ![address[t]] = mine[t]]
    /\ UNCHANGED <<object, state, transactionLock, made, address, mine>>

\* UCTransaction::Commit and ::Rollback, outside the lock: both act on a
\* started transaction only.
Finish(t, next) ==
    /\ Goto(t, "open", next)
    /\ state' = [state EXCEPT ![address[t]] = IF @ = "STARTED" THEN "FINISHED" ELSE @]
    /\ UNCHANGED <<object, transactions, transactionLock, made, address, mine>>

RollbackForgets(t) == Finish(t, "idle") \* mutant: nothing is erased

CommitTransaction(t) == Finish(t, "erase")
RollbackTransaction(t) == Finish(t, "erase")

\* transactions.erase(transaction), under the lock: frees the object the map
\* owns, if there is one, and removes its key.
FreeTransaction(t) ==
    /\ Goto(t, "erase", "remove")
    /\ LockFree(t)
    /\ transactionLock' = t
    /\ object' = [object EXCEPT ![address[t]] = IF transactions[address[t]] = 0 THEN @ ELSE 0]
    /\ UNCHANGED <<state, transactions, made, address, mine>>

RemoveTransaction(t) ==
    /\ Goto(t, "remove", "idle")
    /\ transactions' = [transactions EXCEPT ![address[t]] = 0]
    /\ Unlock
    /\ UNCHANGED <<object, state, made, address, mine>>

\* What a connection does once it has entered the manager.
Inside(t) == InsertTransaction(t) \/ FreeTransaction(t) \/ RemoveTransaction(t)

Next ==
    \E t \in Threads :
        \/ \E a \in Addresses : MakeTransaction(t, a)
        \/ CommitTransaction(t) \/ RollbackTransaction(t)
        \/ Inside(t)

Spec == Init /\ [][Next]_vars

\* A connection inside the manager keeps running.
FairSpec == Spec /\ \A t \in Threads : WF_vars(Inside(t))
-----------------------------------------------------------------------------
TypeOK ==
    /\ object \in [Addresses -> Nat]
    /\ state \in [Addresses -> States]
    /\ transactions \in [Addresses -> Nat]
    /\ transactionLock \in Threads \cup {NoThread}
    /\ made \in Nat
    /\ pc \in [Threads -> {"idle", "insert", "open", "erase", "remove"}]
    /\ address \in [Threads -> Addresses]
    /\ mine \in [Threads -> Nat]

Started(t) == pc[t] \in {"open", "erase"}

\* A transaction a connection has been given is not freed before the connection
\* ends it, even when its address was used before: the object at its address is
\* the one it was given, and the map owns this object.
OpenIsOwned ==
    \A t \in Threads : Started(t) =>
        /\ object[address[t]] = mine[t]
        /\ transactions[address[t]] = mine[t]

\* The map owns nothing else: with no connection inside the manager it holds
\* exactly the open transactions, so none is left behind when all are ended.
OnlyOpenIsOwned ==
    (\A t \in Threads : pc[t] \in {"idle", "open"}) =>
        \A a \in Addresses : transactions[a] # 0 =>
            \E t \in Threads : pc[t] = "open" /\ address[t] = a /\ mine[t] = transactions[a]

\* A connection that starts or ends a transaction gets done with it.
CallsReturn ==
    \A t \in Threads : pc[t] \in {"insert", "erase", "remove"} ~> pc[t] \in {"open", "idle"}
=============================================================================
