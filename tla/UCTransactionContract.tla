----------------------- MODULE UCTransactionContract -----------------------
(***************************************************************************)
(* UCTransactionManager implements TransactionContract.  A connection's    *)
(* transaction is owned when the very object it was given is alive at its  *)
(* address and the map holds it there.                                     *)
(***************************************************************************)
EXTENDS UCTransactionManager

Asked(t) ==
    CASE pc[t] \in {"idle", "open"} -> "none"
      [] pc[t] = "insert" -> "start"
      [] pc[t] \in {"erase", "remove"} -> "end"

Owned(t) ==
    /\ mine[t] # 0
    /\ object[address[t]] = mine[t]
    /\ transactions[address[t]] = mine[t]

Contract == INSTANCE TransactionContract WITH
    request <- [t \in Threads |-> Asked(t)],
    owned <- {t \in Threads : Owned(t)}

\* Every behaviour of the manager is one the contract allows: a transaction is
\* owned from one instant of its StartTransaction to one of its commit or
\* rollback, whoever else starts, ends or reuses the address of one meanwhile.
ImplementsContract == Contract!Spec
=============================================================================
