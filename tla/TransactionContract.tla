------------------------ MODULE TransactionContract ------------------------
(***************************************************************************)
(* What the transaction manager promises to the connections: starting and  *)
(* ending a transaction each take effect at one instant, and no step of a  *)
(* connection touches the transaction of another.  There are no addresses, *)
(* objects or locks.                                                       *)
(***************************************************************************)
CONSTANT Threads

VARIABLES
    request,  \* what each connection asks for at the moment
    owned     \* the connections whose transaction is alive and in the map

vars == <<request, owned>>

Init ==
    /\ request = [t \in Threads |-> "none"]
    /\ owned = {}

Ask(t, what) ==
    /\ request[t] = "none"
    /\ request' = [request EXCEPT ![t] = what]
    /\ UNCHANGED owned

AskStart(t) == t \notin owned /\ Ask(t, "start")
AskEnd(t) == t \in owned /\ Ask(t, "end")

Start(t) ==
    /\ request[t] = "start"
    /\ request' = [request EXCEPT ![t] = "none"]
    /\ owned' = owned \cup {t}

End(t) ==
    /\ request[t] = "end" /\ t \in owned
    /\ owned' = owned \ {t}
    /\ UNCHANGED request

Return(t) ==
    /\ request[t] = "end" /\ t \notin owned
    /\ request' = [request EXCEPT ![t] = "none"]
    /\ UNCHANGED owned

Next ==
    \E t \in Threads : AskStart(t) \/ Start(t) \/ AskEnd(t) \/ End(t) \/ Return(t)

Spec == Init /\ [][Next]_vars
=============================================================================
