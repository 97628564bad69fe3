-------------------------- MODULE CatalogContract --------------------------
(***************************************************************************)
(* What the catalog sets promise to connections that share them while      *)
(* nobody clears the cache.  A set is a map to which entries are only      *)
(* added, one at a time.  A call is answered from the state of the map at  *)
(* a single moment between the call and its return: GetEntry with the one  *)
(* entry it asked for, Scan with all of them.  A call may also fail.       *)
(* Nothing is promised about when entries are added.                       *)
(***************************************************************************)
EXTENDS Naturals

CONSTANTS Threads, Sets, Names, NoRequest

VARIABLES
    map,       \* map[s][n]: the entry of n in set s, 0 when there is none
    request,   \* the call each thread made last
    busy,      \* whether the thread is still inside it
    outcome,   \* how it ended
    found      \* found[t][n]: the entry of n it was given, 0 for none

vars == <<map, request, busy, outcome, found>>

Nothing == [n \in Names |-> 0]

Init ==
    /\ map = [s \in Sets |-> Nothing]
    /\ request = [t \in Threads |-> NoRequest]
    /\ busy = [t \in Threads |-> FALSE]
    /\ outcome = [t \in Threads |-> "none"]
    /\ found = [t \in Threads |-> Nothing]

\* Some entry for n appears where there was none.
AddEntry(s, n) ==
    /\ map[s][n] = 0
    /\ map'[s][n] # 0
    /\ map' = [map EXCEPT ![s][n] = map'[s][n]]
    /\ UNCHANGED <<request, busy, outcome, found>>

Ask(t, op, s, n) ==
    /\ ~busy[t]
    /\ busy' = [busy EXCEPT ![t] = TRUE]
    /\ request' = [request EXCEPT ![t] = [op |-> op, set |-> s, name |-> n]]
    /\ outcome' = [outcome EXCEPT ![t] = "none"]
    /\ found' = [found EXCEPT ![t] = Nothing]
    /\ UNCHANGED map

Answer(t, how, what) ==
    /\ busy[t]
    /\ busy' = [busy EXCEPT ![t] = FALSE]
    /\ outcome' = [outcome EXCEPT ![t] = how]
    /\ found' = [found EXCEPT ![t] = what]
    /\ UNCHANGED <<map, request>>

AnswerGetEntry(t) ==
    LET s == request[t].set
        n == request[t].name IN
    /\ request[t].op = "GetEntry"
    /\ Answer(t, IF map[s][n] = 0 THEN "miss" ELSE "hit",
              [Nothing EXCEPT ![n] = map[s][n]])

AnswerScan(t) ==
    /\ request[t].op = "Scan"
    /\ Answer(t, "scanned", map[request[t].set])

Fail(t) == Answer(t, "error", Nothing)

Next ==
    \/ \E s \in Sets, n \in Names : AddEntry(s, n)
    \/ \E t \in Threads :
         \/ \E s \in Sets, n \in Names : Ask(t, "GetEntry", s, n)
         \/ \E s \in Sets : Ask(t, "Scan", s, NoRequest.name)
         \/ AnswerGetEntry(t) \/ AnswerScan(t) \/ Fail(t)

Spec == Init /\ [][Next]_vars
=============================================================================
