---------------------------- MODULE UCTableScan ----------------------------
(***************************************************************************)
(* UCTableEntry::GetScanFunction (src/storage/uc_table_entry.cpp): how a   *)
(* connection that plans a scan of a table gets temporary credentials for  *)
(* it, stores them as a DuckDB secret, and binds delta_scan.               *)
(*                                                                         *)
(* The connections share the secret manager, which belongs to DuckDB and   *)
(* is modelled by what the code relies on:                                 *)
(*   - a secret has a name, of which there is one, and a scope; a reader   *)
(*     of a path gets the secret whose scope is the longest prefix of it;  *)
(*   - CreateSecret is a step of the connection's transaction: nobody else *)
(*     sees the secret before the commit, and a second connection cannot   *)
(*     replace it before then but gets an error.                           *)
(* delta_scan and the readers it starts look the secret of the table's     *)
(* location up at any time between the bind and the end of the             *)
(* transaction.                                                            *)
(***************************************************************************)
EXTENDS Naturals, Sequences, SequencesExt, UCAPI

CONSTANTS
    Threads,      \* a thread per connection
    Tables,       \* table ids
    Location,     \* table -> storage_location, a sequence of path elements
    OtherFormats, \* tables whose data_source_format is not "DELTA"
    NoSecret,     \* a name without a secret
    Replies,      \* the kinds of answer the server gives
    MaxCalls      \* bound: scans planned by one connection

ASSUME LocationAssumption == Location \in [Tables -> Seq(STRING) \ {<<>>}]
ASSUME FormatAssumption == OtherFormats \subseteq Tables
ASSUME RepliesAssumption == Replies \subseteq AllReplies
ASSUME BoundAssumption == MaxCalls \in Nat

\* storage_location.find("file://") == 0
Local == {x \in Tables : Location[x][1] = "file:"}
Remote == Tables \ Local

\* The server gives no two tables the same location.
ASSUME LocationsDiffer == \A x, y \in Remote : Location[x] = Location[y] => x = y

\* Credentials are told apart by the table they are for and by their number;
\* the number 0 is that of UCAPITableCredentials left empty.
Credentials == [table: Tables, number: Nat]
Secrets == [scope: Seq(STRING), credentials: Credentials]
Slots == Secrets \cup {NoSecret}

ASSUME NoSecretAssumption == NoSecret \notin Secrets

VARIABLES
    secrets,      \* the secrets of committed transactions, by name
    written,      \* written[t]: those written by t's open transaction
    issued,       \* number of requests the server has answered
    pc, table,    \* control point and table of the connection's call
    credentials,  \* table_credentials of the call
    bound,        \* tables bound by scans of the connection's open transaction
    received,     \* history: received[t][x]: what the transaction's last
                  \* request for x was answered
    calls         \* calls made by each connection

secretVars == <<secrets, written>>
callVars == <<pc, table, credentials, calls>>
vars == <<secretVars, callVars, issued, bound, received>>

NoneWritten == [x \in Tables |-> NoSecret]
Empty(x) == [table |-> x, number |-> 0]

Init ==
    /\ secrets = NoneWritten
    /\ written = [t \in Threads |-> NoneWritten]
    /\ issued = 0
    /\ pc = [t \in Threads |-> "idle"]
    /\ table \in [Threads -> Tables]
    /\ credentials = [t \in Threads |-> Empty(table[t])]
    /\ bound = [t \in Threads |-> {}]
    /\ received = [t \in Threads |-> [x \in Tables |-> Empty(x)]]
    /\ calls = [t \in Threads |-> 0]
-----------------------------------------------------------------------------
(* The secret manager.                                                     *)

\* What t sees under a name: its own change before what others committed.
Visible(t, name) == IF written[t][name] # NoSecret THEN written[t][name] ELSE secrets[name]

\* The secrets t can read a path with: of those whose scope is a prefix of it
\* the ones with the longest scope.
Matching(t, path) ==
    {s \in {Visible(t, name) : name \in Tables} :
        s # NoSecret /\ IsPrefix(s.scope, path)}

LookupSecret(t, path) ==
    {s \in Matching(t, path) : \A r \in Matching(t, path) : Len(r.scope) <= Len(s.scope)}

Conflict(t, name) == \E u \in Threads \ {t} : written[u][name] # NoSecret
-----------------------------------------------------------------------------
(* GetScanFunction.                                                        *)

Goto(t, place) == pc' = [pc EXCEPT ![t] = place]

\* An exception ends the statement, and the scans bound for it with it.
Throw(t) ==
    /\ Goto(t, "idle")
    /\ bound' = [bound EXCEPT ![t] = {}]

\* The binder calls GetScanFunction of table x.  The format is checked first;
\* a table on the local file system needs no credentials.
GetScanFunction(t, x) ==
    /\ pc[t] = "idle" /\ calls[t] < MaxCalls
    /\ calls' = [calls EXCEPT ![t] = @ + 1]
    /\ table' = [table EXCEPT ![t] = x]
    /\ \/ x \in OtherFormats /\ Throw(t)
       \/ x \in Local \ OtherFormats /\ Goto(t, "bind") /\ UNCHANGED bound
       \/ x \in Remote \ OtherFormats /\ Goto(t, "request") /\ UNCHANGED bound
    /\ UNCHANGED <<secretVars, credentials, issued, received>>

\* UCAPI::GetTableCredentials: the request and what is made of the answer.
RequestCredentials(t, reply) ==
    /\ pc[t] = "request"
    /\ issued' = IF reply = "unreachable" THEN issued ELSE issued + 1
    /\ IF GetTableCredentialsThrows(reply)
       THEN Throw(t) /\ UNCHANGED <<credentials, received>>
       ELSE LET x == table[t]
                answer == GetTableCredentials(reply, [table |-> x, number |-> issued'], Empty(x))
            IN  /\ credentials' = [credentials EXCEPT ![t] = answer]
                /\ received' = [received EXCEPT ![t][x] = answer]
                /\ Goto(t, "create") /\ UNCHANGED bound
    /\ UNCHANGED <<secretVars, table, calls>>

SharedName(x) == CHOOSE y \in Tables : TRUE \* mutant: the name lacks the table's id

\* info.name: "__internal_uc_" and the table's id.
SecretName(x) == x

\* info.scope: the table's location.
Scope(x) == Location[x]

\* CreateSecret with REPLACE_ON_CONFLICT.
CreateSecret(t) ==
    LET x == table[t]
        info == [scope |-> Scope(x), credentials |-> credentials[t]]
    IN  /\ pc[t] = "create"
        /\ ~Conflict(t, SecretName(x))
        /\ written' = [written EXCEPT ![t][SecretName(x)] = info]
        /\ Goto(t, "bind")
        /\ UNCHANGED <<secrets, table, credentials, calls, issued, bound, received>>

\* CreateSecret throws: always while another transaction has an uncommitted
\* change of that name, possibly for other reasons of the secret manager.
RefuseSecret(t) ==
    /\ pc[t] = "create"
    /\ Throw(t)
    /\ UNCHANGED <<secretVars, table, credentials, calls, issued, received>>

\* delta_scan's bind.
Bind(t) ==
    /\ pc[t] = "bind"
    /\ bound' = [bound EXCEPT ![t] = @ \cup {table[t]}]
    /\ Goto(t, "idle")
    /\ UNCHANGED <<secretVars, table, credentials, calls, issued, received>>

BindThrows(t) ==
    /\ pc[t] = "bind"
    /\ Throw(t)
    /\ UNCHANGED <<secretVars, table, credentials, calls, issued, received>>
-----------------------------------------------------------------------------
(* The end of the connection's transaction.                                *)

End(t) ==
    /\ pc[t] = "idle"
    /\ written' = [written EXCEPT ![t] = NoneWritten]
    /\ bound' = [bound EXCEPT ![t] = {}]
    /\ UNCHANGED <<callVars, issued, received>>

Commit(t) ==
    /\ \E x \in Tables : written[t][x] # NoSecret
    /\ secrets' = [x \in Tables |-> Visible(t, x)]
    /\ End(t)

Rollback(t) ==
    /\ bound[t] # {} \/ \E x \in Tables : written[t][x] # NoSecret
    /\ End(t)
    /\ UNCHANGED secrets

Step(t) ==
    \/ \E x \in Tables : GetScanFunction(t, x)
    \/ \E reply \in Replies : RequestCredentials(t, reply)
    \/ CreateSecret(t) \/ RefuseSecret(t)
    \/ Bind(t) \/ BindThrows(t)
    \/ Commit(t) \/ Rollback(t)

Next == \E t \in Threads : Step(t)

Spec == Init /\ [][Next]_vars
-----------------------------------------------------------------------------
(* Properties.                                                             *)

TypeOK ==
    /\ secrets \in [Tables -> Slots]
    /\ written \in [Threads -> [Tables -> Slots]]
    /\ issued \in Nat
    /\ pc \in [Threads -> {"idle", "request", "create", "bind"}]
    /\ table \in [Threads -> Tables]
    /\ credentials \in [Threads -> Credentials]
    /\ bound \in [Threads -> SUBSET Tables]
    /\ received \in [Threads -> [Tables -> Credentials]]
    /\ calls \in [Threads -> 0..MaxCalls]

\* Tables whose readers may look a secret up now: the one being bound, and
\* once a statement is planned all those bound in the transaction.
Reading(t) ==
    {x \in Remote : \/ pc[t] = "bind" /\ x = table[t]
                    \/ pc[t] \in {"idle", "bind"} /\ x \in bound[t]}

\* Every reader of a table gets exactly the credentials that the transaction's
\* last request for this table was answered with: never those for another table
\* whose location contains this one, or is contained in it, and never those
\* another connection requested before or after.
ReadersUseOwnCredentials ==
    \A t \in Threads : \A x \in Reading(t) :
        {s.credentials : s \in LookupSecret(t, Location[x])} = {received[t][x]}

\* A secret named after a table serves this table alone: what any transaction
\* sees under the name is scoped to the table's location and holds what a request
\* for this table was answered, however requests, failures, commits and rollbacks
\* of the connections are ordered; and tables that are never scanned with
\* credentials, local ones and those of other formats, have no secret.
SecretsBelong ==
    \A t \in Threads, x \in Tables :
        LET s == Visible(t, x) IN
        s # NoSecret => /\ x \in Remote \ OtherFormats
                        /\ s.scope = Location[x]
                        /\ s.credentials.table = x

\* The secrets of scanned tables hold credentials fetched from the server.
SecretsHoldCredentials ==
    \A t \in Threads, x \in Tables :
        Visible(t, x) # NoSecret => Visible(t, x).credentials.number # 0
=============================================================================
