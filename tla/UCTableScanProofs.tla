------------------------- MODULE UCTableScanProofs -------------------------
(***************************************************************************)
(* Theorems about UCTableScan, for any number of connections and tables.   *)
(* That readers use their own credentials rests on two facts: a secret is  *)
(* scoped to the very location of the table it is named after (ScopesOK),  *)
(* so that among the secrets of a path that of its own table has the       *)
(* longest scope; and the open transaction's own secret of a table holds   *)
(* what its last request for the table was answered (OwnOK).               *)
(***************************************************************************)
EXTENDS UCTableScan, TLAPS

ScopesOK ==
    \A x \in Tables :
        /\ secrets[x] # NoSecret => x \in Remote /\ secrets[x].scope = Location[x]
        /\ \A t \in Threads :
              written[t][x] # NoSecret => x \in Remote /\ written[t][x].scope = Location[x]

\* t's transaction holds a secret of x with the last answer for x.
HasOwn(t, x) ==
    /\ written[t][x] # NoSecret
    /\ written[t][x].credentials = received[t][x]

Own(t) ==
    /\ pc[t] \in {"request", "create"} => table[t] \in Remote
    /\ pc[t] = "create" => credentials[t] = received[t][table[t]]
    /\ pc[t] = "bind" /\ table[t] \in Remote => HasOwn(t, table[t])
    /\ \A x \in bound[t] \cap Remote :
          HasOwn(t, x) \/ (pc[t] = "create" /\ x = table[t])

OwnOK == \A t \in Threads : Own(t)

OwnInv == TypeOK /\ ScopesOK /\ OwnOK
-----------------------------------------------------------------------------
(* Types.                                                                  *)

\* An answer is made into credentials.
LEMMA AnswerTyped ==
    ASSUME NEW x \in Tables, NEW n \in Nat, NEW reply
    PROVE  GetTableCredentials(reply, [table |-> x, number |-> n], Empty(x)) \in Credentials
BY DEF GetTableCredentials, Empty, Credentials

LEMMA TypeInit == Init => TypeOK
<1> SUFFICES ASSUME Init PROVE TypeOK
  OBVIOUS
<1>1. \A x \in Tables : Empty(x) \in Credentials
  BY DEF Empty, Credentials
<1>2. NoneWritten \in [Tables -> Slots]
  BY DEF NoneWritten, Slots
<1> QED
  BY <1>1, <1>2, BoundAssumption DEF Init, TypeOK

\* Forgetting or adding bound tables.
LEMMA BoundTyped ==
    ASSUME TypeOK, NEW t \in Threads, NEW S \in SUBSET Tables,
           bound' = [bound EXCEPT ![t] = S]
    PROVE  bound' \in [Threads -> SUBSET Tables]
BY DEF TypeOK

LEMMA ThrowTyped ==
    ASSUME TypeOK, NEW t \in Threads, Throw(t)
    PROVE  /\ pc' \in [Threads -> {"idle", "request", "create", "bind"}]
           /\ bound' \in [Threads -> SUBSET Tables]
<1>1. {} \in SUBSET Tables
  OBVIOUS
<1> QED
  BY <1>1, BoundTyped DEF Throw, Goto, TypeOK

LEMMA TypeStep == TypeOK /\ [Next]_vars => TypeOK'
<1> SUFFICES ASSUME TypeOK, [Next]_vars PROVE TypeOK'
  OBVIOUS
<1> USE DEF TypeOK
<1>1. CASE UNCHANGED vars
  BY <1>1 DEF vars, secretVars, callVars
<1>2. ASSUME NEW t \in Threads, Step(t) PROVE TypeOK'
  <2>1. ASSUME NEW x \in Tables, GetScanFunction(t, x) PROVE TypeOK'
    <3>1. /\ pc' \in [Threads -> {"idle", "request", "create", "bind"}]
          /\ bound' \in [Threads -> SUBSET Tables]
      BY <2>1, ThrowTyped DEF GetScanFunction, Goto
    <3>2. calls' \in [Threads -> 0..MaxCalls]
      BY <2>1, BoundAssumption DEF GetScanFunction
    <3> QED
      BY <2>1, <3>1, <3>2 DEF GetScanFunction, secretVars
  <2>2. ASSUME NEW reply \in Replies, RequestCredentials(t, reply) PROVE TypeOK'
    <3> DEFINE x == table[t]
               a == GetTableCredentials(reply, [table |-> x, number |-> issued'], Empty(x))
    <3>1. issued' \in Nat
      BY <2>2 DEF RequestCredentials
    <3>2. a \in Credentials
      BY <3>1, AnswerTyped
    <3> HIDE DEF a
    <3>3. \/ Throw(t) /\ UNCHANGED <<credentials, received>>
          \/ /\ credentials' = [credentials EXCEPT ![t] = a]
             /\ received' = [received EXCEPT ![t][x] = a]
             /\ Goto(t, "create") /\ UNCHANGED bound
      BY <2>2 DEF RequestCredentials, a
    <3>4. UNCHANGED <<secretVars, table, calls>>
      BY <2>2 DEF RequestCredentials
    <3>5. CASE Throw(t) /\ UNCHANGED <<credentials, received>>
      BY <3>1, <3>4, <3>5, ThrowTyped DEF secretVars
    <3>6. CASE /\ credentials' = [credentials EXCEPT ![t] = a]
               /\ received' = [received EXCEPT ![t][x] = a]
               /\ Goto(t, "create") /\ UNCHANGED bound
      <4>1. received' \in [Threads -> [Tables -> Credentials]]
        BY <3>2, <3>6
      <4> QED
        BY <3>1, <3>2, <3>4, <3>6, <4>1 DEF Goto, secretVars
    <3> QED
      BY <3>3, <3>5, <3>6
  <2>3. ASSUME CreateSecret(t) PROVE TypeOK'
    <3>1. [scope |-> Scope(table[t]), credentials |-> credentials[t]] \in Slots
      BY LocationAssumption DEF Slots, Secrets, Scope
    <3> QED
      BY <2>3, <3>1 DEF CreateSecret, Goto, SecretName
  <2>4. ASSUME RefuseSecret(t) \/ BindThrows(t) PROVE TypeOK'
    BY <2>4, ThrowTyped DEF RefuseSecret, BindThrows, secretVars
  <2>5. ASSUME Bind(t) PROVE TypeOK'
    <3>1. bound[t] \cup {table[t]} \in SUBSET Tables
      OBVIOUS
    <3> QED
      BY <2>5, <3>1, BoundTyped DEF Bind, Goto, secretVars
  <2>6. ASSUME Commit(t) \/ Rollback(t) PROVE TypeOK'
    <3>1. \A x \in Tables : Visible(t, x) \in Slots
      BY DEF Visible
    <3>2. NoneWritten \in [Tables -> Slots]
      BY DEF NoneWritten, Slots
    <3>3. bound' \in [Threads -> SUBSET Tables]
      BY <2>6, BoundTyped, {} \in SUBSET Tables DEF Commit, Rollback, End
    <3>4. secrets' \in [Tables -> Slots]
      BY <2>6, <3>1 DEF Commit, Rollback
    <3>5. /\ written' = [written EXCEPT ![t] = NoneWritten]
          /\ UNCHANGED <<callVars, issued, received>>
      BY <2>6 DEF Commit, Rollback, End
    <3>6. written' \in [Threads -> [Tables -> Slots]]
      BY <3>2, <3>5
    <3> QED
      BY <3>3, <3>4, <3>5, <3>6 DEF callVars
  <2> QED
    BY <1>2, <2>1, <2>2, <2>3, <2>4, <2>5, <2>6 DEF Step
<1> QED
  BY <1>1, <1>2 DEF Next

\* Type correctness of the table scans, for any connections, tables, locations,
\* kinds of answer and number of calls.
THEOREM TypeCorrect == Spec => []TypeOK
BY TypeInit, TypeStep, PTL DEF Spec
-----------------------------------------------------------------------------
(* Readers use their own credentials.                                      *)

\* A prefix at least as long as the whole is the whole.
LEMMA FullPrefix ==
    ASSUME NEW p \in Seq(STRING), NEW q \in Seq(STRING),
           IsPrefix(p, q), Len(q) <= Len(p)
    PROVE  p = q
<1>1. Len(p) = Len(q) /\ SubSeq(p, 1, Len(p)) = SubSeq(q, 1, Len(q))
  BY DEF IsPrefix
<1> QED
  BY <1>1

\* With a secret of its own a table's location is read with that secret.
LEMMA LookupFindsOwn ==
    ASSUME TypeOK, ScopesOK, NEW t \in Threads, NEW x \in Remote, HasOwn(t, x)
    PROVE  LookupSecret(t, Location[x]) = {written[t][x]}
<1> DEFINE own == written[t][x]
           path == Location[x]
<1>1. x \in Tables /\ path \in Seq(STRING)
  BY LocationAssumption DEF Remote
<1>2. ASSUME NEW name \in Tables, Visible(t, name) # NoSecret
      PROVE  name \in Remote /\ Visible(t, name).scope = Location[name]
  BY <1>2 DEF Visible, ScopesOK
<1>3. Visible(t, x) = own /\ own # NoSecret /\ own.scope = path
  BY <1>1 DEF HasOwn, Visible, ScopesOK
<1>4. IsPrefix(path, path)
  BY <1>1 DEF IsPrefix
<1>5. own \in Matching(t, path)
  BY <1>1, <1>3, <1>4 DEF Matching
<1>6. ASSUME NEW s \in Matching(t, path)
      PROVE  /\ Len(s.scope) <= Len(path)
             /\ Len(path) <= Len(s.scope) => s = own
  <2>1. PICK name \in Tables : s = Visible(t, name) /\ s # NoSecret
    BY DEF Matching
  <2>2. name \in Remote /\ s.scope = Location[name] /\ s.scope \in Seq(STRING)
    BY <1>2, <2>1, LocationAssumption
  <2>3. IsPrefix(s.scope, path)
    BY DEF Matching
  <2>4. Len(s.scope) <= Len(path)
    BY <2>3 DEF IsPrefix
  <2>5. ASSUME Len(path) <= Len(s.scope) PROVE s = own
    <3>1. Location[name] = Location[x]
      BY <1>1, <2>2, <2>3, <2>5, FullPrefix
    <3>2. name = x
      BY <2>2, <3>1, LocationsDiffer
    <3> QED
      BY <1>3, <2>1, <3>2
  <2> QED
    BY <2>4, <2>5
<1> HIDE DEF own, path
<1>7. own \in LookupSecret(t, path)
  BY <1>3, <1>5, <1>6 DEF LookupSecret
<1>8. ASSUME NEW s \in LookupSecret(t, path) PROVE s = own
  BY <1>3, <1>5, <1>6 DEF LookupSecret
<1> QED
  BY <1>7, <1>8 DEF own, path

LEMMA OwnSuffices == OwnInv => ReadersUseOwnCredentials
<1> SUFFICES ASSUME OwnInv, NEW t \in Threads, NEW x \in Reading(t)
             PROVE  {s.credentials : s \in LookupSecret(t, Location[x])} = {received[t][x]}
  BY DEF ReadersUseOwnCredentials
<1>1. x \in Remote /\ HasOwn(t, x)
  BY DEF Reading, OwnInv, OwnOK, Own
<1>2. LookupSecret(t, Location[x]) = {written[t][x]}
  BY <1>1, LookupFindsOwn DEF OwnInv
<1> QED
  BY <1>1, <1>2 DEF HasOwn

LEMMA OwnInit == Init => ScopesOK /\ OwnOK
BY DEF Init, ScopesOK, OwnOK, Own, NoneWritten

\* What a step of t leaves alone.
LEMMA OthersStay ==
    ASSUME TypeOK, NEW t \in Threads, Step(t), NEW u \in Threads \ {t}, Own(u)
    PROVE  Own(u)'
<1>1. /\ pc'[u] = pc[u] /\ table'[u] = table[u] /\ credentials'[u] = credentials[u]
      /\ written'[u] = written[u] /\ received'[u] = received[u] /\ bound'[u] = bound[u]
  BY DEF TypeOK, Step, GetScanFunction, RequestCredentials, CreateSecret, RefuseSecret,
         Bind, BindThrows, Commit, Rollback, End, Throw, Goto, secretVars, callVars
<1> QED
  BY <1>1 DEF Own, HasOwn

LEMMA ScopesStep == TypeOK /\ ScopesOK /\ OwnOK /\ [Next]_vars => ScopesOK'
<1> SUFFICES ASSUME TypeOK, ScopesOK, OwnOK, [Next]_vars PROVE ScopesOK'
  OBVIOUS
<1>1. CASE UNCHANGED secretVars
  BY <1>1 DEF ScopesOK, secretVars
<1>2. ASSUME NEW t \in Threads, CreateSecret(t) PROVE ScopesOK'
  <2>1. table[t] \in Remote /\ table[t] \in Tables
    BY <1>2 DEF CreateSecret, OwnOK, Own, TypeOK
  <2> QED
    BY <1>2, <2>1 DEF CreateSecret, ScopesOK, SecretName, Scope, TypeOK
<1>3. ASSUME NEW t \in Threads, Commit(t) \/ Rollback(t) PROVE ScopesOK'
  <2>1. written' = [written EXCEPT ![t] = NoneWritten]
    BY <1>3 DEF Commit, Rollback, End
  <2>2. \A x \in Tables : secrets'[x] \in {secrets[x], written[t][x]}
    BY <1>3 DEF Commit, Rollback, Visible
  <2>3. ASSUME NEW u \in Threads, NEW x \in Tables
        PROVE  written'[u][x] \in {NoSecret, written[u][x]}
    BY <2>1 DEF NoneWritten, TypeOK
  <2> QED
    BY <2>2, <2>3 DEF ScopesOK
<1>4. ASSUME NEW t \in Threads, Step(t), ~CreateSecret(t), ~(Commit(t) \/ Rollback(t))
      PROVE  UNCHANGED secretVars
  BY <1>4, Zenon DEF Step, GetScanFunction, RequestCredentials, RefuseSecret, Bind, BindThrows
<1>5. CASE UNCHANGED vars
  BY <1>1, <1>5 DEF vars
<1>6. ASSUME NEW t \in Threads, Step(t) PROVE ScopesOK'
  BY <1>1, <1>2, <1>3, <1>4, <1>6
<1> QED
  BY <1>5, <1>6 DEF Next

LEMMA OwnStep == TypeOK /\ OwnOK /\ [Next]_vars => OwnOK'
<1> SUFFICES ASSUME TypeOK, OwnOK, [Next]_vars PROVE OwnOK'
  OBVIOUS
<1>1. CASE UNCHANGED vars
  BY <1>1 DEF vars, secretVars, callVars, OwnOK, Own, HasOwn
<1>2. ASSUME NEW t \in Threads, Step(t) PROVE Own(t)'
  <2> USE DEF TypeOK
  <2>0. Own(t)
    BY DEF OwnOK
  <2>1. ASSUME NEW x \in Tables, GetScanFunction(t, x) PROVE Own(t)'
    BY <2>0, <2>1 DEF GetScanFunction, Goto, Throw, Own, HasOwn, Remote, secretVars
  <2>2. ASSUME NEW reply \in Replies, RequestCredentials(t, reply) PROVE Own(t)'
    <3> DEFINE a == GetTableCredentials(reply, [table |-> table[t], number |-> issued'],
                                        Empty(table[t]))
    <3>1. \/ Throw(t)
          \/ /\ credentials' = [credentials EXCEPT ![t] = a]
             /\ received' = [received EXCEPT ![t][table[t]] = a]
             /\ Goto(t, "create") /\ UNCHANGED bound
      BY <2>2 DEF RequestCredentials
    <3> HIDE DEF a
    <3>2. pc[t] = "request" /\ UNCHANGED <<table, written>>
      BY <2>2 DEF RequestCredentials, secretVars
    <3>3. CASE Throw(t)
      BY <3>3 DEF Throw, Goto, Own
    <3>4. CASE /\ credentials' = [credentials EXCEPT ![t] = a]
               /\ received' = [received EXCEPT ![t][table[t]] = a]
               /\ Goto(t, "create") /\ UNCHANGED bound
      BY <2>0, <3>2, <3>4 DEF Goto, Own, HasOwn
    <3> QED
      BY <3>1, <3>3, <3>4
  <2>3. ASSUME CreateSecret(t) PROVE Own(t)'
    <3>1. [scope |-> Scope(table[t]), credentials |-> credentials[t]] # NoSecret
      BY LocationAssumption, NoSecretAssumption DEF Scope, Secrets
    <3>2. HasOwn(t, table[t])'
      BY <2>0, <2>3, <3>1 DEF CreateSecret, SecretName, Own, HasOwn
    <3>3. ASSUME NEW x \in Tables \ {table[t]}, HasOwn(t, x) PROVE HasOwn(t, x)'
      BY <2>3, <3>3 DEF CreateSecret, SecretName, HasOwn
    <3> QED
      BY <2>0, <2>3, <3>2, <3>3 DEF CreateSecret, Goto, Own
  <2>4. ASSUME RefuseSecret(t) \/ BindThrows(t) PROVE Own(t)'
    BY <2>4 DEF RefuseSecret, BindThrows, Goto, Throw, Own
  <2>5. ASSUME Bind(t) PROVE Own(t)'
    BY <2>0, <2>5 DEF Bind, Goto, Own, HasOwn, secretVars
  <2>6. ASSUME Commit(t) \/ Rollback(t) PROVE Own(t)'
    BY <2>6 DEF Commit, Rollback, End, Own, callVars
  <2> QED
    BY <1>2, <2>1, <2>2, <2>3, <2>4, <2>5, <2>6 DEF Step
<1>3. ASSUME NEW t \in Threads, Step(t), NEW u \in Threads \ {t} PROVE Own(u)'
  BY <1>3, OthersStay DEF OwnOK
<1> QED
  BY <1>1, <1>2, <1>3 DEF Next, OwnOK

\* Every reader of a table gets exactly the credentials that its transaction's
\* last request for this table was answered with, whatever the other
\* connections do and however the locations of the tables contain each other.
THEOREM OwnCredentials == Spec => []ReadersUseOwnCredentials
<1>1. Init => OwnInv
  BY TypeInit, OwnInit DEF OwnInv
<1>2. OwnInv /\ [Next]_vars => OwnInv'
  BY TypeStep, ScopesStep, OwnStep DEF OwnInv
<1> QED
  BY <1>1, <1>2, OwnSuffices, PTL DEF Spec
-----------------------------------------------------------------------------
(* Secrets belong to their tables.                                         *)

Belongs(s, x) ==
    s # NoSecret => /\ x \in Remote \ OtherFormats
                    /\ s.scope = Location[x]
                    /\ s.credentials.table = x

\* What a call will store belongs to its table before it is stored.
BelongInv ==
    /\ \A x \in Tables : /\ Belongs(secrets[x], x)
                         /\ \A t \in Threads : Belongs(written[t][x], x)
    /\ \A t \in Threads :
          /\ pc[t] \in {"request", "create"} => table[t] \in Remote \ OtherFormats
          /\ pc[t] = "create" => credentials[t].table = table[t]

LEMMA BelongStep == TypeOK /\ BelongInv /\ [Next]_vars => BelongInv'
<1> SUFFICES ASSUME TypeOK, BelongInv, [Next]_vars PROVE BelongInv'
  OBVIOUS
<1> USE DEF BelongInv
<1>1. CASE UNCHANGED vars
  BY <1>1 DEF vars, secretVars, callVars
<1>2. ASSUME NEW t \in Threads, NEW x \in Tables, GetScanFunction(t, x) PROVE BelongInv'
  <2>1. /\ UNCHANGED <<secrets, written, credentials>>
        /\ table' = [table EXCEPT ![t] = x]
        /\ \/ pc' = [pc EXCEPT ![t] = "request"] /\ x \in Remote \ OtherFormats
           \/ \E place \in {"idle", "bind"} : pc' = [pc EXCEPT ![t] = place]
    BY <1>2 DEF GetScanFunction, Throw, Goto, secretVars
  <2>2. \A u \in Threads \ {t} : pc'[u] = pc[u] /\ table'[u] = table[u]
    BY <2>1 DEF TypeOK
  <2>3. pc'[t] # "create" /\ (pc'[t] = "request" => table'[t] \in Remote \ OtherFormats)
    BY <2>1 DEF TypeOK
  <2> QED
    BY <2>1, <2>2, <2>3
<1>3. ASSUME NEW t \in Threads, NEW reply \in Replies, RequestCredentials(t, reply)
      PROVE  BelongInv'
  <2> DEFINE x == table[t]
             a == GetTableCredentials(reply, [table |-> x, number |-> issued'], Empty(x))
  <2>1. a.table = x
    BY DEF GetTableCredentials, Empty
  <2> HIDE DEF a
  <2>2. /\ UNCHANGED <<secrets, written, table>> /\ pc[t] = "request"
        /\ \/ pc' = [pc EXCEPT ![t] = "idle"] /\ UNCHANGED credentials
           \/ pc' = [pc EXCEPT ![t] = "create"] /\ credentials' = [credentials EXCEPT ![t] = a]
    BY <1>3 DEF RequestCredentials, Throw, Goto, secretVars, a
  <2>3. \A u \in Threads \ {t} : pc'[u] = pc[u] /\ credentials'[u] = credentials[u]
    BY <2>2 DEF TypeOK
  <2>4. pc'[t] # "request" /\ (pc'[t] = "create" => credentials'[t].table = x)
    BY <2>1, <2>2 DEF TypeOK
  <2> QED
    BY <2>2, <2>3, <2>4
<1>4. ASSUME NEW t \in Threads, CreateSecret(t) PROVE BelongInv'
  <2> DEFINE x == table[t]
             info == [scope |-> Location[x], credentials |-> credentials[t]]
  <2>1. /\ UNCHANGED <<secrets, table, credentials>> /\ pc[t] = "create"
        /\ pc' = [pc EXCEPT ![t] = "bind"]
        /\ written' = [written EXCEPT ![t][x] = info]
    BY <1>4 DEF CreateSecret, Goto, SecretName, Scope
  <2>2. Belongs(info, x)
    BY <2>1 DEF Belongs
  <2>3. \A u \in Threads, y \in Tables : Belongs(written'[u][y], y)
    BY <2>1, <2>2 DEF TypeOK
  <2>4. \A u \in Threads : pc'[u] \in {pc[u], "bind"}
    BY <2>1 DEF TypeOK
  <2> QED
    BY <2>1, <2>3, <2>4
<1>5. ASSUME NEW t \in Threads, RefuseSecret(t) \/ Bind(t) \/ BindThrows(t) PROVE BelongInv'
  <2>1. UNCHANGED <<secrets, written, table, credentials>> /\ pc' = [pc EXCEPT ![t] = "idle"]
    BY <1>5 DEF RefuseSecret, Bind, BindThrows, Throw, Goto, secretVars
  <2>2. \A u \in Threads : pc'[u] \in {pc[u], "idle"}
    BY <2>1 DEF TypeOK
  <2> QED
    BY <2>1, <2>2
<1>6. ASSUME NEW t \in Threads, Commit(t) \/ Rollback(t) PROVE BelongInv'
  <2>1. UNCHANGED <<pc, table, credentials>> /\ written' = [written EXCEPT ![t] = NoneWritten]
    BY <1>6 DEF Commit, Rollback, End, callVars
  <2>2. \A x \in Tables : Belongs(secrets'[x], x)
    BY <1>6 DEF Commit, Rollback, Visible
  <2>3. \A u \in Threads, x \in Tables : Belongs(written'[u][x], x)
    BY <2>1 DEF NoneWritten, Belongs, TypeOK
  <2> QED
    BY <2>1, <2>2, <2>3
<1> QED
  BY <1>1, <1>2, <1>3, <1>4, <1>5, <1>6 DEF Next, Step

\* Under the name of a table every transaction sees only credentials that were
\* given for this table, scoped to its location, whoever stored them and
\* whichever requests failed.
THEOREM SecretsBelongAlways == Spec => []SecretsBelong
<1>1. Init => TypeOK /\ BelongInv
  BY TypeInit DEF Init, BelongInv, Belongs, NoneWritten
<1>2. TypeOK /\ BelongInv /\ [Next]_vars => (TypeOK /\ BelongInv)'
  BY TypeStep, BelongStep
<1>3. BelongInv => SecretsBelong
  BY DEF BelongInv, Belongs, SecretsBelong, Visible
<1> QED
  BY <1>1, <1>2, <1>3, PTL DEF Spec
=============================================================================
