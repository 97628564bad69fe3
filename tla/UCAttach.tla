------------------------------ MODULE UCAttach ------------------------------
(***************************************************************************)
(* Where the credentials of an attached catalog come from                  *)
(* (src/uc_catalog_extension.cpp): secrets of type uc, the choice of one   *)
(* at ATTACH, and the copy of its values that the new UCCatalog keeps.     *)
(*                                                                         *)
(* The secret manager and the list of attached databases belong to DuckDB. *)
(* A secret is found by its name and the storage it is in.  The two        *)
(* lookups of one ATTACH are made with one transaction of the system       *)
(* catalog, hence see one state of the secrets.                            *)
(***************************************************************************)
EXTENDS Naturals, Sequences

CONSTANTS
    Aliases,       \* names catalogs are attached under
    SecretNames,   \* names of secrets
    DefaultSecret, \* "__default_uc", the secret created without a name
    NoName,        \* the empty name
    NoSecret,      \* no secret under a name
    Shapes,        \* the sets of parameters secrets are created with
    NullText       \* the text of a NULL value

\* The named parameters of a secret of type uc.
Parameters == {"token", "endpoint", "aws_region"}
Storages == {"memory", "local_file"}

\* Values are told apart by the secret they were given to: v stands for what
\* the v-th secret was created with, an endpoint without its trailing slashes.
\* 0 is a value that was not given, and the empty text in credentials.
Secrets == [Parameters -> Nat]
Credentials == [Parameters -> Nat \cup {NullText}]

ASSUME NamesAssumption == DefaultSecret \in SecretNames /\ NoName \notin SecretNames
ASSUME ShapesAssumption == Shapes \subseteq SUBSET Parameters
ASSUME ValuesAssumption == NullText \notin Nat /\ NoSecret \notin Secrets

VARIABLES
    secrets,  \* secrets[storage][name]
    created,  \* number of secrets created so far
    catalogs, \* the UCCatalog objects in the order of their ATTACH: their
              \* credentials and, as history, the secret ATTACH found
    attached  \* attached[a]: number of the catalog attached as a, 0 for none

attachVars == <<secrets, created, catalogs, attached>>

AttachInit ==
    /\ secrets = [storage \in Storages |-> [name \in SecretNames |-> NoSecret]]
    /\ created = 0
    /\ catalogs = <<>>
    /\ attached = [a \in Aliases |-> 0]
-----------------------------------------------------------------------------
\* The KeyValueSecret made of the parameters given.  The binder of CREATE
\* SECRET lets no other parameters through.
CreateUCSecretFunction(given) ==
    [p \in Parameters |-> IF p \in given THEN created + 1 ELSE 0]

\* CREATE OR REPLACE [PERSISTENT] SECRET name (TYPE UC, ...)
CreateSecret(storage, name, given) ==
    /\ created' = created + 1
    /\ secrets' = [secrets EXCEPT ![storage][name] = CreateUCSecretFunction(given)]
    /\ UNCHANGED <<catalogs, attached>>

DropSecret(storage, name) ==
    /\ secrets[storage][name] # NoSecret
    /\ secrets' = [secrets EXCEPT ![storage][name] = NoSecret]
    /\ UNCHANGED <<created, catalogs, attached>>

PatchedSecret(name) == \* mutant: what the first secret lacks is taken from the second
    LET first == secrets["memory"][name]
        second == secrets["local_file"][name]
    IN  IF first = NoSecret \/ second = NoSecret
        THEN IF first = NoSecret THEN second ELSE first
        ELSE [p \in Parameters |-> IF first[p] = 0 THEN second[p] ELSE first[p]]

\* A temporary secret hides a persistent one of the same name.
GetSecret(name) ==
    IF secrets["memory"][name] # NoSecret
    THEN secrets["memory"][name]
    ELSE secrets["local_file"][name]

\* Value::ToString
TextOf(value) == IF value = 0 THEN NullText ELSE value

OrEmpty(value) == IF value = 0 THEN 0 ELSE TextOf(value)

\* The region is tested by the endpoint: a secret without an endpoint loses its
\* region, one with an endpoint and no region gets the text of NULL.
CredentialsOf(secret) ==
    [token |-> OrEmpty(secret["token"]),
     endpoint |-> OrEmpty(secret["endpoint"]),
     aws_region |-> IF secret["endpoint"] = 0 THEN 0 ELSE TextOf(secret["aws_region"])]

NoCredentials == [p \in Parameters |-> 0]

\* ATTACH ... (TYPE UC_CATALOG, <options>): the options after TYPE, and the
\* text given to SECRET.  An empty text counts as none.
Recognized == {"type", "read_only", "secret"}
Explicit(options, text) == "secret" \in options /\ text # NoName
SecretName(options, text) == IF Explicit(options, text) THEN text ELSE DefaultSecret

AttachThrows(options, text) ==
    \/ ~(options \subseteq Recognized)
    \/ Explicit(options, text) /\ GetSecret(text) = NoSecret

\* A new catalog object, with sets and a transaction manager of its own.
UCCatalogAttach(a, options, text) ==
    LET secret == GetSecret(SecretName(options, text)) IN
    /\ attached[a] = 0
    /\ ~AttachThrows(options, text)
    /\ catalogs' = Append(catalogs,
           [credentials |-> IF secret = NoSecret THEN NoCredentials ELSE CredentialsOf(secret),
            secret |-> secret])
    /\ attached' = [attached EXCEPT ![a] = Len(catalogs')]
    /\ UNCHANGED <<secrets, created>>

\* DETACH: statements that use the catalog already keep it alive.
Detach(a) ==
    /\ attached[a] # 0
    /\ attached' = [attached EXCEPT ![a] = 0]
    /\ UNCHANGED <<secrets, created, catalogs>>

ChangeSecrets ==
    \E storage \in Storages, name \in SecretNames :
        \/ \E given \in Shapes : CreateSecret(storage, name, given)
        \/ DropSecret(storage, name)
-----------------------------------------------------------------------------
(* Properties.                                                             *)

AttachTypeOK ==
    /\ secrets \in [Storages -> [SecretNames -> Secrets \cup {NoSecret}]]
    /\ created \in Nat
    /\ catalogs \in Seq([credentials: Credentials, secret: Secrets \cup {NoSecret}])
    /\ attached \in [Aliases -> 0..Len(catalogs)]

\* Everything a catalog sends to the server comes from one secret, whatever is
\* created, replaced, hidden or dropped before and after its ATTACH: the
\* credentials are the values that secret was created with, never a mixture of
\* two, and empty where it gives none.  The one exception is the region of a
\* secret that does not give both an endpoint and a region.
CredentialsOfOneSecret ==
    \A k \in DOMAIN catalogs :
        LET used == catalogs[k].credentials
            secret == catalogs[k].secret IN
        IF secret = NoSecret THEN used = NoCredentials
        ELSE \E v \in 1..created :
               /\ \A p \in Parameters : secret[p] \in {0, v}
               /\ \A p \in Parameters \ {"aws_region"} : used[p] = secret[p]
               /\ (secret["endpoint"] = 0 <=> secret["aws_region"] = 0)
                     => used["aws_region"] = secret["aws_region"]
               /\ used["aws_region"] \in {0, v, NullText}
=============================================================================
