------------------------------- MODULE UCAPI -------------------------------
(***************************************************************************)
(* What the REST client of the extension (src/uc_api.cpp) makes of an      *)
(* answer of the Unity Catalog server.  The text of an answer is reduced   *)
(* to the four kinds the client's control flow tells apart:                *)
(*                                                                         *)
(*   "listing"      a JSON document with the expected list, every item     *)
(*                  complete, or with the credentials asked for;           *)
(*   "malformed"    the same, but a field the client requires is missing;  *)
(*   "rejected"     any other body: an HTTP error document (the client     *)
(*                  never looks at the HTTP status), text that is not      *)
(*                  JSON, a document without the expected list or object;  *)
(*   "unreachable"  the transfer itself fails (curl_easy_perform).         *)
(*                                                                         *)
(* A listing is abstracted to the set of names it contains.                *)
(*                                                                         *)
(* Assumed of the server: a "name" of a schema, when there is one, is a    *)
(* JSON string.  Of any other value GetSchemas would make a string from a  *)
(* null pointer, which has no defined outcome.  Fields of tables and of    *)
(* credentials are checked, and one of another type throws like one that   *)
(* is missing.                                                             *)
(***************************************************************************)

CONSTANT NoName   \* the empty string, the name of a schema without a "name"

AllReplies == {"listing", "malformed", "rejected", "unreachable"}

\* GetRequest: only a failed transfer throws; every body is returned.
GetRequestThrows(reply) == reply = "unreachable"

\* GetTables: parses every table, with all its columns, before it returns;
\* one missing field makes the whole call throw.
GetTablesThrows(reply) == GetRequestThrows(reply) \/ reply = "malformed"

\* A body without a "tables" array yields no table and no error.
GetTables(reply, tables) == IF reply = "listing" THEN tables ELSE {}

\* GetSchemas: a missing "name" is not an error here, it leaves the name empty.
GetSchemasThrows(reply) == GetRequestThrows(reply)

GetSchemas(reply, schemas) ==
    IF reply = "rejected" THEN {}
    ELSE schemas \cup (IF reply = "malformed" THEN {NoName} ELSE {})

\* GetTableCredentials: an "aws_temp_credentials" object without one of its
\* three fields throws; without that object the credentials stay empty.
GetTableCredentialsThrows(reply) == GetRequestThrows(reply) \/ reply = "malformed"

GetTableCredentials(reply, issued, none) == IF reply = "listing" THEN issued ELSE none
=============================================================================
