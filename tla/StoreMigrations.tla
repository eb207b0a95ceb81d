--------------------------- MODULE StoreMigrations ---------------------------
(***************************************************************************)
(* How the client opens its database (store.rs): the migrations from the   *)
(* version in user_version to the newest run statement by statement, each  *)
(* durable on its own, and the version is written after the last statement *)
(* of a migration.  The client may die anywhere and is started again.      *)
(***************************************************************************)
EXTENDS Integers, Sequences

CONSTANTS
  Migrations,  \* per migration the tables, indexes and columns it creates, in order
  MaxCrashes   \* bound of the model

ASSUME MigrationsAssumption == MaxCrashes \in Nat /\ Len(Migrations) \in Nat

VARIABLES
  process,     \* the client process
  version,     \* PRAGMA user_version
  schema,      \* what the database file contains
  statement,   \* the statement of the running migration that is next
  crashes      \* counts the crashes, for the bound

storeVars == <<process, version, schema, statement, crashes>>

Newest == Len(Migrations)
Created(v) == UNION {{Migrations[k][i] : i \in DOMAIN Migrations[k]} : k \in 1..v}

\* A fresh install, or the database of any earlier release.
StoreInit ==
  /\ process = "off"
  /\ version \in 0..Newest /\ schema = Created(version)
  /\ statement = 1 /\ crashes = 0

StartProcess ==
  /\ process = "off"
  /\ process' = "migrating" /\ statement' = 1
  /\ UNCHANGED <<version, schema, crashes>>

(* A definition whose name begins with Mutant is the next one with a plausible
   bug.  No specification uses it: it shows which property the bug breaks.     *)

\* A column that is already there is added again, which is an error.
MutantSucceeds(object) == object \notin schema

\* IF NOT EXISTS, and for the column the question whether it is there.
Succeeds(object) == TRUE

\* An error ends the setup, and with it the client.
RunStatement ==
  LET object == Migrations[version + 1][statement] IN
    /\ process = "migrating" /\ version < Newest
    /\ statement <= Len(Migrations[version + 1])
    /\ IF Succeeds(object)
         THEN /\ schema' = schema \cup {object} /\ statement' = statement + 1
              /\ UNCHANGED process
         ELSE process' = "off" /\ UNCHANGED <<schema, statement>>
    /\ UNCHANGED <<version, crashes>>

BumpVersion ==
  /\ process = "migrating" /\ version < Newest
  /\ statement > Len(Migrations[version + 1])
  /\ version' = version + 1 /\ statement' = 1
  /\ UNCHANGED <<process, schema, crashes>>

OpenStore ==
  /\ process = "migrating" /\ version = Newest
  /\ process' = "up"
  /\ UNCHANGED <<version, schema, statement, crashes>>

StoreCrash ==
  /\ process # "off" /\ crashes < MaxCrashes
  /\ process' = "off" /\ crashes' = crashes + 1
  /\ UNCHANGED <<version, schema, statement>>

Migrate == StartProcess \/ RunStatement \/ BumpVersion

\* However often the client dies while it migrates, it opens its database in the end,
\* and then with the complete schema.
OpensWithSchema == process = "up" /\ version = Newest /\ schema = Created(Newest)
StoreOpens == process # "up" ~> OpensWithSchema
===============================================================================
