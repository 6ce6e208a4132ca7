-------------------------- MODULE ContextDictionary --------------------------
(***************************************************************************)
(* The dictionary of the SDB lock server (sdb_lock_server.c): databases,   *)
(* schemas, tables and contexts, found or created by name when a client    *)
(* opens a table.  findCreateContext searches in one critical section of   *)
(* lockDictionary and creates what is missing in another; what it found in *)
(* the first it uses in the second.                                        *)
(*                                                                         *)
(* A structure is the number of its allocation.  An entry is a level, the  *)
(* structure whose hash table of this level holds it, and its name there.  *)
(* The table of contexts holds the default context too, under Empty.       *)
(***************************************************************************)
EXTENDS Integers

CONSTANTS
    Worker,   \* the threads that execute commands
    Database,
    Schema,
    Table,
    Value,    \* values of contexts
    Empty,    \* the value of the default context of a table
    None

ASSUME DictionaryAssumption ==
    /\ Empty \in Value
    /\ None \notin Nat

Name == [database : Database, schema : Schema, table : Table, value : Value]

VARIABLES
    server, \* the dictionary and its counters
    pc,     \* whether a worker is to create the context it searched
    name,   \* the name a worker was given last
    found,  \* what it found of this name in its search
    held    \* the context it got

vars == <<server, pc, name, found, held>>

(* The server, whose table of databases is the root.                       *)
Root == 0
Nothing == [database |-> None, schema |-> None, table |-> None]

Init ==
    /\ server = [entries |-> [e \in {} |-> None],
                 ids |-> [c \in {} |-> None],
                 allocated |-> 1,
                 nextContextId |-> 1]
    /\ pc = [w \in Worker |-> "idle"]
    /\ name = [w \in Worker |-> None]
    /\ found = [w \in Worker |-> Nothing]
    /\ held = [w \in Worker |-> None]

-----------------------------------------------------------------------------
(* The hash tables, in a state s of the server.                            *)

(* cfl_hash_insert                                                         *)
Inserted(f, key, x) == [k \in DOMAIN f \cup {key} |-> IF k = key THEN x ELSE f[k]]

(* getDatabase, getSchema, getTable, getContext; None has no tables.       *)
Child(s, level, parent, x) ==
    IF <<level, parent, x>> \in DOMAIN s.entries THEN s.entries[<<level, parent, x>>] ELSE None

(* databaseNew, schemaNew and the insertion.                               *)
NewNode(s, level, parent, x) ==
    [entries |-> Inserted(s.entries, <<level, parent, x>>, s.allocated),
     ids |-> s.ids,
     allocated |-> s.allocated + 1,
     nextContextId |-> s.nextContextId]

(* A faulty contextNew that gives an id twice.                             *)
SameIdAgain(s, table, value) ==
    [entries |-> Inserted(s.entries, <<"context", table, value>>, s.allocated),
     ids |-> Inserted(s.ids, s.allocated, s.nextContextId),
     allocated |-> s.allocated + 1,
     nextContextId |-> s.nextContextId]

(* contextNew and the insertion.                                           *)
NewContext(s, table, value) ==
    [entries |-> Inserted(s.entries, <<"context", table, value>>, s.allocated),
     ids |-> Inserted(s.ids, s.allocated, s.nextContextId),
     allocated |-> s.allocated + 1,
     nextContextId |-> s.nextContextId + 1]

(* tableNew, with the default context, and the insertion.                  *)
NewTable(s, schema, x) == NewContext(NewNode(s, "table", schema, x), s.allocated, Empty)

(* Faulty forms of getCreateDatabase, getCreateSchema and getCreateContext *)
(* that trust the search made in the other critical section.               *)
TrustedNode(s, level, parent, x) == NewNode(s, level, parent, x)
TrustedContext(s, table, value) == NewContext(s, table, value)

(* getCreateDatabase, getCreateSchema                                      *)
GetCreateNode(s, level, parent, x) ==
    IF Child(s, level, parent, x) = None THEN NewNode(s, level, parent, x) ELSE s

GetCreateTable(s, schema, x) ==
    IF Child(s, "table", schema, x) = None THEN NewTable(s, schema, x) ELSE s

GetCreateContext(s, table, value) ==
    IF Child(s, "context", table, value) = None THEN NewContext(s, table, value) ELSE s

-----------------------------------------------------------------------------
(* findCreateContext                                                       *)

(* Where a name leads, in a state s and from what a search found before.   *)
DatabaseOf(s, f, n) ==
    IF f.database = None THEN Child(s, "database", Root, n.database) ELSE f.database
SchemaOf(s, f, n) ==
    IF f.schema = None THEN Child(s, "schema", DatabaseOf(s, f, n), n.schema) ELSE f.schema
TableOf(s, f, n) ==
    IF f.table = None THEN Child(s, "table", SchemaOf(s, f, n), n.table) ELSE f.table
ContextOf(s, f, n) == Child(s, "context", TableOf(s, f, n), n.value)

(* The first critical section.                                             *)
Search(w, n) ==
    LET context == ContextOf(server, Nothing, n) IN
    /\ pc[w] = "idle"
    /\ name' = [name EXCEPT ![w] = n]
    /\ found' = [found EXCEPT ![w] = [database |-> DatabaseOf(server, Nothing, n),
                                      schema |-> SchemaOf(server, Nothing, n),
                                      table |-> TableOf(server, Nothing, n)]]
    /\ held' = [held EXCEPT ![w] = context]
    /\ pc' = [pc EXCEPT ![w] = IF context = None THEN "missing" ELSE "idle"]
    /\ UNCHANGED server

(* The second searches again each level that was missing.                  *)
WithDatabase(s, f, n) ==
    IF f.database = None THEN GetCreateNode(s, "database", Root, n.database) ELSE s
WithSchema(s, f, n) ==
    IF f.schema = None THEN GetCreateNode(s, "schema", DatabaseOf(s, f, n), n.schema) ELSE s
WithTable(s, f, n) ==
    IF f.table = None THEN GetCreateTable(s, SchemaOf(s, f, n), n.table) ELSE s
WithContext(s, f, n) == GetCreateContext(s, TableOf(s, f, n), n.value)

Create(w) ==
    LET f == found[w]
        n == name[w]
        known == WithTable(WithSchema(WithDatabase(server, f, n), f, n), f, n)
    IN  /\ pc[w] = "missing"
        /\ server' = WithContext(known, f, n)
        /\ held' = [held EXCEPT ![w] = ContextOf(server', f, n)]
        /\ pc' = [pc EXCEPT ![w] = "idle"]
        /\ UNCHANGED <<name, found>>

Next == \E w \in Worker : Create(w) \/ \E n \in Name : Search(w, n)

Spec == Init /\ [][Next]_vars

-----------------------------------------------------------------------------
(* Properties.                                                             *)

Structure == 1..(server.allocated - 1)
Level == {"database", "schema", "table", "context"}
Key == Level \X (Structure \cup {Root}) \X (Database \cup Schema \cup Table \cup Value)

TypeOK ==
    /\ server.allocated \in Nat
    /\ server.nextContextId \in Nat
    /\ DOMAIN server.entries \subseteq Key
    /\ server.entries \in [DOMAIN server.entries -> Structure]
    /\ server.ids \in [DOMAIN server.ids -> 1..(server.nextContextId - 1)]
    /\ DOMAIN server.ids \subseteq Structure
    /\ pc \in [Worker -> {"idle", "missing"}]
    /\ name \in [Worker -> Name \cup {None}]
    /\ held \in [Worker -> Structure \cup {None}]
    /\ found \in [Worker -> [database : Structure \cup {None},
                             schema : Structure \cup {None},
                             table : Structure \cup {None}]]

(* A worker that got a context holds the one its name leads to: no search  *)
(* that is out of date makes a second structure for a database, a schema,  *)
(* a table or a context that another worker has made in between.           *)
HeldIsListed ==
    \A w \in Worker : held[w] # None => held[w] = ContextOf(server, Nothing, name[w])

Listed == {n \in Name : ContextOf(server, Nothing, n) # None}

Registry == INSTANCE ContextRegistry WITH
    registry <- [n \in Listed |-> server.ids[ContextOf(server, Nothing, n)]],
    given <- [w \in Worker |-> IF held[w] = None THEN None ELSE server.ids[held[w]]]

(* The two critical sections together are as good as one: a name is        *)
(* registered once, with an id that no other context has and that never    *)
(* changes, and everyone who asks for it is given this id.                 *)
RefinesRegistry == Registry!Spec
=============================================================================
