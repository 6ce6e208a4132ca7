----------------------- MODULE ContextDictionaryProofs -----------------------
(***************************************************************************)
(* Proofs about ContextDictionary.  The lemmas are about an arbitrary      *)
(* state s of the server; an operation on it keeps it a dictionary (DictOK) *)
(* and keeps every entry it has (Extends).                                 *)
(***************************************************************************)
EXTENDS ContextDictionary, TLAPS

AnyName == Database \cup Schema \cup Table \cup Value
NodesOf(s) == 1..(s.allocated - 1)

DictOK(s) ==
    /\ s.allocated \in Nat \ {0}
    /\ s.nextContextId \in Nat \ {0}
    /\ DOMAIN s.entries \subseteq Level \X (NodesOf(s) \cup {Root}) \X AnyName
    /\ s.entries \in [DOMAIN s.entries -> NodesOf(s)]
    /\ s.ids \in [DOMAIN s.ids -> 1..(s.nextContextId - 1)]
    /\ DOMAIN s.ids \subseteq NodesOf(s)

Extends(s, t) ==
    /\ DOMAIN s.entries \subseteq DOMAIN t.entries
    /\ \A k \in DOMAIN s.entries : t.entries[k] = s.entries[k]
    /\ NodesOf(s) \subseteq NodesOf(t)

LEMMA ExtendsItself == ASSUME NEW s PROVE Extends(s, s)
  BY DEF Extends

LEMMA ExtendsTwice ==
    ASSUME NEW s, NEW t, NEW u, Extends(s, t), Extends(t, u)
    PROVE  Extends(s, u)
  BY DEF Extends

(* A child is a structure, and only structures have children.              *)
LEMMA ChildType ==
    ASSUME NEW s, DictOK(s), NEW level, NEW parent, NEW x
    PROVE  /\ Child(s, level, parent, x) \in NodesOf(s) \cup {None}
           /\ Child(s, level, parent, x) # None => parent \in NodesOf(s) \cup {Root}
           /\ Child(s, level, parent, x) # None =>
                 <<level, parent, x>> \in DOMAIN s.entries
  BY DEF Child, DictOK

LEMMA NotNone ==
    ASSUME NEW s, NEW node \in NodesOf(s), s.allocated \in Nat \ {0}
    PROVE  node # None
  BY DictionaryAssumption DEF NodesOf

LEMMA HasParent ==
    ASSUME NEW s, DictOK(s)
    PROVE  \A level, parent, x : Child(s, level, parent, x) # None => parent # None
  <1>1. None \notin NodesOf(s) \cup {Root}
    BY DictionaryAssumption DEF DictOK, NodesOf, Root
  <1> SUFFICES ASSUME NEW level, NEW parent, NEW x, Child(s, level, parent, x) # None
               PROVE  parent # None
    OBVIOUS
  <1>2. parent \in NodesOf(s) \cup {Root}
    BY ChildType
  <1> QED
    BY <1>1, <1>2

LEMMA ChildKept ==
    ASSUME NEW s, NEW t, Extends(s, t), NEW level, NEW parent, NEW x,
           Child(s, level, parent, x) # None
    PROVE  Child(t, level, parent, x) = Child(s, level, parent, x)
  BY DEF Child, Extends

-----------------------------------------------------------------------------
(* Insertions.                                                             *)

(* A dictionary with one more structure and its entry; ids may have grown. *)
LEMMA OneMore ==
    ASSUME NEW s, DictOK(s), NEW t,
           NEW level \in Level, NEW parent \in NodesOf(s) \cup {Root}, NEW x \in AnyName,
           Child(s, level, parent, x) = None,
           t.entries = Inserted(s.entries, <<level, parent, x>>, s.allocated),
           t.allocated = s.allocated + 1,
           t.nextContextId \in Nat \ {0},
           t.ids \in [DOMAIN t.ids -> 1..(t.nextContextId - 1)],
           DOMAIN t.ids \subseteq NodesOf(s) \cup {s.allocated}
    PROVE  /\ DictOK(t)
           /\ Extends(s, t)
           /\ Child(t, level, parent, x) = s.allocated
           /\ s.allocated \in NodesOf(t)
  <1> DEFINE key == <<level, parent, x>>
  <1>1. /\ t.entries = Inserted(s.entries, key, s.allocated)
        /\ t.allocated = s.allocated + 1
        /\ s.allocated \in Nat \ {0}
    BY DEF DictOK
  <1>2. NodesOf(t) = NodesOf(s) \cup {s.allocated}
    BY <1>1 DEF NodesOf
  <1>3. key \notin DOMAIN s.entries
    BY DictionaryAssumption DEF Child, DictOK, NodesOf
  <1>4. /\ DOMAIN t.entries = DOMAIN s.entries \cup {key}
        /\ t.entries[key] = s.allocated
        /\ \A k \in DOMAIN s.entries : t.entries[k] = s.entries[k]
    BY <1>1, <1>3 DEF Inserted
  <1>5. t.entries \in [DOMAIN t.entries -> NodesOf(t)]
    <2>1. \A k \in DOMAIN s.entries : s.entries[k] \in NodesOf(s)
      BY DEF DictOK
    <2>2. \A k \in DOMAIN t.entries : t.entries[k] \in NodesOf(t)
      BY <2>1, <1>2, <1>4
    <2>3. t.entries = [k \in DOMAIN t.entries |-> t.entries[k]]
      BY <1>1 DEF Inserted
    <2> QED
      BY <2>2, <2>3
  <1>6. DOMAIN t.entries \subseteq Level \X (NodesOf(t) \cup {Root}) \X AnyName
    BY <1>2, <1>4 DEF DictOK
  <1>7. DictOK(t)
    <2>1. t.allocated \in Nat \ {0} /\ DOMAIN t.ids \subseteq NodesOf(t)
      BY <1>1, <1>2
    <2> QED
      BY <2>1, <1>5, <1>6 DEF DictOK
  <1>8. Extends(s, t)
    BY <1>2, <1>4 DEF Extends
  <1> QED
    BY <1>2, <1>4, <1>7, <1>8 DEF Child

LEMMA NewNodeOK ==
    ASSUME NEW s, DictOK(s),
           NEW level \in Level, NEW parent \in NodesOf(s) \cup {Root}, NEW x \in AnyName,
           Child(s, level, parent, x) = None
    PROVE  LET t == NewNode(s, level, parent, x)
           IN  /\ DictOK(t)
               /\ Extends(s, t)
               /\ Child(t, level, parent, x) = s.allocated
               /\ s.allocated \in NodesOf(t)
  <1> DEFINE t == NewNode(s, level, parent, x)
  <1>1. /\ t.entries = Inserted(s.entries, <<level, parent, x>>, s.allocated)
        /\ t.allocated = s.allocated + 1
        /\ t.ids = s.ids
        /\ t.nextContextId = s.nextContextId
    BY DEF NewNode
  <1> HIDE DEF t
  <1>3. /\ DictOK(t)
        /\ Extends(s, t)
        /\ Child(t, level, parent, x) = s.allocated
        /\ s.allocated \in NodesOf(t)
    <2>1. /\ t.nextContextId \in Nat \ {0}
          /\ t.ids \in [DOMAIN t.ids -> 1..(t.nextContextId - 1)]
          /\ DOMAIN t.ids \subseteq NodesOf(s) \cup {s.allocated}
      BY <1>1 DEF DictOK
    <2> QED
      BY <1>1, <2>1, OneMore
  <1> QED
    BY <1>3 DEF t

LEMMA NewContextOK ==
    ASSUME NEW s, DictOK(s), NEW table \in NodesOf(s), NEW value \in Value,
           Child(s, "context", table, value) = None
    PROVE  LET t == NewContext(s, table, value)
           IN  /\ DictOK(t)
               /\ Extends(s, t)
               /\ Child(t, "context", table, value) \in NodesOf(t)
  <1> DEFINE t == NewContext(s, table, value)
  <1>1. /\ t.entries = Inserted(s.entries, <<"context", table, value>>, s.allocated)
        /\ t.allocated = s.allocated + 1
    BY DEF NewContext
  <1>2. /\ t.ids = Inserted(s.ids, s.allocated, s.nextContextId)
        /\ t.nextContextId = s.nextContextId + 1
    BY DEF NewContext
  <1> HIDE DEF t
  <1>3. /\ s.nextContextId \in Nat \ {0}
        /\ \A c \in DOMAIN s.ids : s.ids[c] \in 1..(s.nextContextId - 1)
        /\ DOMAIN s.ids \subseteq NodesOf(s)
    BY DEF DictOK
  <1>4. /\ t.nextContextId \in Nat \ {0}
        /\ \A c \in DOMAIN t.ids : t.ids[c] \in 1..(t.nextContextId - 1)
        /\ DOMAIN t.ids = DOMAIN s.ids \cup {s.allocated}
    BY <1>2, <1>3 DEF Inserted
  <1>5. t.ids \in [DOMAIN t.ids -> 1..(t.nextContextId - 1)]
    <2>1. t.ids = [c \in DOMAIN t.ids |-> t.ids[c]]
      BY <1>2 DEF Inserted
    <2> QED
      BY <1>4, <2>1
  <1>6. value \in AnyName /\ "context" \in Level
    BY DEF AnyName, Level
  <1>7. /\ DictOK(t)
        /\ Extends(s, t)
        /\ Child(t, "context", table, value) = s.allocated
        /\ s.allocated \in NodesOf(t)
    <2>1. DOMAIN t.ids \subseteq NodesOf(s) \cup {s.allocated}
      BY <1>3, <1>4
    <2> QED
      BY <2>1, <1>1, <1>4, <1>5, <1>6, OneMore
  <1> QED
    BY <1>7 DEF t

-----------------------------------------------------------------------------
(* The levels of findCreateContext, one after the other.                   *)

(* What a search found is still what the name leads to.                    *)
Consistent(s, f, n) ==
    /\ f.database # None => f.database = Child(s, "database", Root, n.database)
    /\ f.schema # None => /\ f.database # None
                          /\ f.schema = Child(s, "schema", f.database, n.schema)
    /\ f.table # None => /\ f.schema # None
                         /\ f.table = Child(s, "table", f.schema, n.table)

LEMMA ConsistentKept ==
    ASSUME NEW s, NEW t, Extends(s, t), NEW f, NEW n, Consistent(s, f, n)
    PROVE  Consistent(t, f, n)
  BY ChildKept DEF Consistent

(* It leads where a new search would.                                      *)
LEMMA SamePath ==
    ASSUME NEW s, NEW f, NEW n, Consistent(s, f, n)
    PROVE  /\ DatabaseOf(s, f, n) = DatabaseOf(s, Nothing, n)
           /\ SchemaOf(s, f, n) = SchemaOf(s, Nothing, n)
           /\ TableOf(s, f, n) = TableOf(s, Nothing, n)
           /\ ContextOf(s, f, n) = ContextOf(s, Nothing, n)
  <1>1. Nothing.database = None /\ Nothing.schema = None /\ Nothing.table = None
    BY DEF Nothing
  <1>2. DatabaseOf(s, f, n) = DatabaseOf(s, Nothing, n)
    BY <1>1 DEF Consistent, DatabaseOf
  <1>3. SchemaOf(s, f, n) = SchemaOf(s, Nothing, n)
    BY <1>1, <1>2 DEF Consistent, SchemaOf, DatabaseOf
  <1>4. TableOf(s, f, n) = TableOf(s, Nothing, n)
    BY <1>1, <1>3 DEF Consistent, TableOf, SchemaOf
  <1> QED
    BY <1>2, <1>3, <1>4 DEF ContextOf

LEMMA NameParts ==
    ASSUME NEW n \in Name
    PROVE  /\ {n.database, n.schema, n.table, n.value} \subseteq AnyName
           /\ n.value \in Value
  BY DEF Name, AnyName

LEMMA GetCreateNodeOK ==
    ASSUME NEW s, DictOK(s),
           NEW level \in {"database", "schema"}, NEW parent \in NodesOf(s) \cup {Root},
           NEW x \in AnyName
    PROVE  LET t == GetCreateNode(s, level, parent, x)
           IN  DictOK(t) /\ Extends(s, t) /\ Child(t, level, parent, x) \in NodesOf(t)
  <1>1. CASE Child(s, level, parent, x) = None
    BY <1>1, NewNodeOK DEF GetCreateNode, Level
  <1>2. CASE Child(s, level, parent, x) # None
    BY <1>2, ChildType, ExtendsItself DEF GetCreateNode
  <1> QED
    BY <1>1, <1>2

LEMMA GetCreateTableOK ==
    ASSUME NEW s, DictOK(s), NEW schema \in NodesOf(s), NEW x \in AnyName
    PROVE  LET t == GetCreateTable(s, schema, x)
           IN  DictOK(t) /\ Extends(s, t) /\ Child(t, "table", schema, x) \in NodesOf(t)
  <1>1. CASE Child(s, "table", schema, x) = None
    <2> DEFINE u == NewNode(s, "table", schema, x)
    <2>1. /\ DictOK(u)
          /\ Extends(s, u)
          /\ Child(u, "table", schema, x) = s.allocated
          /\ s.allocated \in NodesOf(u)
      BY <1>1, NewNodeOK DEF Level
    <2> HIDE DEF u
    <2>2. Child(u, "context", s.allocated, Empty) = None
      <3>1. <<"context", s.allocated, Empty>> \notin DOMAIN u.entries
        <4>1. DOMAIN u.entries = DOMAIN s.entries \cup {<<"table", schema, x>>}
          BY DEF u, NewNode, Inserted
        <4>2. s.allocated \notin NodesOf(s) \cup {Root}
          BY DEF NodesOf, DictOK, Root
        <4>3. <<"context", s.allocated, Empty>> \notin DOMAIN s.entries
          BY <4>2 DEF DictOK
        <4> QED
          BY <4>1, <4>3
      <3> QED
        BY <3>1 DEF Child
    <2>3. DictOK(NewContext(u, s.allocated, Empty)) /\ Extends(u, NewContext(u, s.allocated, Empty))
      BY <2>1, <2>2, NewContextOK, DictionaryAssumption
    <2>4. GetCreateTable(s, schema, x) = NewContext(u, s.allocated, Empty)
      BY <1>1 DEF u, GetCreateTable, NewTable
    <2>5. s.allocated # None
      BY DictionaryAssumption DEF DictOK
    <2>6. Child(NewContext(u, s.allocated, Empty), "table", schema, x) = s.allocated
      BY <2>1, <2>3, <2>5, ChildKept
    <2>7. s.allocated \in NodesOf(NewContext(u, s.allocated, Empty))
      BY <2>1, <2>3 DEF Extends
    <2> QED
      BY <2>1, <2>3, <2>4, <2>6, <2>7, ExtendsTwice
  <1>2. CASE Child(s, "table", schema, x) # None
    BY <1>2, ChildType, ExtendsItself DEF GetCreateTable
  <1> QED
    BY <1>1, <1>2

LEMMA GetCreateContextOK ==
    ASSUME NEW s, DictOK(s), NEW table \in NodesOf(s), NEW value \in Value
    PROVE  LET t == GetCreateContext(s, table, value)
           IN  DictOK(t) /\ Extends(s, t) /\ Child(t, "context", table, value) \in NodesOf(t)
  <1>1. CASE Child(s, "context", table, value) = None
    BY <1>1, NewContextOK DEF GetCreateContext
  <1>2. CASE Child(s, "context", table, value) # None
    BY <1>2, ChildType, ExtendsItself DEF GetCreateContext
  <1> QED
    BY <1>1, <1>2

LEMMA WithDatabaseOK ==
    ASSUME NEW s, DictOK(s), NEW n \in Name, NEW f, Consistent(s, f, n)
    PROVE  LET t == WithDatabase(s, f, n)
           IN  DictOK(t) /\ Extends(s, t) /\ DatabaseOf(t, f, n) \in NodesOf(t)
  <1>1. CASE f.database = None
    <2>1. Root \in NodesOf(s) \cup {Root} /\ n.database \in AnyName
      BY NameParts
    <2> QED
      BY <1>1, <2>1, GetCreateNodeOK DEF WithDatabase, DatabaseOf
  <1>2. CASE f.database # None
    <2>1. WithDatabase(s, f, n) = s /\ DatabaseOf(s, f, n) = f.database
      BY <1>2 DEF WithDatabase, DatabaseOf
    <2>2. f.database = Child(s, "database", Root, n.database)
      BY <1>2 DEF Consistent
    <2>3. f.database \in NodesOf(s)
      <3>1. Child(s, "database", Root, n.database) \in NodesOf(s) \cup {None}
        BY ChildType
      <3> QED
        BY <1>2, <2>2, <3>1
    <2> QED
      BY <2>1, <2>3, ExtendsItself
  <1> QED
    BY <1>1, <1>2

LEMMA WithSchemaOK ==
    ASSUME NEW s, DictOK(s), NEW n \in Name, NEW f, Consistent(s, f, n),
           DatabaseOf(s, f, n) \in NodesOf(s)
    PROVE  LET t == WithSchema(s, f, n)
           IN  DictOK(t) /\ Extends(s, t) /\ SchemaOf(t, f, n) \in NodesOf(t)
  <1> DEFINE t == WithSchema(s, f, n)
             database == DatabaseOf(s, f, n)
  <1>1. CASE f.schema = None
    <2>1. t = GetCreateNode(s, "schema", database, n.schema)
      BY <1>1 DEF WithSchema
    <2>2. database \in NodesOf(s) \cup {Root} /\ n.schema \in AnyName
      BY NameParts
    <2> HIDE DEF database, t
    <2>3. DictOK(t) /\ Extends(s, t) /\ Child(t, "schema", database, n.schema) \in NodesOf(t)
      BY <2>1, <2>2, GetCreateNodeOK
    <2>4. DatabaseOf(t, f, n) = database
      <3>1. database # None
        BY NotNone DEF database, DictOK
      <3> QED
        BY <2>3, <3>1, ChildKept DEF DatabaseOf, database
    <2> QED
      BY <1>1, <2>3, <2>4 DEF SchemaOf, t
  <1>2. CASE f.schema # None
    <2>1. WithSchema(s, f, n) = s /\ SchemaOf(s, f, n) = f.schema
      BY <1>2 DEF WithSchema, SchemaOf
    <2>2. f.schema = Child(s, "schema", f.database, n.schema)
      BY <1>2 DEF Consistent
    <2>3. f.schema \in NodesOf(s)
      BY <1>2, <2>2, ChildType
    <2> QED
      BY <2>1, <2>3, ExtendsItself
  <1> QED
    BY <1>1, <1>2

LEMMA WithTableOK ==
    ASSUME NEW s, DictOK(s), NEW n \in Name, NEW f, Consistent(s, f, n),
           SchemaOf(s, f, n) \in NodesOf(s)
    PROVE  LET t == WithTable(s, f, n)
           IN  DictOK(t) /\ Extends(s, t) /\ TableOf(t, f, n) \in NodesOf(t)
  <1> DEFINE t == WithTable(s, f, n)
             schema == SchemaOf(s, f, n)
  <1>1. CASE f.table = None
    <2>1. t = GetCreateTable(s, schema, n.table)
      BY <1>1 DEF WithTable
    <2>2. schema \in NodesOf(s) /\ n.table \in AnyName
      BY NameParts
    <2> HIDE DEF schema, t
    <2>3. DictOK(t) /\ Extends(s, t) /\ Child(t, "table", schema, n.table) \in NodesOf(t)
      BY <2>1, <2>2, GetCreateTableOK
    <2>4. SchemaOf(t, f, n) = schema
      <3>1. schema # None
        BY NotNone DEF schema, DictOK
      <3>2. CASE f.schema # None
        BY <3>2 DEF SchemaOf, schema
      <3>3. CASE f.schema = None
        <4>1. Child(s, "schema", DatabaseOf(s, f, n), n.schema) # None
          BY <3>1, <3>3 DEF SchemaOf, schema
        <4>2. DatabaseOf(s, f, n) # None
          BY <4>1, HasParent
        <4>3. DatabaseOf(t, f, n) = DatabaseOf(s, f, n)
          BY <2>3, <4>2, ChildKept DEF DatabaseOf
        <4> QED
          BY <2>3, <3>3, <4>1, <4>3, ChildKept DEF SchemaOf, schema
      <3> QED
        BY <3>2, <3>3
    <2> QED
      BY <1>1, <2>3, <2>4 DEF TableOf, t
  <1>2. CASE f.table # None
    <2>1. WithTable(s, f, n) = s /\ TableOf(s, f, n) = f.table
      BY <1>2 DEF WithTable, TableOf
    <2>2. f.table = Child(s, "table", f.schema, n.table)
      BY <1>2 DEF Consistent
    <2>3. f.table \in NodesOf(s)
      BY <1>2, <2>2, ChildType
    <2> QED
      BY <2>1, <2>3, ExtendsItself
  <1> QED
    BY <1>1, <1>2

(* What a name leads to does not change while the dictionary grows.        *)
LEMMA PathKept ==
    ASSUME NEW s, DictOK(s), NEW t, Extends(s, t), NEW n, NEW f
    PROVE  /\ TableOf(s, f, n) # None => TableOf(t, f, n) = TableOf(s, f, n)
           /\ ContextOf(s, f, n) # None => ContextOf(t, f, n) = ContextOf(s, f, n)
  <1>1. DatabaseOf(s, f, n) # None => DatabaseOf(t, f, n) = DatabaseOf(s, f, n)
    BY ChildKept DEF DatabaseOf
  <1>2. \A level, parent, x : Child(s, level, parent, x) # None => parent # None
    BY HasParent
  <1>3. SchemaOf(s, f, n) # None => SchemaOf(t, f, n) = SchemaOf(s, f, n)
    BY <1>1, <1>2, ChildKept DEF SchemaOf
  <1>4. TableOf(s, f, n) # None => TableOf(t, f, n) = TableOf(s, f, n)
    BY <1>2, <1>3, ChildKept DEF TableOf
  <1>5. ContextOf(s, f, n) # None => ContextOf(t, f, n) = ContextOf(s, f, n)
    BY <1>2, <1>4, ChildKept DEF ContextOf
  <1> QED
    BY <1>4, <1>5

LEMMA PathType ==
    ASSUME NEW s, DictOK(s), NEW n
    PROVE  /\ DatabaseOf(s, Nothing, n) \in NodesOf(s) \cup {None}
           /\ SchemaOf(s, Nothing, n) \in NodesOf(s) \cup {None}
           /\ TableOf(s, Nothing, n) \in NodesOf(s) \cup {None}
           /\ ContextOf(s, Nothing, n) \in NodesOf(s) \cup {None}
  BY ChildType DEF DatabaseOf, SchemaOf, TableOf, ContextOf, Nothing

(* The second critical section: the name leads to a structure then.        *)
LEMMA CreateOK ==
    ASSUME NEW s, DictOK(s), NEW n \in Name, NEW f, Consistent(s, f, n)
    PROVE  LET t == WithTable(WithSchema(WithDatabase(s, f, n), f, n), f, n)
               u == WithContext(t, f, n)
           IN  /\ DictOK(u)
               /\ Extends(s, u)
               /\ ContextOf(u, f, n) \in NodesOf(u)
               /\ ContextOf(u, f, n) = ContextOf(u, Nothing, n)
  <1> DEFINE a == WithDatabase(s, f, n)
             b == WithSchema(a, f, n)
             t == WithTable(b, f, n)
             u == WithContext(t, f, n)
  <1>1. DictOK(a) /\ Extends(s, a) /\ DatabaseOf(a, f, n) \in NodesOf(a)
    BY WithDatabaseOK
  <1> HIDE DEF a
  <1>2. Consistent(a, f, n)
    BY <1>1, ConsistentKept
  <1>3. DictOK(b) /\ Extends(a, b) /\ SchemaOf(b, f, n) \in NodesOf(b)
    BY <1>1, <1>2, WithSchemaOK
  <1> HIDE DEF b
  <1>4. Consistent(b, f, n)
    BY <1>2, <1>3, ConsistentKept
  <1>5. DictOK(t) /\ Extends(b, t) /\ TableOf(t, f, n) \in NodesOf(t)
    BY <1>3, <1>4, WithTableOK
  <1> HIDE DEF t
  <1>6. Consistent(t, f, n)
    BY <1>4, <1>5, ConsistentKept
  <1>7. u = GetCreateContext(t, TableOf(t, f, n), n.value)
    BY DEF u, WithContext
  <1> HIDE DEF u
  <1>8. DictOK(u) /\ Extends(t, u) /\ Child(u, "context", TableOf(t, f, n), n.value) \in NodesOf(u)
    BY <1>5, <1>7, NameParts, GetCreateContextOK
  <1>9. TableOf(u, f, n) = TableOf(t, f, n)
    <2>1. TableOf(t, f, n) # None
      BY <1>5, NotNone DEF DictOK
    <2> QED
      BY <1>5, <1>8, <2>1, PathKept
  <1>10. ContextOf(u, f, n) \in NodesOf(u)
    BY <1>8, <1>9 DEF ContextOf
  <1>11. Consistent(u, f, n)
    BY <1>6, <1>8, ConsistentKept
  <1>12. Extends(s, u)
    BY <1>1, <1>3, <1>5, <1>8, ExtendsTwice
  <1> QED
    BY <1>8, <1>10, <1>11, <1>12, SamePath DEF u, t, b, a

-----------------------------------------------------------------------------
(* The invariant: the server is a dictionary, a search that is to create   *)
(* something is still right, and every context held is listed.             *)

WorkersOK ==
    /\ pc \in [Worker -> {"idle", "missing"}]
    /\ name \in [Worker -> Name \cup {None}]
    /\ held \in [Worker -> NodesOf(server) \cup {None}]
    /\ found \in [Worker -> [database : NodesOf(server) \cup {None},
                             schema : NodesOf(server) \cup {None},
                             table : NodesOf(server) \cup {None}]]

FoundIsListed ==
    \A w \in Worker : pc[w] = "missing" =>
        name[w] \in Name /\ Consistent(server, found[w], name[w])

Inv == DictOK(server) /\ WorkersOK /\ FoundIsListed /\ HeldIsListed

LEMMA InvInit == Init => Inv
  <1> SUFFICES ASSUME Init
               PROVE  Inv
    OBVIOUS
  <1>1. /\ server.allocated = 1
        /\ server.nextContextId = 1
        /\ server.entries = [e \in {} |-> None]
        /\ server.ids = [c \in {} |-> None]
    BY DEF Init
  <1>2. DictOK(server)
    BY <1>1 DEF DictOK, NodesOf
  <1>3. WorkersOK /\ FoundIsListed /\ HeldIsListed
    BY DEF Init, WorkersOK, FoundIsListed, HeldIsListed, Nothing
  <1> QED
    BY <1>2, <1>3 DEF Inv

LEMMA SearchStep ==
    ASSUME Inv, NEW w \in Worker, NEW n \in Name, Search(w, n)
    PROVE  Inv'
  <1> DEFINE f == [database |-> DatabaseOf(server, Nothing, n),
                   schema |-> SchemaOf(server, Nothing, n),
                   table |-> TableOf(server, Nothing, n)]
             context == ContextOf(server, Nothing, n)
  <1>1. /\ name' = [name EXCEPT ![w] = n]
        /\ found' = [found EXCEPT ![w] = f]
        /\ held' = [held EXCEPT ![w] = context]
        /\ pc' = [pc EXCEPT ![w] = IF context = None THEN "missing" ELSE "idle"]
        /\ server' = server
    BY DEF Search
  <1>2. /\ f \in [database : NodesOf(server) \cup {None},
                  schema : NodesOf(server) \cup {None},
                  table : NodesOf(server) \cup {None}]
        /\ context \in NodesOf(server) \cup {None}
    BY PathType DEF Inv
  <1>3. Consistent(server, f, n)
    <2>1. \A level, parent, x : Child(server, level, parent, x) # None => parent # None
      BY HasParent DEF Inv
    <2>2. /\ f.database = DatabaseOf(server, Nothing, n)
          /\ f.schema = SchemaOf(server, Nothing, n)
          /\ f.table = TableOf(server, Nothing, n)
      OBVIOUS
    <2> HIDE DEF f
    <2> QED
      BY <2>1, <2>2 DEF Consistent, DatabaseOf, SchemaOf, TableOf, Nothing
  <1> HIDE DEF f, context
  <1>4. DictOK(server')
    BY <1>1 DEF Inv
  <1>5. WorkersOK'
    BY <1>1, <1>2 DEF Inv, WorkersOK, NodesOf
  <1>6. FoundIsListed'
    BY <1>1, <1>3 DEF Inv, FoundIsListed, WorkersOK
  <1>7. HeldIsListed'
    BY <1>1 DEF Inv, HeldIsListed, WorkersOK, context
  <1> QED
    BY <1>4, <1>5, <1>6, <1>7 DEF Inv

LEMMA CreateStep ==
    ASSUME Inv, NEW w \in Worker, Create(w)
    PROVE  Inv'
  <1> DEFINE f == found[w]
             n == name[w]
             context == ContextOf(server', f, n)
  <1>1. /\ pc[w] = "missing"
        /\ server' = WithContext(WithTable(WithSchema(WithDatabase(server, f, n), f, n), f, n), f, n)
        /\ held' = [held EXCEPT ![w] = context]
        /\ pc' = [pc EXCEPT ![w] = "idle"]
        /\ UNCHANGED <<name, found>>
    BY DEF Create
  <1>2. /\ DictOK(server)
        /\ n \in Name
        /\ Consistent(server, f, n)
    BY <1>1 DEF Inv, FoundIsListed
  <1>3. PICK t : t = server'
    OBVIOUS
  <1>4. /\ DictOK(t)
        /\ Extends(server, t)
        /\ ContextOf(t, f, n) \in NodesOf(t)
        /\ ContextOf(t, f, n) = ContextOf(t, Nothing, n)
    BY <1>1, <1>2, <1>3, CreateOK
  <1>5. NodesOf(server) \subseteq NodesOf(t) /\ NodesOf(server') = NodesOf(t)
    BY <1>3, <1>4 DEF Extends
  <1>6. DictOK(server')
    BY <1>3, <1>4
  <1>7. WorkersOK'
    <2>1. held' \in [Worker -> NodesOf(t) \cup {None}]
      BY <1>1, <1>3, <1>4, <1>5 DEF Inv, WorkersOK
    <2>2. found' \in [Worker -> [database : NodesOf(t) \cup {None},
                                 schema : NodesOf(t) \cup {None},
                                 table : NodesOf(t) \cup {None}]]
      BY <1>1, <1>5 DEF Inv, WorkersOK
    <2> QED
      BY <1>1, <1>5, <2>1, <2>2 DEF Inv, WorkersOK
  <1>8. FoundIsListed'
    <2>1. ASSUME NEW v \in Worker, pc[v] = "missing"
          PROVE  name[v] \in Name /\ Consistent(t, found[v], name[v])
      BY <1>4, <2>1, ConsistentKept DEF Inv, FoundIsListed
    <2> QED
      BY <1>1, <1>3, <2>1 DEF Inv, FoundIsListed, WorkersOK
  <1>9. HeldIsListed'
    <2>1. ASSUME NEW v \in Worker, v # w, held[v] # None
          PROVE  held[v] = ContextOf(t, Nothing, name[v])
      BY <1>2, <1>4, <2>1, PathKept DEF Inv, HeldIsListed
    <2> QED
      BY <1>1, <1>3, <1>4, <2>1 DEF Inv, HeldIsListed, WorkersOK
  <1> QED
    BY <1>6, <1>7, <1>8, <1>9 DEF Inv

LEMMA InvHolds == Spec => []Inv
  <1>1. Inv /\ [Next]_vars => Inv'
    <2> SUFFICES ASSUME Inv, [Next]_vars
                 PROVE  Inv'
      OBVIOUS
    <2>1. CASE UNCHANGED vars
      BY <2>1 DEF vars, Inv, DictOK, WorkersOK, FoundIsListed, HeldIsListed, NodesOf
    <2> QED
      BY <2>1, SearchStep, CreateStep DEF Next
  <1> QED
    BY <1>1, InvInit, PTL DEF Spec

(* The dictionary has its type: every entry is a structure that was        *)
(* allocated, and every id one that was given.                             *)
THEOREM DictionaryTypeCorrect == Spec => []TypeOK
  <1>1. Inv => TypeOK
    BY DEF Inv, DictOK, WorkersOK, TypeOK, NodesOf, Structure, Key, AnyName
  <1> QED
    BY <1>1, InvHolds, PTL

(* Every context that a worker got is the one its name leads to: no race   *)
(* of two workers that open a new table leaves one with a structure that   *)
(* the dictionary does not list.                                           *)
THEOREM HeldIsListedAlways == Spec => []HeldIsListed
  BY InvHolds, PTL DEF Inv
-----------------------------------------------------------------------------
(* The registry of names that the dictionary implements.  A structure is   *)
(* in one place of the dictionary, every context has an id and no two have *)
(* the same, and every table has its default context.                      *)

Distinct(s) == \A k, m \in DOMAIN s.entries : s.entries[k] = s.entries[m] => k = m
IdsGiven(s) == \A k \in DOMAIN s.entries : k[1] = "context" => s.entries[k] \in DOMAIN s.ids
IdsDiffer(s) == \A c, d \in DOMAIN s.ids : s.ids[c] = s.ids[d] => c = d
HaveDefaults(s) ==
    \A k \in DOMAIN s.entries :
        k[1] = "table" => <<"context", s.entries[k], Empty>> \in DOMAIN s.entries

Sound(s) == DictOK(s) /\ Distinct(s) /\ IdsGiven(s) /\ IdsDiffer(s)

IdsKept(s, t) == \A c \in DOMAIN s.ids : c \in DOMAIN t.ids /\ t.ids[c] = s.ids[c]

Registered(s) == {n \in Name : ContextOf(s, Nothing, n) # None}

(* From s to t the names of R are registered and nothing is taken back.    *)
Grows(s, t, R) ==
    /\ Sound(t)
    /\ Extends(s, t)
    /\ IdsKept(s, t)
    /\ Registered(t) = Registered(s) \cup R

(* A structure is the child of one parent, under one name.                 *)
LEMMA OneParent ==
    ASSUME NEW s, DictOK(s), Distinct(s), NEW level, NEW p, NEW x, NEW q, NEW y,
           Child(s, level, p, x) # None, Child(s, level, p, x) = Child(s, level, q, y)
    PROVE  p = q /\ x = y
  <1>1. <<level, p, x>> \in DOMAIN s.entries /\ <<level, q, y>> \in DOMAIN s.entries
    BY ChildType
  <1> QED
    BY <1>1 DEF Child, Distinct

(* So a table has one name, and a context too.                             *)
LEMMA OneName ==
    ASSUME NEW s, DictOK(s), Distinct(s), NEW m \in Name, NEW n \in Name,
           TableOf(s, Nothing, m) # None, TableOf(s, Nothing, m) = TableOf(s, Nothing, n)
    PROVE  m.database = n.database /\ m.schema = n.schema /\ m.table = n.table
  <1> DEFINE D(k) == DatabaseOf(s, Nothing, k)
             S(k) == SchemaOf(s, Nothing, k)
  <1>1. \A k : /\ D(k) = Child(s, "database", Root, k.database)
               /\ S(k) = Child(s, "schema", D(k), k.schema)
               /\ TableOf(s, Nothing, k) = Child(s, "table", S(k), k.table)
    BY DEF DatabaseOf, SchemaOf, TableOf, Nothing
  <1>2. \A level, parent, x : Child(s, level, parent, x) # None => parent # None
    BY HasParent
  <1> HIDE DEF D, S
  <1>3. S(m) # None /\ S(m) = S(n) /\ m.table = n.table
    BY <1>1, <1>2, OneParent
  <1>4. D(m) # None /\ D(m) = D(n) /\ m.schema = n.schema
    BY <1>1, <1>2, <1>3, OneParent
  <1>5. m.database = n.database
    BY <1>1, <1>4, OneParent
  <1> QED
    BY <1>3, <1>4, <1>5

LEMMA OneContextName ==
    ASSUME NEW s, DictOK(s), Distinct(s), NEW m \in Name, NEW n \in Name,
           ContextOf(s, Nothing, m) # None, ContextOf(s, Nothing, m) = ContextOf(s, Nothing, n)
    PROVE  m = n
  <1>1. /\ TableOf(s, Nothing, m) = TableOf(s, Nothing, n)
        /\ m.value = n.value
    BY OneParent DEF ContextOf
  <1>2. TableOf(s, Nothing, m) # None
    BY HasParent DEF ContextOf
  <1>3. m.database = n.database /\ m.schema = n.schema /\ m.table = n.table
    BY <1>1, <1>2, OneName
  <1> QED
    BY <1>1, <1>3 DEF Name

(* An entry for a new structure is the only change to the hash tables.     *)
AddsOnly(s, t, level, parent, x) ==
    /\ DOMAIN t.entries = DOMAIN s.entries \cup {<<level, parent, x>>}
    /\ t.entries[<<level, parent, x>>] = s.allocated
    /\ \A k \in DOMAIN s.entries : t.entries[k] = s.entries[k]
    /\ \A l, p, y : (l # level \/ p # parent \/ y # x) => Child(t, l, p, y) = Child(s, l, p, y)

LEMMA OnlyChange ==
    ASSUME NEW s, DictOK(s), NEW t, NEW level, NEW parent, NEW x,
           Child(s, level, parent, x) = None,
           t.entries = Inserted(s.entries, <<level, parent, x>>, s.allocated)
    PROVE  AddsOnly(s, t, level, parent, x)
  <1>1. <<level, parent, x>> \notin DOMAIN s.entries
    BY DictionaryAssumption DEF Child, DictOK, NodesOf
  <1>2. /\ DOMAIN t.entries = DOMAIN s.entries \cup {<<level, parent, x>>}
        /\ t.entries[<<level, parent, x>>] = s.allocated
        /\ \A k \in DOMAIN s.entries : t.entries[k] = s.entries[k]
    BY <1>1 DEF Inserted
  <1>3. ASSUME NEW l, NEW p, NEW y, l # level \/ p # parent \/ y # x
        PROVE  Child(t, l, p, y) = Child(s, l, p, y)
    <2>1. <<l, p, y>> # <<level, parent, x>>
      BY <1>3
    <2> QED
      BY <1>2, <2>1 DEF Child
  <1> QED
    BY <1>2, <1>3 DEF AddsOnly

(* A structure that was not allocated yet is nowhere in the dictionary.    *)
LEMMA FreshNode ==
    ASSUME NEW s, DictOK(s)
    PROVE  /\ s.allocated \notin NodesOf(s) \cup {Root} \cup {None}
           /\ \A level, x : Child(s, level, s.allocated, x) = None
           /\ \A k \in DOMAIN s.entries : s.entries[k] # s.allocated
           /\ s.allocated \notin DOMAIN s.ids
  <1>1. s.allocated \notin NodesOf(s) \cup {Root} \cup {None}
    BY DictionaryAssumption DEF DictOK, NodesOf, Root
  <1>2. \A level, x : Child(s, level, s.allocated, x) = None
    BY <1>1, ChildType
  <1>3. \A k \in DOMAIN s.entries : s.entries[k] # s.allocated
    BY <1>1 DEF DictOK
  <1> QED
    BY <1>1, <1>2, <1>3 DEF DictOK

-----------------------------------------------------------------------------
(* What the insertions register.                                           *)

LEMMA StaysDistinct ==
    ASSUME NEW s, DictOK(s), Distinct(s), NEW t, NEW level, NEW parent, NEW x,
           Child(s, level, parent, x) = None,
           t.entries = Inserted(s.entries, <<level, parent, x>>, s.allocated)
    PROVE  Distinct(t)
  <1>1. /\ DOMAIN t.entries = DOMAIN s.entries \cup {<<level, parent, x>>}
        /\ t.entries[<<level, parent, x>>] = s.allocated
        /\ \A k \in DOMAIN s.entries : t.entries[k] = s.entries[k]
    BY OnlyChange DEF AddsOnly
  <1>2. \A k \in DOMAIN s.entries : s.entries[k] # s.allocated
    BY FreshNode
  <1> QED
    BY <1>1, <1>2 DEF Distinct

(* A database, a schema or a table alone registers no name.                *)
LEMMA NodeGrows ==
    ASSUME NEW s, Sound(s), NEW level \in {"database", "schema", "table"},
           NEW parent \in NodesOf(s) \cup {Root}, NEW x \in AnyName,
           Child(s, level, parent, x) = None
    PROVE  Grows(s, NewNode(s, level, parent, x), {})
  <1> DEFINE t == NewNode(s, level, parent, x)
  <1>1. DictOK(s) /\ Distinct(s) /\ IdsGiven(s) /\ IdsDiffer(s)
    BY DEF Sound
  <1>2. DictOK(t) /\ Extends(s, t)
    BY <1>1, NewNodeOK DEF Level
  <1>3. t.entries = Inserted(s.entries, <<level, parent, x>>, s.allocated) /\ t.ids = s.ids
    BY DEF NewNode
  <1> HIDE DEF t
  <1>0. AddsOnly(s, t, level, parent, x)
    BY <1>1, <1>3, OnlyChange
  <1>4. /\ DOMAIN t.entries = DOMAIN s.entries \cup {<<level, parent, x>>}
        /\ \A k \in DOMAIN s.entries : t.entries[k] = s.entries[k]
        /\ \A l, p, y : (l # level \/ p # parent \/ y # x) => Child(t, l, p, y) = Child(s, l, p, y)
    BY <1>0 DEF AddsOnly
  <1>5. Distinct(t) /\ IdsGiven(t) /\ IdsDiffer(t)
    BY <1>1, <1>3, <1>4, StaysDistinct DEF IdsGiven, IdsDiffer
  <1>6. IdsKept(s, t)
    BY <1>3 DEF IdsKept
  <1>7. ASSUME NEW l, NEW p, NEW y, Child(t, l, p, y) \in NodesOf(s) \cup {Root}
        PROVE  /\ Child(s, l, p, y) = Child(t, l, p, y)
               /\ p \in NodesOf(s) \cup {Root}
    <2>1. s.allocated \notin NodesOf(s) \cup {Root}
      BY <1>1, FreshNode
    <2>2. Child(t, level, parent, x) = s.allocated
      BY <1>0 DEF AddsOnly, Child
    <2>3. Child(s, l, p, y) = Child(t, l, p, y)
      BY <1>4, <1>7, <2>1, <2>2
    <2>4. None \notin NodesOf(s) \cup {Root}
      BY <1>1, DictionaryAssumption DEF DictOK, NodesOf, Root
    <2> QED
      BY <1>1, <1>7, <2>3, <2>4, ChildType
  <1>8. ASSUME NEW m \in Name, ContextOf(t, Nothing, m) # None
        PROVE  ContextOf(s, Nothing, m) # None
    <2> DEFINE D == DatabaseOf(t, Nothing, m)
               S == SchemaOf(t, Nothing, m)
               T == TableOf(t, Nothing, m)
    <2>1. /\ D = Child(t, "database", Root, m.database)
          /\ S = Child(t, "schema", D, m.schema)
          /\ T = Child(t, "table", S, m.table)
          /\ ContextOf(t, Nothing, m) = Child(t, "context", T, m.value)
      BY DEF DatabaseOf, SchemaOf, TableOf, ContextOf, Nothing
    <2> HIDE DEF D, S, T
    <2>2. Child(s, "context", T, m.value) # None
      BY <1>4, <1>8, <2>1
    <2>3. T \in NodesOf(s) \cup {Root}
      BY <1>1, <2>2, ChildType
    <2>4. T = Child(s, "table", S, m.table) /\ S \in NodesOf(s) \cup {Root}
      BY <1>7, <2>1, <2>3
    <2>5. S = Child(s, "schema", D, m.schema) /\ D \in NodesOf(s) \cup {Root}
      BY <1>7, <2>1, <2>4
    <2>6. D = Child(s, "database", Root, m.database)
      BY <1>7, <2>1, <2>5
    <2> QED
      BY <2>2, <2>4, <2>5, <2>6 DEF DatabaseOf, SchemaOf, TableOf, ContextOf, Nothing
  <1>9. Registered(t) = Registered(s) \cup {}
    BY <1>1, <1>2, <1>8, PathKept DEF Registered
  <1> QED
    BY <1>2, <1>5, <1>6, <1>9 DEF Grows, Sound, t

(* A context registers the name of its table with its value.               *)
LEMMA ContextGrows ==
    ASSUME NEW s, Sound(s), NEW n \in Name, NEW value \in Value,
           TableOf(s, Nothing, n) \in NodesOf(s),
           Child(s, "context", TableOf(s, Nothing, n), value) = None
    PROVE  Grows(s, NewContext(s, TableOf(s, Nothing, n), value), {[n EXCEPT !.value = value]})
  <1> DEFINE T == TableOf(s, Nothing, n)
             t == NewContext(s, T, value)
  <1>1. DictOK(s) /\ Distinct(s) /\ IdsGiven(s) /\ IdsDiffer(s)
    BY DEF Sound
  <1>2. DictOK(t) /\ Extends(s, t)
    BY <1>1, NewContextOK
  <1>3. /\ t.entries = Inserted(s.entries, <<"context", T, value>>, s.allocated)
        /\ t.ids = Inserted(s.ids, s.allocated, s.nextContextId)
    BY DEF NewContext
  <1>4. T \in NodesOf(s) /\ T # None /\ Child(s, "context", T, value) = None
    BY <1>1, NotNone DEF DictOK
  <1>0. T = TableOf(s, Nothing, n)
    OBVIOUS
  <1> HIDE DEF t, T
  <1>5. /\ DOMAIN t.entries = DOMAIN s.entries \cup {<<"context", T, value>>}
        /\ t.entries[<<"context", T, value>>] = s.allocated
        /\ \A k \in DOMAIN s.entries : t.entries[k] = s.entries[k]
        /\ \A l, p, y : (l # "context" \/ p # T \/ y # value) =>
              Child(t, l, p, y) = Child(s, l, p, y)
    <2>1. AddsOnly(s, t, "context", T, value)
      BY <1>1, <1>3, <1>4, OnlyChange
    <2> QED
      BY <2>1 DEF AddsOnly
  <1>6. /\ DOMAIN t.ids = DOMAIN s.ids \cup {s.allocated}
        /\ t.ids[s.allocated] = s.nextContextId
        /\ s.allocated \notin DOMAIN s.ids
        /\ \A c \in DOMAIN s.ids : t.ids[c] = s.ids[c]
    BY <1>1, <1>3, FreshNode DEF Inserted
  <1>7. Distinct(t)
    BY <1>1, <1>3, <1>4, StaysDistinct
  <1>8. IdsGiven(t) /\ IdsKept(s, t)
    BY <1>1, <1>5, <1>6 DEF IdsGiven, IdsKept
  <1>9. IdsDiffer(t)
    <2>1. \A c \in DOMAIN s.ids : s.ids[c] # s.nextContextId
      BY <1>1 DEF DictOK
    <2> QED
      BY <1>1, <1>6, <2>1 DEF IdsDiffer
  <1>10. \A m : TableOf(t, Nothing, m) = TableOf(s, Nothing, m)
    BY <1>5 DEF DatabaseOf, SchemaOf, TableOf, Nothing
  <1>11. Child(t, "context", T, value) # None
    BY <1>1, <1>5, FreshNode DEF Child
  <1>12. [n EXCEPT !.value = value] \in Registered(t)
    <2> DEFINE m == [n EXCEPT !.value = value]
    <2>1. m \in Name /\ m.database = n.database /\ m.schema = n.schema /\ m.table = n.table
          /\ m.value = value
      BY DEF Name
    <2> HIDE DEF m
    <2>2. TableOf(s, Nothing, m) = T
      BY <1>0, <2>1 DEF DatabaseOf, SchemaOf, TableOf
    <2> QED
      BY <1>10, <1>11, <2>1, <2>2 DEF Registered, ContextOf, m
  <1>13. ASSUME NEW m \in Registered(t), m \notin Registered(s)
         PROVE  m = [n EXCEPT !.value = value]
    <2>1. m \in Name /\ ContextOf(t, Nothing, m) # None /\ ContextOf(s, Nothing, m) = None
      BY <1>13 DEF Registered
    <2>2. TableOf(s, Nothing, m) = T /\ m.value = value
      BY <1>5, <1>10, <2>1 DEF ContextOf
    <2>3. m.database = n.database /\ m.schema = n.schema /\ m.table = n.table
      BY <1>0, <1>1, <1>4, <2>1, <2>2, OneName
    <2> QED
      BY <2>1, <2>2, <2>3 DEF Name
  <1>14. Registered(s) \subseteq Registered(t)
    BY <1>1, <1>2, PathKept DEF Registered
  <1>15. Registered(t) = Registered(s) \cup {[n EXCEPT !.value = value]}
    BY <1>12, <1>13, <1>14
  <1> QED
    BY <1>1, <1>2, <1>7, <1>8, <1>9, <1>15 DEF Grows, Sound, t, T
-----------------------------------------------------------------------------
(* What the levels of findCreateContext register.                          *)

LEMMA GrowsTwice ==
    ASSUME NEW s, NEW t, NEW u, NEW R, NEW Q, Grows(s, t, R), Grows(t, u, Q)
    PROVE  Grows(s, u, R \cup Q)
  <1>1. Extends(s, u)
    BY ExtendsTwice DEF Grows
  <1>2. IdsKept(s, u)
    BY DEF Grows, IdsKept
  <1> QED
    BY <1>1, <1>2 DEF Grows

LEMMA GrowsNot == ASSUME NEW s, Sound(s) PROVE Grows(s, s, {})
  BY ExtendsItself DEF Grows, IdsKept

(* The databases and schemas.                                              *)
LEMMA GetCreateNodeGrows ==
    ASSUME NEW s, Sound(s), HaveDefaults(s),
           NEW level \in {"database", "schema"}, NEW parent \in NodesOf(s) \cup {Root},
           NEW x \in AnyName
    PROVE  LET t == GetCreateNode(s, level, parent, x)
           IN  Grows(s, t, {}) /\ HaveDefaults(t)
  <1>1. CASE Child(s, level, parent, x) = None
    <2> DEFINE t == NewNode(s, level, parent, x)
    <2>1. Grows(s, t, {})
      BY <1>1, NodeGrows
    <2>2. AddsOnly(s, t, level, parent, x)
      BY <1>1, OnlyChange DEF NewNode, Sound
    <2> HIDE DEF t
    <2>3. HaveDefaults(t)
      BY <2>2 DEF HaveDefaults, AddsOnly
    <2> QED
      BY <1>1, <2>1, <2>3 DEF GetCreateNode, t
  <1>2. CASE Child(s, level, parent, x) # None
    BY <1>2, GrowsNot DEF GetCreateNode
  <1> QED
    BY <1>1, <1>2

(* A context keeps the defaults of the tables.                             *)
LEMMA ContextKeepsDefaults ==
    ASSUME NEW s, DictOK(s), NEW table, NEW value, Child(s, "context", table, value) = None
    PROVE  /\ HaveDefaults(s) => HaveDefaults(NewContext(s, table, value))
           /\ AddsOnly(s, NewContext(s, table, value), "context", table, value)
  <1> DEFINE t == NewContext(s, table, value)
  <1>1. AddsOnly(s, t, "context", table, value)
    BY OnlyChange DEF NewContext
  <1> HIDE DEF t
  <1>2. HaveDefaults(s) => HaveDefaults(t)
    BY <1>1 DEF HaveDefaults, AddsOnly
  <1> QED
    BY <1>1, <1>2 DEF t

(* A table that is there has its default context.                          *)
DefaultOf(n) == [n EXCEPT !.value = Empty]

LEMMA TableHasDefault ==
    ASSUME NEW s, DictOK(s), HaveDefaults(s), NEW n \in Name, TableOf(s, Nothing, n) # None
    PROVE  DefaultOf(n) \in Registered(s)
  <1> DEFINE T == TableOf(s, Nothing, n)
             m == DefaultOf(n)
  <1>1. T = Child(s, "table", SchemaOf(s, Nothing, n), n.table)
    BY DEF TableOf, Nothing
  <1>2. <<"context", T, Empty>> \in DOMAIN s.entries
    BY <1>1, ChildType DEF HaveDefaults, Child
  <1>3. /\ m \in Name /\ m.value = Empty
        /\ m.database = n.database /\ m.schema = n.schema /\ m.table = n.table
    BY DictionaryAssumption DEF Name, DefaultOf
  <1> HIDE DEF m
  <1>4. TableOf(s, Nothing, m) = T
    BY <1>3 DEF TableOf, SchemaOf, DatabaseOf
  <1> HIDE DEF T
  <1>5. Child(s, "context", T, Empty) # None
    BY <1>2, DictionaryAssumption DEF Child, DictOK, NodesOf
  <1> QED
    BY <1>3, <1>4, <1>5 DEF Registered, ContextOf, m

(* A table, with the default context.                                      *)

LEMMA GetCreateTableGrows ==
    ASSUME NEW s, Sound(s), HaveDefaults(s), NEW n \in Name,
           SchemaOf(s, Nothing, n) \in NodesOf(s)
    PROVE  LET t == GetCreateTable(s, SchemaOf(s, Nothing, n), n.table)
           IN  Grows(s, t, {DefaultOf(n)}) /\ HaveDefaults(t)
  <1> DEFINE schema == SchemaOf(s, Nothing, n)
  <1>0. DictOK(s) /\ n.table \in AnyName /\ Empty \in Value
    BY NameParts, DictionaryAssumption DEF Sound
  <1>1. TableOf(s, Nothing, n) = Child(s, "table", schema, n.table)
    BY DEF TableOf, Nothing
  <1>2. CASE Child(s, "table", schema, n.table) = None
    <2> DEFINE u == NewNode(s, "table", schema, n.table)
               t == NewContext(u, s.allocated, Empty)
    <2>1. GetCreateTable(s, schema, n.table) = t
      BY <1>2 DEF GetCreateTable, NewTable
    <2>2. Grows(s, u, {}) /\ Sound(u) /\ DictOK(u) /\ Extends(s, u)
      <3>1. Grows(s, u, {})
        BY <1>0, <1>2, NodeGrows
      <3> QED
        BY <3>1 DEF Grows, Sound
    <2>3. AddsOnly(s, u, "table", schema, n.table)
      BY <1>0, <1>2, OnlyChange DEF NewNode
    <2> HIDE DEF u
    <2>4. Child(u, "table", schema, n.table) = s.allocated
      BY <2>3 DEF AddsOnly, Child
    <2>5. SchemaOf(u, Nothing, n) = schema
      BY <2>3 DEF SchemaOf, DatabaseOf, Nothing, AddsOnly
    <2> HIDE DEF schema
    <2>6. TableOf(u, Nothing, n) = s.allocated
      BY <2>4, <2>5 DEF TableOf, Nothing
    <2>7. s.allocated # None /\ Child(s, "context", s.allocated, Empty) = None
      BY <1>0, FreshNode
    <2>8. s.allocated \in NodesOf(u)
      BY <2>2, <2>4, <2>7, ChildType
    <2>9. Child(u, "context", s.allocated, Empty) = None
      BY <2>3, <2>7 DEF AddsOnly
    <2>10. Grows(u, t, {DefaultOf(n)})
      BY <1>0, <2>2, <2>6, <2>8, <2>9, ContextGrows DEF DefaultOf
    <2>11. Grows(s, t, {DefaultOf(n)})
      <3>1. {} \cup {DefaultOf(n)} = {DefaultOf(n)}
        OBVIOUS
      <3> HIDE DEF t
      <3> QED
        BY <2>2, <2>10, <3>1, GrowsTwice
    <2>12. HaveDefaults(t)
      <3>1. AddsOnly(u, t, "context", s.allocated, Empty)
        BY <2>2, <2>9, ContextKeepsDefaults
      <3> HIDE DEF t
      <3> QED
        BY <2>3, <3>1 DEF HaveDefaults, AddsOnly
    <2> QED
      BY <2>1, <2>11, <2>12 DEF schema
  <1>3. CASE Child(s, "table", schema, n.table) # None
    <2>1. GetCreateTable(s, schema, n.table) = s
      BY <1>3 DEF GetCreateTable
    <2>2. DefaultOf(n) \in Registered(s)
      BY <1>0, <1>1, <1>3, TableHasDefault
    <2>3. Grows(s, s, {DefaultOf(n)})
      BY <2>2, GrowsNot DEF Grows
    <2> QED
      BY <2>1, <2>3
  <1> QED
    BY <1>2, <1>3

(* A context.                                                              *)
LEMMA GetCreateContextGrows ==
    ASSUME NEW s, Sound(s), HaveDefaults(s), NEW n \in Name,
           TableOf(s, Nothing, n) \in NodesOf(s)
    PROVE  LET t == GetCreateContext(s, TableOf(s, Nothing, n), n.value)
           IN  Grows(s, t, {n}) /\ HaveDefaults(t)
  <1> DEFINE T == TableOf(s, Nothing, n)
  <1>1. n.value \in Value /\ [n EXCEPT !.value = n.value] = n
    BY DEF Name
  <1>2. CASE Child(s, "context", T, n.value) = None
    <2>1. Grows(s, NewContext(s, T, n.value), {n})
      BY <1>1, <1>2, ContextGrows
    <2>2. HaveDefaults(NewContext(s, T, n.value))
      BY <1>2, ContextKeepsDefaults DEF Sound
    <2> QED
      BY <1>2, <2>1, <2>2 DEF GetCreateContext
  <1>3. CASE Child(s, "context", T, n.value) # None
    <2>1. n \in Registered(s)
      BY <1>3 DEF Registered, ContextOf
    <2>2. Grows(s, s, {n})
      BY <2>1, GrowsNot DEF Grows
    <2> QED
      BY <1>3, <2>2 DEF GetCreateContext
  <1> QED
    BY <1>2, <1>3

(* All levels together, from a search that may be out of date: the name is *)
(* registered and the default context of its table, and nothing else.      *)
LEMMA CreateGrows ==
    ASSUME NEW s, Sound(s), HaveDefaults(s), NEW n \in Name, NEW f, Consistent(s, f, n)
    PROVE  LET t == WithTable(WithSchema(WithDatabase(s, f, n), f, n), f, n)
               u == WithContext(t, f, n)
           IN  Grows(s, u, {n, DefaultOf(n)}) /\ HaveDefaults(u)
  <1> DEFINE a == WithDatabase(s, f, n)
             b == WithSchema(a, f, n)
             t == WithTable(b, f, n)
             u == WithContext(t, f, n)
  <1>1. DictOK(s)
    BY DEF Sound
  <1>2. n.database \in AnyName /\ n.schema \in AnyName
    BY NameParts
  <1>3. /\ Grows(s, a, {}) /\ HaveDefaults(a) /\ Sound(a) /\ DictOK(a) /\ Consistent(a, f, n)
        /\ DatabaseOf(a, f, n) \in NodesOf(a)
    <2>1. DictOK(a) /\ Extends(s, a) /\ DatabaseOf(a, f, n) \in NodesOf(a)
      BY <1>1, WithDatabaseOK
    <2>2. Grows(s, a, {}) /\ HaveDefaults(a)
      BY <1>2, GetCreateNodeGrows, GrowsNot DEF WithDatabase
    <2> HIDE DEF a
    <2> QED
      BY <2>1, <2>2, ConsistentKept DEF Grows
  <1> HIDE DEF a
  <1>4. /\ Grows(a, b, {}) /\ HaveDefaults(b) /\ Sound(b) /\ DictOK(b) /\ Consistent(b, f, n)
        /\ SchemaOf(b, f, n) \in NodesOf(b)
    <2>1. DictOK(b) /\ Extends(a, b) /\ SchemaOf(b, f, n) \in NodesOf(b)
      BY <1>3, WithSchemaOK
    <2>2. Grows(a, b, {}) /\ HaveDefaults(b)
      BY <1>2, <1>3, GetCreateNodeGrows, GrowsNot DEF WithSchema
    <2> HIDE DEF b
    <2> QED
      BY <1>3, <2>1, <2>2, ConsistentKept DEF Grows
  <1> HIDE DEF b
  <1>5. /\ Grows(b, t, {DefaultOf(n)}) /\ HaveDefaults(t) /\ Sound(t) /\ Consistent(t, f, n)
        /\ TableOf(t, f, n) \in NodesOf(t)
    <2>1. DictOK(t) /\ Extends(b, t) /\ TableOf(t, f, n) \in NodesOf(t)
      BY <1>4, WithTableOK
    <2>2. /\ SchemaOf(b, f, n) = SchemaOf(b, Nothing, n)
          /\ TableOf(b, f, n) = TableOf(b, Nothing, n)
      BY <1>4, SamePath
    <2>3. Grows(b, t, {DefaultOf(n)}) /\ HaveDefaults(t)
      <3>1. CASE f.table = None
        BY <1>4, <2>2, <3>1, GetCreateTableGrows DEF WithTable
      <3>2. CASE f.table # None
        <4>1. t = b
          BY <3>2 DEF WithTable
        <4>2. TableOf(b, Nothing, n) # None
          BY <2>2, <3>2 DEF TableOf
        <4>3. DefaultOf(n) \in Registered(b)
          BY <1>4, <4>2, TableHasDefault
        <4>4. Grows(b, b, {DefaultOf(n)})
          BY <1>4, <4>3, GrowsNot DEF Grows
        <4> QED
          BY <1>4, <4>1, <4>4
      <3> QED
        BY <3>1, <3>2
    <2> HIDE DEF t
    <2> QED
      BY <1>4, <2>1, <2>3, ConsistentKept DEF Grows
  <1> HIDE DEF t
  <1>6. Grows(t, u, {n}) /\ HaveDefaults(u)
    <2>1. TableOf(t, f, n) = TableOf(t, Nothing, n)
      BY <1>5, SamePath
    <2> QED
      BY <1>5, <2>1, GetCreateContextGrows DEF WithContext
  <1> HIDE DEF u
  <1>7. Grows(s, b, {})
    <2>1. {} \cup {} = {}
      OBVIOUS
    <2> QED
      BY <1>3, <1>4, <2>1, GrowsTwice
  <1>8. Grows(s, t, {DefaultOf(n)})
    <2>1. {} \cup {DefaultOf(n)} = {DefaultOf(n)}
      OBVIOUS
    <2> QED
      BY <1>5, <1>7, <2>1, GrowsTwice
  <1>9. Grows(s, u, {n, DefaultOf(n)})
    <2>1. {DefaultOf(n)} \cup {n} = {n, DefaultOf(n)}
      OBVIOUS
    <2> QED
      BY <1>6, <1>8, <2>1, GrowsTwice
  <1> QED
    BY <1>6, <1>9 DEF u, t, b, a

-----------------------------------------------------------------------------
(* The refinement.                                                         *)

SoundInv == Sound(server) /\ HaveDefaults(server)

registryOf == [n \in Listed |-> server.ids[ContextOf(server, Nothing, n)]]
givenTo == [w \in Worker |-> IF held[w] = None THEN None ELSE server.ids[held[w]]]

(* The context of a name has an id.                                        *)
LEMMA ContextHasId ==
    ASSUME NEW s, Sound(s), NEW n, ContextOf(s, Nothing, n) # None
    PROVE  ContextOf(s, Nothing, n) \in DOMAIN s.ids
  BY ChildType DEF Sound, ContextOf, Child, IdsGiven

(* A dictionary that grows registers names and changes no id.              *)
LEMMA GrowingRegisters ==
    ASSUME Sound(server), NEW R, Grows(server, server', R)
    PROVE  /\ DOMAIN registryOf' = DOMAIN registryOf \cup R
           /\ \A n \in DOMAIN registryOf : registryOf'[n] = registryOf[n]
           /\ Registry!Injective(registryOf')
  <1>1. Listed = Registered(server) /\ Listed' = Registered(server')
    BY DEF Listed, Registered
  <1>2. DOMAIN registryOf' = Listed' /\ DOMAIN registryOf = Listed
    BY DEF registryOf
  <1>3. Listed' = Listed \cup R
    BY <1>1 DEF Grows
  <1>4. \A n \in Listed : registryOf'[n] = registryOf[n]
    <2> SUFFICES ASSUME NEW n \in Listed PROVE registryOf'[n] = registryOf[n]
      OBVIOUS
    <2> DEFINE c == ContextOf(server, Nothing, n)
    <2>1. c # None /\ n \in Listed'
      BY <1>3 DEF Listed
    <2>2. ContextOf(server', Nothing, n) = c
      BY <2>1, PathKept DEF Sound, Grows
    <2>3. c \in DOMAIN server.ids
      BY <2>1, ContextHasId
    <2>4. server'.ids[c] = server.ids[c]
      BY <2>3 DEF Grows, IdsKept
    <2> HIDE DEF c
    <2>5. registryOf[n] = server.ids[c]
      BY DEF registryOf, c
    <2>6. registryOf'[n] = server'.ids[c]
      BY <2>1, <2>2 DEF registryOf
    <2> QED
      BY <2>4, <2>5, <2>6
  <1>5. Registry!Injective(registryOf')
    <2> SUFFICES ASSUME NEW m \in Listed', NEW n \in Listed', registryOf'[m] = registryOf'[n]
                 PROVE  m = n
      BY <1>2 DEF Registry!Injective
    <2>1. PICK t : t = server'
      OBVIOUS
    <2>2. Sound(t)
      BY <2>1 DEF Grows
    <2>3. /\ m \in Name /\ ContextOf(t, Nothing, m) # None
          /\ n \in Name /\ ContextOf(t, Nothing, n) # None
      BY <2>1 DEF Listed
    <2>4. t.ids[ContextOf(t, Nothing, m)] = t.ids[ContextOf(t, Nothing, n)]
      BY <2>1 DEF registryOf
    <2>5. ContextOf(t, Nothing, m) = ContextOf(t, Nothing, n)
      BY <2>2, <2>3, <2>4, ContextHasId DEF Sound, IdsDiffer
    <2> QED
      BY <2>2, <2>3, <2>5, OneContextName DEF Sound
  <1> QED
    BY <1>2, <1>3, <1>4, <1>5

(* A search gives the id that is registered, or leaves the worker asking.  *)
LEMMA SearchRefines ==
    ASSUME Inv, SoundInv, NEW w \in Worker, NEW n \in Name, Search(w, n)
    PROVE  Registry!Next
  <1> DEFINE c == ContextOf(server, Nothing, n)
  <1>1. held' = [held EXCEPT ![w] = c] /\ server' = server
    BY DEF Search
  <1>2. registryOf' = registryOf
    BY <1>1 DEF registryOf, Listed
  <1>3. givenTo' = [givenTo EXCEPT ![w] = IF c = None THEN None ELSE server.ids[c]]
    BY <1>1 DEF givenTo, Inv, WorkersOK
  <1>4. n \in DOMAIN registryOf <=> c # None
    BY DEF registryOf, Listed
  <1>5. c # None => registryOf'[n] = server.ids[c]
    BY <1>2, <1>4 DEF registryOf
  <1> HIDE DEF c
  <1>6. c # None => Registry!Give(w, n)
    BY <1>2, <1>3, <1>4, <1>5 DEF Registry!Give, registryOf, givenTo
  <1>7. c = None => Registry!Ask(w, n)
    BY <1>2, <1>3, <1>4 DEF Registry!Ask, registryOf, givenTo
  <1> QED
    BY <1>6, <1>7 DEF Registry!Next

(* The second critical section registers the name, unless another worker   *)
(* has registered it since the search, and gives its id.                   *)
LEMMA CreateRefines ==
    ASSUME Inv, SoundInv, NEW w \in Worker, Create(w)
    PROVE  SoundInv' /\ Registry!Next
  <1> DEFINE f == found[w]
  <1>0. PICK n : n = name[w]
    OBVIOUS
  <1>1. /\ pc[w] = "missing"
        /\ server' = WithContext(WithTable(WithSchema(WithDatabase(server, f, n), f, n), f, n), f, n)
        /\ held' = [held EXCEPT ![w] = ContextOf(server', f, n)]
    BY <1>0 DEF Create
  <1>2. n \in Name /\ Consistent(server, f, n) /\ Sound(server) /\ HaveDefaults(server)
    BY <1>0, <1>1 DEF Inv, FoundIsListed, SoundInv
  <1>3. Grows(server, server', {n, DefaultOf(n)}) /\ HaveDefaults(server')
    BY <1>1, <1>2, CreateGrows
  <1>4. /\ ContextOf(server', f, n) = ContextOf(server', Nothing, n)
        /\ ContextOf(server', f, n) \in NodesOf(server')
    BY <1>1, <1>2, CreateOK DEF Sound
  <1>5. SoundInv'
    BY <1>3 DEF SoundInv, Grows
  <1>6. /\ DOMAIN registryOf' = DOMAIN registryOf \cup {n, DefaultOf(n)}
        /\ \A m \in DOMAIN registryOf : registryOf'[m] = registryOf[m]
        /\ Registry!Injective(registryOf')
    BY <1>2, <1>3, GrowingRegisters
  <1> DEFINE c == ContextOf(server', Nothing, n)
  <1>7. c # None
    BY <1>3, <1>4, NotNone DEF Grows, Sound, DictOK
  <1>8. registryOf'[n] = server'.ids[c]
    BY <1>6 DEF registryOf
  <1>9. givenTo' = [givenTo EXCEPT ![w] = registryOf'[n]]
    <2>1. ASSUME NEW v \in Worker, v # w PROVE givenTo'[v] = givenTo[v]
      <3>1. held'[v] = held[v]
        BY <1>1, <2>1 DEF Inv, WorkersOK
      <3>2. CASE held[v] = None
        BY <3>1, <3>2 DEF givenTo
      <3>3. CASE held[v] # None
        <4>1. held[v] \in DOMAIN server.ids
          BY <1>2, <3>3, ContextHasId DEF Inv, HeldIsListed
        <4>2. server'.ids[held[v]] = server.ids[held[v]]
          BY <1>3, <4>1 DEF Grows, IdsKept
        <4> QED
          BY <3>1, <3>3, <4>2 DEF givenTo
      <3> QED
        BY <3>2, <3>3
    <2>2. held'[w] = c
      BY <1>1, <1>4 DEF Inv, WorkersOK
    <2>3. givenTo'[w] = registryOf'[n]
      BY <1>7, <1>8, <2>2 DEF givenTo
    <2>4. /\ givenTo = [v \in Worker |-> givenTo[v]]
          /\ givenTo' = [v \in Worker |-> givenTo'[v]]
      BY DEF givenTo
    <2> QED
      BY <2>1, <2>3, <2>4
  <1> HIDE DEF c
  <1>10. Registry!Register(n)
    BY <1>6 DEF Registry!Register, Registry!WithDefault, DefaultOf, registryOf
  <1>11. n \in DOMAIN registryOf => registryOf' = registryOf
    <2> SUFFICES ASSUME n \in DOMAIN registryOf PROVE registryOf' = registryOf
      OBVIOUS
    <2>1. n \in Registered(server) /\ DOMAIN registryOf = Registered(server)
      BY DEF registryOf, Listed, Registered
    <2>2. TableOf(server, Nothing, n) # None
      BY <1>2, <2>1, HasParent DEF Registered, ContextOf, Sound
    <2>3. DefaultOf(n) \in Registered(server)
      BY <1>2, <2>2, TableHasDefault DEF Sound
    <2>4. DOMAIN registryOf' = DOMAIN registryOf
      BY <1>6, <2>1, <2>3
    <2>5. /\ registryOf = [m \in DOMAIN registryOf |-> registryOf[m]]
          /\ registryOf' = [m \in DOMAIN registryOf' |-> registryOf'[m]]
      BY DEF registryOf
    <2> QED
      BY <1>6, <2>4, <2>5
  <1>12. Registry!Give(w, n)
    BY <1>9, <1>10, <1>11 DEF Registry!Give, registryOf, givenTo
  <1> QED
    BY <1>2, <1>5, <1>12 DEF Registry!Next

(* The two critical sections of findCreateContext are as good as one: they *)
(* implement the registry, where a name has one id, of its own and for     *)
(* ever, and whoever asks is given this id.                                *)
THEOREM DictionaryImplementsRegistry == Spec => RefinesRegistry
  <1>1. Init => Registry!Init /\ SoundInv
    <2> SUFFICES ASSUME Init PROVE Registry!Init /\ SoundInv
      OBVIOUS
    <2>1. server.entries = [e \in {} |-> None] /\ server.ids = [c \in {} |-> None]
      BY DEF Init
    <2>2. \A n : ContextOf(server, Nothing, n) = None
      BY <2>1 DEF ContextOf, Child
    <2>3. Registry!Init
      BY <2>2 DEF Init, Registry!Init, Listed
    <2>4. SoundInv
      BY <2>1, InvInit DEF Inv, SoundInv, Sound, Distinct, IdsGiven, IdsDiffer, HaveDefaults
    <2> QED
      BY <2>3, <2>4
  <1>2. Inv /\ SoundInv /\ [Next]_vars => SoundInv' /\ [Registry!Next]_(Registry!vars)
    <2> SUFFICES ASSUME Inv, SoundInv, [Next]_vars
                 PROVE  SoundInv' /\ [Registry!Next]_(Registry!vars)
      OBVIOUS
    <2>1. CASE UNCHANGED vars
      BY <2>1 DEF vars, SoundInv, Registry!vars, Listed
    <2>2. ASSUME NEW w \in Worker, NEW n \in Name, Search(w, n)
          PROVE  SoundInv' /\ Registry!Next
      BY <2>2, SearchRefines DEF Search, SoundInv
    <2> QED
      BY <2>1, <2>2, CreateRefines DEF Next
  <1> QED
    BY <1>1, <1>2, InvHolds, PTL DEF Spec, RefinesRegistry, Registry!Spec
=============================================================================
