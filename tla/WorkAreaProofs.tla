--------------------------- MODULE WorkAreaProofs ---------------------------
(***************************************************************************)
(* Theorems about WorkArea, for any number of rows and of keys, any        *)
(* filter, and any tables and settings to start from: the types, that a    *)
(* statement that is run again is the one that would be prepared, that a   *)
(* save of a row whose lock was granted undoes nothing another session     *)
(* wrote, and that every call ends where RowCursor says.                   *)
(*                                                                         *)
(* The inductive invariant adds to the types what holds between calls: a   *)
(* record that has something to save is locked; a locked record is a row   *)
(* of the table or is not appended yet; and where the program has not      *)
(* changed a record whose lock was granted it is as the row is.  A         *)
(* movement begins when everything is saved (Settled), and keeps it so.    *)
(*                                                                         *)
(* For the refinement PosInv says where the result set stands: what is     *)
(* left of it is ahead of the place of the program (Ahead), and each       *)
(* steady row ahead is left in it or has a key that the next query asks    *)
(* for (Covers).  A movement is followed through its layers once more: the *)
(* query, the row that is taken, the next key, the rows that are skipped.  *)
(***************************************************************************)
EXTENDS WorkArea, AreaCommandsProofs, FiniteSetTheorems, WellFoundedInduction

ResultRow(t) == [pk: DOMAIN t, key: Key, del: BOOLEAN]

Record == [pk: 1 .. Blank, key: Key, del: BOOLEAN, locked: BOOLEAN, granted: BOOLEAN]

AreaType ==
    [order: Order, orders: BOOLEAN, filter: Filters \cup {NoFilter}, block: BOOLEAN,
     limits: BOOLEAN, exact: BOOLEAN, immediate: BOOLEAN,
     commands: [Command -> Statement \cup {NoStatement}], current: Command \cup {"NONE"},
     redo: BOOLEAN, unpositioned: BOOLEAN,
     result: SUBSET [pk: Nat, key: Key, del: BOOLEAN], fetched: BOOLEAN, steady: SUBSET Nat,
     record: Record, keyValue: Key \cup {NoKey}, changed: SUBSET {"key", "del"},
     lost: BOOLEAN, hot: BOOLEAN, append: BOOLEAN,
     bof: BOOLEAN, eof: BOOLEAN, found: BOOLEAN, bottom: BOOLEAN]

(* The record differs from its row in what was changed only.               *)
AsTheRow(a, t) ==
    /\ a.record.pk \in DOMAIN t
    /\ "key" \notin a.changed => a.record.key = t[a.record.pk].key
    /\ "del" \notin a.changed => a.record.del = t[a.record.pk].del

OfTable(a, t) ==
    /\ a.result \subseteq ResultRow(t)
    /\ a.steady \subseteq DOMAIN t
    /\ a.eof => a.record = BlankRecord
    /\ a.hot => a.record.locked
    /\ a.append => a.hot
    /\ a.record.locked /\ ~a.append => a.record.pk \in DOMAIN t
    /\ a.record.granted => ~a.append /\ AsTheRow(a, t)

Areas(t) == {a \in AreaType : Noted(a) /\ OfTable(a, t)}
Settled(t) == {a \in Areas(t) : ~a.hot}

WorkInv ==
    /\ rows \in Tables
    /\ area \in Areas(rows)
    /\ area.current \in Command
    /\ area.append => NextRecno(rows) <= MaxRecno
    /\ setDeleted \in BOOLEAN
    /\ changes \in 0 .. MaxChanges

-----------------------------------------------------------------------------
(* Numbers and rows.                                                       *)

LEMMA LeastNumber ==
    ASSUME NEW A \in SUBSET Nat, A # {}
    PROVE  \E n \in A : \A m \in A : n <= m
  <1> DEFINE below == {0 .. n - 1 : n \in A}
  <1>1. IsWellFoundedOn(StrictSubsetOrdering(Nat), FiniteSubsetsOf(Nat))
    BY FS_StrictSubsetOrderingWellFounded
  <1>2. below \subseteq FiniteSubsetsOf(Nat) /\ below # {}
    <2>1. ASSUME NEW n \in A
          PROVE  0 .. n - 1 \in FiniteSubsetsOf(Nat)
      BY FS_Interval DEF FiniteSubsetsOf
    <2> QED
      BY <2>1
  <1>3. PICK x \in below : \A y \in below : ~ (<<y, x>> \in StrictSubsetOrdering(Nat))
    BY <1>1, <1>2, WFMin
  <1>4. PICK n \in A : x = 0 .. n - 1
    OBVIOUS
  <1>5. ASSUME NEW m \in A, m < n
        PROVE  FALSE
    <2>1. 0 .. m - 1 \in below
      OBVIOUS
    <2>2. 0 .. m - 1 \subseteq 0 .. n - 1 /\ m \in 0 .. n - 1 /\ m \notin 0 .. m - 1
      BY <1>5
    <2>3. <<0 .. m - 1, 0 .. n - 1>> \in StrictSubsetOrdering(Nat)
      BY <2>2 DEF StrictSubsetOrdering
    <2> QED
      BY <1>3, <1>4, <2>1, <2>3
  <1> QED
    BY <1>5

LEMMA UpToN ==
    ASSUME NEW n \in Nat
    PROVE  Cardinality(1 .. n) = n
  <1>1. 1 \in Int /\ n \in Int
    OBVIOUS
  <1>2. Cardinality(1 .. n) = IF 1 > n THEN 0 ELSE n - 1 + 1
    BY <1>1, FS_Interval
  <1> QED
    BY <1>2

(* A table is numbered from 1, and an insertion takes the next number.     *)
LEMMA TableNumbers ==
    ASSUME NEW t \in Tables
    PROVE  /\ NextRecno(t) \in Nat
           /\ 1 <= NextRecno(t) /\ NextRecno(t) <= MaxRecno + 1
           /\ DOMAIN t = 1 .. NextRecno(t) - 1
           /\ t \in [DOMAIN t -> Row]
  <1>1. PICK n \in 0 .. MaxRecno : t \in [1 .. n -> Row]
    BY DEF Tables
  <1>2. MaxRecno \in Nat /\ n \in Nat /\ DOMAIN t = 1 .. n
    BY <1>1, WorkAreaAssumption DEF WorkAreaAssumption
  <1>3. Cardinality(1 .. n) = n
    BY <1>2, UpToN
  <1>4. NextRecno(t) = n + 1
    BY <1>2, <1>3 DEF NextRecno
  <1> QED
    BY <1>1, <1>2, <1>4

LEMMA InsertedTable ==
    ASSUME NEW t \in Tables, NEW r \in Row, NextRecno(t) <= MaxRecno
    PROVE  /\ Inserted(t, r) \in Tables
           /\ DOMAIN Inserted(t, r) = DOMAIN t \cup {NextRecno(t)}
           /\ NextRecno(t) \notin DOMAIN t
           /\ Inserted(t, r)[NextRecno(t)] = r
           /\ \A p \in DOMAIN t : Inserted(t, r)[p] = t[p]
           /\ NextRecno(Inserted(t, r)) = NextRecno(t) + 1
  <1> DEFINE n == NextRecno(t)
  <1>1. n \in Nat /\ DOMAIN t = 1 .. n - 1 /\ t \in [DOMAIN t -> Row] /\ MaxRecno \in Nat /\ n >= 1
    BY TableNumbers, WorkAreaAssumption DEF WorkAreaAssumption
  <1> HIDE DEF n
  <1>2. Inserted(t, r) = [p \in 1 .. n |-> IF p \in DOMAIN t THEN t[p] ELSE r]
    BY DEF Inserted, n
  <1>3. Inserted(t, r) \in [1 .. n -> Row]
    BY <1>1, <1>2
  <1>4. Inserted(t, r) \in Tables
    BY <1>1, <1>3 DEF Tables, n
  <1>5. /\ DOMAIN Inserted(t, r) = 1 .. n
        /\ 1 .. n = DOMAIN t \cup {n} /\ n \notin DOMAIN t
    BY <1>1, <1>2
  <1>6. NextRecno(Inserted(t, r)) = n + 1
    BY <1>1, <1>5, UpToN DEF NextRecno
  <1>7. Inserted(t, r)[n] = r /\ \A p \in DOMAIN t : Inserted(t, r)[p] = t[p]
    BY <1>1, <1>2, <1>5
  <1> QED
    BY <1>4, <1>5, <1>6, <1>7 DEF n

LEMMA RowKept ==
    ASSUME NEW t \in Tables, NEW r \in Row, NextRecno(t) <= MaxRecno, NEW p \in DOMAIN t
    PROVE  Inserted(t, r)[p] = t[p]
  <1>1. \A q \in DOMAIN t : Inserted(t, r)[q] = t[q]
    BY InsertedTable, Zenon
  <1> QED
    BY <1>1, Zenon

(* One row is written.                                                     *)
LEMMA WrittenTable ==
    ASSUME NEW t \in Tables, NEW p \in DOMAIN t, NEW r \in Row
    PROVE  /\ [t EXCEPT ![p] = r] \in Tables
           /\ DOMAIN [t EXCEPT ![p] = r] = DOMAIN t
           /\ [t EXCEPT ![p] = r][p] = r
           /\ \A q \in DOMAIN t \ {p} : [t EXCEPT ![p] = r][q] = t[q]
           /\ NextRecno([t EXCEPT ![p] = r]) = NextRecno(t)
  <1>1. PICK n \in 0 .. MaxRecno : t \in [1 .. n -> Row]
    BY DEF Tables
  <1>2. [t EXCEPT ![p] = r] \in [1 .. n -> Row]
    BY <1>1
  <1>3. [t EXCEPT ![p] = r] \in Tables
    BY <1>2 DEF Tables
  <1>4. DOMAIN [t EXCEPT ![p] = r] = DOMAIN t
    OBVIOUS
  <1> QED
    BY <1>1, <1>3, <1>4 DEF NextRecno

-----------------------------------------------------------------------------
(* What hb_waSkipFilter keeps, turn after turn.                            *)

LEMMA SkippingTurns ==
    ASSUME NEW a, NEW t, NEW sort
    PROVE  /\ MaxTurns \in Nat
           /\ \E after : /\ SkipHidden(a, t, sort) = after[MaxTurns]
                         /\ \A i \in 0 .. MaxTurns :
                               after[i] = IF i = 0 THEN a ELSE PassHidden(after[i - 1], t, sort)
  <1> DEFINE upTo(n) == [i \in 0 .. n |-> i]
             Turns(g, n) == g = [i \in 0 .. n |-> IF i = 0 THEN a ELSE PassHidden(g[i - 1], t, sort)]
             after == CHOOSE g : Turns(g, MaxTurns)
  <1>1. MaxTurns \in Nat
    BY WorkAreaAssumption DEF WorkAreaAssumption, MaxTurns
  <1>2. ASSUME NEW n \in Nat
        PROVE  \E g : Turns(g, n)
    <2> DEFINE Bad == {m \in Nat : ~ \E g : Turns(g, m)}
    <2>1. SUFFICES ASSUME Bad # {}
                   PROVE  FALSE
      OBVIOUS
    <2>2. PICK m \in Bad : \A k \in Bad : m <= k
      <3>1. Bad \in SUBSET Nat
        OBVIOUS
      <3> HIDE DEF Bad
      <3> QED
        BY <2>1, <3>1, LeastNumber
    <2>3. m \in Nat /\ ~ \E g : Turns(g, m)
      OBVIOUS
    <2>4. CASE m = 0
      <3> DEFINE h == [i \in 0 .. 0 |-> a]
      <3>1. h = [i \in 0 .. 0 |-> IF i = 0 THEN a ELSE PassHidden(h[i - 1], t, sort)]
        OBVIOUS
      <3>2. Turns(h, m)
        BY <2>4, <3>1
      <3> QED
        BY <2>3, <3>2
    <2>5. CASE m # 0
      <3>1. m - 1 \in Nat /\ m - 1 \notin Bad
        <4> HIDE DEF Bad
        <4> QED
          BY <2>2, <2>3, <2>5
      <3>2. PICK g : Turns(g, m - 1)
        BY <3>1
      <3> DEFINE h == [i \in 0 .. m |-> IF i = m THEN PassHidden(g[m - 1], t, sort) ELSE g[i]]
      <3>3. \A i \in 0 .. m - 1 : g[i] = IF i = 0 THEN a ELSE PassHidden(g[i - 1], t, sort)
        BY <3>2
      <3>4. \A i \in 0 .. m - 1 : h[i] = g[i]
        BY <2>3
      <3>5. \A i \in 0 .. m : h[i] = IF i = 0 THEN a ELSE PassHidden(h[i - 1], t, sort)
        <4>1. ASSUME NEW i \in 0 .. m, i = m
              PROVE  h[i] = IF i = 0 THEN a ELSE PassHidden(h[i - 1], t, sort)
          <5>1. h[m] = PassHidden(g[m - 1], t, sort) /\ g[m - 1] = h[m - 1]
            BY <2>3, <2>5, <3>4
          <5> QED
            BY <2>5, <4>1, <5>1
        <4>2. ASSUME NEW i \in 0 .. m, i # m
              PROVE  h[i] = IF i = 0 THEN a ELSE PassHidden(h[i - 1], t, sort)
          <5>1. i \in 0 .. m - 1 /\ (i # 0 => i - 1 \in 0 .. m - 1)
            BY <2>3, <4>2
          <5> HIDE DEF h
          <5> QED
            BY <3>3, <3>4, <5>1
        <4> QED
          BY <4>1, <4>2
      <3>6. Turns(h, m)
        <4>1. h = [i \in 0 .. m |-> h[i]]
          OBVIOUS
        <4> HIDE DEF h
        <4> QED
          BY <3>5, <4>1
      <3> QED
        BY <2>3, <3>6
    <2> QED
      BY <2>4, <2>5
  <1>3. Turns(after, MaxTurns)
    BY <1>1, <1>2
  <1>4. SkipHidden(a, t, sort) = after[MaxTurns]
    BY DEF SkipHidden
  <1> HIDE DEF after
  <1>5. \A i \in 0 .. MaxTurns : after[i] = IF i = 0 THEN a ELSE PassHidden(after[i - 1], t, sort)
    BY <1>3
  <1> QED
    BY <1>1, <1>4, <1>5

(* There is a first turn that is not in S, unless all are.                 *)
LEMMA SkippingKeeps ==
    ASSUME NEW S, NEW a \in S, NEW t, NEW sort,
           \A b \in S : PassHidden(b, t, sort) \in S
    PROVE  SkipHidden(a, t, sort) \in S
  <1>1. MaxTurns \in Nat
    BY SkippingTurns
  <1>2. PICK after : /\ SkipHidden(a, t, sort) = after[MaxTurns]
                     /\ \A i \in 0 .. MaxTurns :
                           after[i] = IF i = 0 THEN a ELSE PassHidden(after[i - 1], t, sort)
    BY SkippingTurns
  <1> DEFINE Missed == {i \in 0 .. MaxTurns : after[i] \notin S}
  <1>3. Missed = {}
    <2> SUFFICES ASSUME Missed # {}
                 PROVE  FALSE
      OBVIOUS
    <2>1. Missed \in SUBSET Nat
      OBVIOUS
    <2>2. PICK m \in Missed : \A k \in Missed : m <= k
      <3> HIDE DEF Missed
      <3> QED
        BY <2>1, LeastNumber
    <2>3. m \in 0 .. MaxTurns /\ after[m] \notin S
      OBVIOUS
    <2>4. m # 0
      BY <1>2, <2>3
    <2>5. m - 1 \in 0 .. MaxTurns /\ m - 1 \notin Missed
      BY <1>1, <2>2, <2>3, <2>4
    <2>6. after[m - 1] \in S
      BY <2>5
    <2>7. after[m] = PassHidden(after[m - 1], t, sort)
      BY <1>2, <2>3, <2>4
    <2> QED
      BY <2>3, <2>6, <2>7
  <1> QED
    BY <1>1, <1>2, <1>3

-----------------------------------------------------------------------------
(* The fields of an area.                                                  *)

LEMMA AreaParts ==
    ASSUME NEW a \in AreaType
    PROVE  /\ a.order \in Order /\ a.filter \in Filters \cup {NoFilter}
           /\ a.limits \in BOOLEAN /\ a.redo \in BOOLEAN /\ a.unpositioned \in BOOLEAN
           /\ a.commands \in [Command -> Statement \cup {NoStatement}]
           /\ a.current \in Command \cup {"NONE"}
           /\ a.result \in SUBSET [pk: Nat, key: Key, del: BOOLEAN]
           /\ a.steady \in SUBSET Nat
           /\ a.record \in Record
           /\ a.keyValue \in Key \cup {NoKey}
           /\ a.changed \in SUBSET {"key", "del"}
           /\ a.lost \in BOOLEAN /\ a.hot \in BOOLEAN /\ a.append \in BOOLEAN
           /\ a.bof \in BOOLEAN /\ a.eof \in BOOLEAN /\ a.found \in BOOLEAN
  BY DEF AreaType

(* What of an area AreaCommands knows, and the lemmas about it.            *)
CommandsWith(a, cs, cur, re, un) ==
    [order |-> a.order, filter |-> a.filter, limits |-> a.limits, commands |-> cs,
     current |-> cur, redo |-> re, unpositioned |-> un]
Commands(a) == CommandsWith(a, a.commands, a.current, a.redo, a.unpositioned)

LEMMA CommandsOf ==
    ASSUME NEW a \in AreaType
    PROVE  Commands(a) \in AreaFields /\ (Noted(Commands(a)) <=> Noted(a))
  <1>1. Commands(a) \in AreaFields
    BY AreaParts DEF Commands, CommandsWith, AreaFields
  <1>2. /\ Commands(a).order = a.order /\ Commands(a).limits = a.limits
        /\ Commands(a).commands = a.commands /\ Commands(a).redo = a.redo
        /\ Commands(a).filter = a.filter
    BY DEF Commands, CommandsWith
  <1>3. Noted(Commands(a)) <=> Noted(a)
    BY <1>2 DEF Noted, QueryNoted
  <1> QED
    BY <1>1, <1>3

(* b differs from a in what AreaCommands knows only.                       *)
SameButCommands(a, b) ==
    b = [a EXCEPT !.commands = b.commands, !.current = b.current, !.redo = b.redo,
                  !.unpositioned = b.unpositioned]

AreaWith(a, cs, cur, re, un) ==
    [a EXCEPT !.commands = cs, !.current = cur, !.redo = re, !.unpositioned = un]

(* What is set there is what is known then.                                *)
LEMMA CommandsSet ==
    ASSUME NEW a \in AreaType, NEW cs, NEW cur, NEW re, NEW un
    PROVE  LET b == AreaWith(a, cs, cur, re, un)
           IN  /\ SameButCommands(a, b)
               /\ b.current = cur
               /\ Commands(b) = CommandsWith(a, cs, cur, re, un)
  <1> DEFINE b == AreaWith(a, cs, cur, re, un)
  <1>2. b.commands = cs /\ b.current = cur /\ b.redo = re /\ b.unpositioned = un
    BY DEF AreaType, AreaWith
  <1>3. b.order = a.order /\ b.filter = a.filter /\ b.limits = a.limits
    BY DEF AreaType, AreaWith
  <1>4. b = [a EXCEPT !.commands = cs, !.current = cur, !.redo = re, !.unpositioned = un]
    BY DEF AreaWith
  <1> HIDE DEF b
  <1>5. SameButCommands(a, b)
    BY <1>2, <1>4 DEF SameButCommands
  <1>6. Commands(b) = CommandsWith(a, cs, cur, re, un)
    BY <1>2, <1>3 DEF Commands, CommandsWith
  <1> QED
    BY <1>2, <1>5, <1>6 DEF b

LEMMA ReleaseOfArea ==
    ASSUME NEW a \in AreaType, NEW unused
    PROVE  LET b == ReleaseStatements(a, unused)
           IN  /\ b \in AreaType
               /\ SameButCommands(a, b)
               /\ Commands(b) = ReleaseStatements(Commands(a), unused)
  <1> DEFINE b == ReleaseStatements(a, unused)
             freed == [c \in Command |-> IF c \in unused THEN NoStatement ELSE a.commands[c]]
             now == AreaWith(a, freed, a.current, a.redo, a.unpositioned)
  <1>1. freed \in [Command -> Statement \cup {NoStatement}]
    BY AreaParts
  <1>2. b = [a EXCEPT !.commands = freed]
    BY DEF ReleaseStatements
  <1>3. ReleaseStatements(Commands(a), unused) = [Commands(a) EXCEPT !.commands = freed]
    BY DEF ReleaseStatements, Commands, CommandsWith
  <1> HIDE DEF b, freed
  <1>4. b = now
    BY <1>2 DEF AreaType, AreaWith
  <1>5. /\ SameButCommands(a, now)
        /\ Commands(now) = CommandsWith(a, freed, a.current, a.redo, a.unpositioned)
    BY CommandsSet
  <1>6. ReleaseStatements(Commands(a), unused)
          = CommandsWith(a, freed, a.current, a.redo, a.unpositioned)
    BY <1>3 DEF Commands, CommandsWith
  <1>7. b \in AreaType
    BY <1>1, <1>2 DEF AreaType
  <1> QED
    BY <1>4, <1>5, <1>6, <1>7 DEF b

(* The rest of an area after a step that works on its commands only.       *)
LEMMA SameRest ==
    ASSUME NEW a \in AreaType, NEW b \in AreaType, SameButCommands(a, b)
    PROVE  /\ b.order = a.order /\ b.orders = a.orders /\ b.filter = a.filter /\ b.block = a.block
           /\ b.limits = a.limits /\ b.exact = a.exact /\ b.immediate = a.immediate
           /\ b.result = a.result /\ b.fetched = a.fetched /\ b.steady = a.steady
           /\ b.record = a.record /\ b.keyValue = a.keyValue /\ b.changed = a.changed
           /\ b.lost = a.lost /\ b.hot = a.hot /\ b.append = a.append
           /\ b.bof = a.bof /\ b.eof = a.eof /\ b.found = a.found /\ b.bottom = a.bottom
  BY ZenonT(30) DEF SameButCommands, AreaType

LEMMA SameTwice ==
    ASSUME NEW a \in AreaType, NEW b \in AreaType, NEW c \in AreaType,
           SameButCommands(a, b), SameButCommands(b, c)
    PROVE  SameButCommands(a, c)
  <1> DEFINE d == AreaWith(a, c.commands, c.current, c.redo, c.unpositioned)
  <1>1. b = AreaWith(a, b.commands, b.current, b.redo, b.unpositioned)
    BY DEF SameButCommands, AreaWith
  <1>2. c = AreaWith(b, c.commands, c.current, c.redo, c.unpositioned)
    BY DEF SameButCommands, AreaWith
  <1>3. AreaWith(AreaWith(a, b.commands, b.current, b.redo, b.unpositioned),
                 c.commands, c.current, c.redo, c.unpositioned) = d
    BY DEF AreaWith, AreaType
  <1> QED
    BY <1>1, <1>2, <1>3 DEF SameButCommands, AreaWith

LEMMA CloseOfArea ==
    ASSUME NEW a \in AreaType, NEW cmd \in Command, NEW sort
    PROVE  LET b == CloseQueryStatements(a, cmd, sort)
           IN  /\ b \in AreaType
               /\ SameButCommands(a, b)
               /\ Commands(b) = CloseQueryStatements(Commands(a), cmd, sort)
  <1> DEFINE b == CloseQueryStatements(a, cmd, sort)
             unfit(x) == /\ cmd \in QueryCommand
                         /\ x.commands[cmd] # NoStatement
                         /\ DiscardCommand(x, x.commands[cmd], sort)
  <1>1. /\ Commands(a).redo = a.redo
        /\ Commands(a).commands = a.commands
        /\ Commands(a).order = a.order
    BY DEF Commands, CommandsWith
  <1>2. unfit(Commands(a)) <=> unfit(a)
    BY <1>1 DEF DiscardCommand
  <1>3. a \in AreaType /\ SameButCommands(a, a)
    BY DEF SameButCommands, AreaType
  <1>4. CASE a.redo
    <2>a. PICK no : no = FALSE
      OBVIOUS
    <2> DEFINE r == ReleaseStatements(a, QueryCommand)
               now == AreaWith(r, r.commands, r.current, no, r.unpositioned)
    <2>1. /\ r \in AreaType
          /\ SameButCommands(a, r)
          /\ Commands(r) = ReleaseStatements(Commands(a), QueryCommand)
      BY ReleaseOfArea
    <2>2. b = [r EXCEPT !.redo = FALSE]
      BY <1>4 DEF CloseQueryStatements
    <2>3. CloseQueryStatements(Commands(a), cmd, sort) = [Commands(r) EXCEPT !.redo = FALSE]
      BY <1>1, <1>4, <2>1 DEF CloseQueryStatements
    <2> HIDE DEF b, r
    <2>4. b = now
      BY <2>a, <2>1, <2>2 DEF AreaType, AreaWith
    <2>5. b \in AreaType
      BY <2>1, <2>2, ZenonT(30) DEF AreaType
    <2>6. /\ SameButCommands(r, now)
          /\ Commands(now) = CommandsWith(r, r.commands, r.current, no, r.unpositioned)
      BY <2>1, CommandsSet
    <2>7. [Commands(r) EXCEPT !.redo = no]
            = CommandsWith(r, r.commands, r.current, no, r.unpositioned)
      BY DEF Commands, CommandsWith
    <2>8. SameButCommands(a, b)
      BY <2>1, <2>4, <2>5, <2>6, SameTwice
    <2> QED
      BY <2>a, <2>3, <2>4, <2>5, <2>6, <2>7, <2>8 DEF b
  <1>5. CASE ~a.redo /\ unfit(a)
    <2>1. b = ReleaseStatements(a, {cmd})
      BY <1>5 DEF CloseQueryStatements
    <2>2. CloseQueryStatements(Commands(a), cmd, sort) = ReleaseStatements(Commands(a), {cmd})
      BY <1>1, <1>2, <1>5 DEF CloseQueryStatements
    <2> QED
      BY <2>1, <2>2, ReleaseOfArea
  <1>6. CASE ~a.redo /\ ~unfit(a)
    <2>1. b = a
      BY <1>6 DEF CloseQueryStatements
    <2>2. CloseQueryStatements(Commands(a), cmd, sort) = Commands(a)
      BY <1>1, <1>2, <1>6 DEF CloseQueryStatements
    <2> QED
      BY <1>3, <2>1, <2>2
  <1> QED
    BY <1>4, <1>5, <1>6

LEMMA PrepareOfArea ==
    ASSUME NEW a \in AreaType, setDeleted \in BOOLEAN, NEW cmd \in Command,
           NEW sort \in Sort, NEW more \in More, NEW sql \in Sql
    PROVE  LET b == PrepareQueryCommand(a, cmd, sort, more, sql)
           IN  /\ b \in AreaType
               /\ SameButCommands(a, b)
               /\ b.current = cmd
               /\ Commands(b) = PrepareQueryCommand(Commands(a), cmd, sort, more, sql)
  <1> DEFINE b == PrepareQueryCommand(a, cmd, sort, more, sql)
             s == [sql     |-> IF a.commands[cmd] = NoStatement THEN sql ELSE a.commands[cmd].sql,
                   sort    |-> sort,
                   order   |-> a.order,
                   deleted |-> setDeleted,
                   more    |-> more]
             new == [a.commands EXCEPT ![cmd] = s]
             now == AreaWith(a, new, cmd, a.redo, FALSE)
  <1>1. a.commands \in [Command -> Statement \cup {NoStatement}] /\ a.order \in Order
        /\ a.redo \in BOOLEAN
    BY AreaParts
  <1>2. s \in Statement
    BY <1>1 DEF Statement
  <1>3. b = [a EXCEPT !.commands = new, !.current = cmd, !.unpositioned = FALSE]
    BY DEF PrepareQueryCommand, AreaType
  <1>4. PrepareQueryCommand(Commands(a), cmd, sort, more, sql)
          = [Commands(a) EXCEPT !.commands = new, !.current = cmd, !.unpositioned = FALSE]
    BY DEF PrepareQueryCommand, Commands, CommandsWith
  <1> HIDE DEF s
  <1>5. new \in [Command -> Statement \cup {NoStatement}]
    BY <1>1, <1>2
  <1> HIDE DEF new, b
  <1>6. b = now
    BY <1>3 DEF AreaType, AreaWith
  <1>7. /\ SameButCommands(a, now)
        /\ now.current = cmd
        /\ Commands(now) = CommandsWith(a, new, cmd, a.redo, FALSE)
    BY CommandsSet
  <1>8. [Commands(a) EXCEPT !.commands = new, !.current = cmd, !.unpositioned = FALSE]
          = CommandsWith(a, new, cmd, a.redo, FALSE)
    <2>1. [Commands(a) EXCEPT !.commands = new]
            = CommandsWith(a, new, a.current, a.redo, a.unpositioned)
      BY DEF Commands, CommandsWith
    <2>2. [CommandsWith(a, new, a.current, a.redo, a.unpositioned) EXCEPT !.current = cmd]
            = CommandsWith(a, new, cmd, a.redo, a.unpositioned)
      BY DEF CommandsWith
    <2>3. PICK no : no = FALSE
      OBVIOUS
    <2>4. [CommandsWith(a, new, cmd, a.redo, a.unpositioned) EXCEPT !.unpositioned = no]
            = CommandsWith(a, new, cmd, a.redo, no)
      BY DEF CommandsWith
    <2> QED
      BY <2>1, <2>2, <2>3, <2>4
  <1>9. b \in AreaType
    BY <1>3, <1>5, ZenonT(30) DEF AreaType
  <1> QED
    BY <1>4, <1>6, <1>7, <1>8, <1>9 DEF b

(* A query leaves what is known of the statements true, and the rest of    *)
(* the area alone.                                                         *)
LEMMA PreparedArea ==
    ASSUME setDeleted \in BOOLEAN, NEW a \in AreaType, Noted(a), NEW cmd \in Command,
           NEW sort \in UsesOf(cmd), NEW more \in More, NEW unused
    PROVE  LET b == Prepared(a, unused, cmd, sort, more)
           IN  /\ b \in AreaType
               /\ Noted(b)
               /\ SameButCommands(a, b)
               /\ b.current = cmd
  <1> DEFINE r == ReleaseStatements(a, unused \ {cmd})
             c == CloseQueryStatements(r, cmd, sort)
             sql == SqlNow(a, cmd, sort)
             b == PrepareQueryCommand(c, cmd, sort, more, sql)
  <1>1. sort \in Sort
    BY DEF UsesOf, Sort, Command, ByNumber, QueryCommand
  <1>2. /\ r \in AreaType
        /\ SameButCommands(a, r)
        /\ Commands(r) = ReleaseStatements(Commands(a), unused \ {cmd})
    BY ReleaseOfArea
  <1> HIDE DEF r
  <1>3. /\ c \in AreaType
        /\ SameButCommands(r, c)
        /\ Commands(c) = CloseQueryStatements(Commands(r), cmd, sort)
    BY <1>2, CloseOfArea
  <1> HIDE DEF c
  <1>4. Commands(a) \in AreaFields /\ Noted(Commands(a))
    BY CommandsOf
  <1>5. sql = SqlNow(Commands(a), cmd, sort) /\ sql \in Sql
    <2>1. SqlNow(a, cmd, sort) = SqlNow(Commands(a), cmd, sort)
      BY DEF SqlNow, Commands, CommandsWith
    <2> QED
      BY <1>1, <1>4, <2>1, SqlTypes
  <1> HIDE DEF sql
  <1>6. /\ b \in AreaType
        /\ SameButCommands(c, b)
        /\ b.current = cmd
        /\ Commands(b) = PrepareQueryCommand(Commands(c), cmd, sort, more, sql)
    BY <1>1, <1>3, <1>5, PrepareOfArea
  <1> HIDE DEF b
  <1>7. Commands(b) = Prepared(Commands(a), unused, cmd, sort, more)
    BY <1>2, <1>3, <1>5, <1>6 DEF Prepared
  <1>8. Noted(Commands(b))
    BY <1>4, <1>7, QueryKeeps
  <1>9. Noted(b)
    BY <1>6, <1>8, CommandsOf
  <1>10. SameButCommands(a, b)
    BY <1>2, <1>3, <1>6, SameTwice
  <1>11. Prepared(a, unused, cmd, sort, more) = b
    BY DEF Prepared, r, c, sql, b
  <1> QED
    BY <1>6, <1>9, <1>10, <1>11

-----------------------------------------------------------------------------
(* What a movement works on: nothing to save, and a command in use.        *)
Ready(t) == {a \in Settled(t) : a.current \in Command}

(* What is known of the statements depends on this much of an area.        *)
SameStatements(a, b) ==
    /\ b.order = a.order /\ b.limits = a.limits /\ b.filter = a.filter
    /\ b.commands = a.commands /\ b.redo = a.redo /\ b.current = a.current

LEMMA StatementsNoted ==
    ASSUME NEW a, NEW b, Noted(a), SameStatements(a, b)
    PROVE  Noted(b)
  BY DEF Noted, QueryNoted, SameStatements

LEMMA StaysReady ==
    ASSUME NEW t, NEW a \in Ready(t), NEW b \in AreaType, SameStatements(a, b),
           OfTable(b, t), ~b.hot
    PROVE  b \in Ready(t)
  <1>1. Noted(a) /\ a.current \in Command
    BY DEF Ready, Settled, Areas
  <1>2. Noted(b)
    BY <1>1, StatementsNoted
  <1> QED
    BY <1>1, <1>2 DEF Ready, Settled, Areas, SameStatements

LEMMA ReadyParts ==
    ASSUME NEW t, NEW a \in Ready(t)
    PROVE  /\ a \in AreaType
           /\ Noted(a)
           /\ OfTable(a, t)
           /\ ~a.hot /\ ~a.append
           /\ a.current \in Command
           /\ a \in Settled(t)
  BY DEF Ready, Settled, Areas, OfTable

(* The rows of a result set are rows of the table.                         *)
LEMMA RowsOfTable ==
    ASSUME NEW t \in Tables, NEW S \in SUBSET DOMAIN t
    PROVE  /\ {RowOf(t, p) : p \in S} \in SUBSET ResultRow(t)
           /\ {RowOf(t, p) : p \in S} \in SUBSET [pk: Nat, key: Key, del: BOOLEAN]
           /\ DOMAIN t \in SUBSET Nat
  <1>1. t \in [DOMAIN t -> Row] /\ DOMAIN t \in SUBSET Nat
    BY TableNumbers
  <1> QED
    BY <1>1 DEF ResultRow, RowOf, Row

LEMMA RunQueryReady ==
    ASSUME setDeleted \in BOOLEAN, NEW t \in Tables, NEW a \in Settled(t), NEW cmd \in Command,
           NEW sort \in UsesOf(cmd), NEW more \in More, NEW S
    PROVE  RunQuery(a, t, cmd, sort, more, S) \in Ready(t)
  <1> DEFINE b == Prepared(a, Command \ Kept, cmd, sort, more)
             sql == b.commands[cmd].sql
             limited == {p \in DOMAIN t : sql.limits => t[p].key \in LimitKeys(t, sql)}
             found == Select(t, sql) \cap limited \cap S
             got == {RowOf(t, p) : p \in found}
             c == [b EXCEPT !.result = got, !.fetched = FALSE, !.steady = DOMAIN t]
  <1>1. a \in AreaType /\ Noted(a) /\ OfTable(a, t) /\ ~a.hot
    BY DEF Settled, Areas
  <1>2. b \in AreaType /\ Noted(b) /\ SameButCommands(a, b) /\ b.current = cmd
    BY <1>1, PreparedArea
  <1>3. found \in SUBSET DOMAIN t
    BY DEF Select
  <1>4. RunQuery(a, t, cmd, sort, more, S) = c
    BY DEF RunQuery
  <1> HIDE DEF found
  <1>5. /\ got \in SUBSET ResultRow(t)
        /\ got \in SUBSET [pk: Nat, key: Key, del: BOOLEAN]
        /\ DOMAIN t \in SUBSET Nat
    BY <1>3, RowsOfTable
  <1> HIDE DEF got
  <1>6. /\ b.eof = a.eof /\ b.record = a.record /\ b.hot = a.hot /\ b.append = a.append
        /\ b.changed = a.changed
    BY <1>1, <1>2, SameRest
  <1> HIDE DEF b
  <1>7. c \in AreaType
    BY <1>2, <1>5 DEF AreaType
  <1>8. /\ c.result = got /\ c.steady = DOMAIN t
        /\ c.eof = b.eof /\ c.record = b.record /\ c.hot = b.hot /\ c.append = b.append
        /\ c.changed = b.changed
        /\ c.current = cmd
    BY <1>2 DEF AreaType
  <1>9. SameStatements(b, c)
    BY <1>2 DEF AreaType, SameStatements
  <1> HIDE DEF c
  <1>10. Noted(c)
    BY <1>2, <1>9, StatementsNoted
  <1>11. OfTable(c, t)
    BY <1>1, <1>5, <1>6, <1>8 DEF OfTable, AsTheRow
  <1> QED
    BY <1>1, <1>4, <1>6, <1>7, <1>8, <1>10, <1>11 DEF Ready, Settled, Areas

(* Each query of a movement is such a query.                               *)
LEMMA QueriesReady ==
    ASSUME setDeleted \in BOOLEAN, NEW t \in Tables, NEW a \in Settled(t),
           NEW sort \in {"ASC", "DESC"}, NEW k, NEW soft
    PROVE  /\ QueryNextKey(a, t) \in Ready(t)
           /\ QueryNextRecord(a, t, sort) \in Ready(t)
           /\ QueryTop(a, t) \in Ready(t)
           /\ QueryBottom(a, t) \in Ready(t)
           /\ QuerySeek(a, t, k, sort, soft) \in Ready(t)
           /\ QueryNumber(a, t, k) \in Ready(t)
  <1>1. /\ {"NEXT_KEY_DESC", "NEXT_KEY_ASC", "NEXT_RECNO_DESC", "NEXT_RECNO_ASC",
             "GO_TOP", "GO_BOTTOM", "SEEK", "SEEK_EXACT", "GO_TO_RECNO"} \subseteq Command
        /\ "DESC" \in UsesOf("NEXT_KEY_DESC") /\ "ASC" \in UsesOf("NEXT_KEY_ASC")
        /\ "DESC" \in UsesOf("NEXT_RECNO_DESC") /\ "ASC" \in UsesOf("NEXT_RECNO_ASC")
        /\ "ASC" \in UsesOf("GO_TOP") /\ "DESC" \in UsesOf("GO_BOTTOM")
        /\ sort \in UsesOf("SEEK") /\ sort \in UsesOf("SEEK_EXACT")
        /\ "NO" \in UsesOf("GO_TO_RECNO")
    BY DEF Command, ByNumber, QueryCommand, UsesOf
  <1>2. "NO" \in More /\ "YES" \in More /\ "IF_FOUND" \in More
    BY DEF More
  <1>3. QueryNextKey(a, t) \in Ready(t)
    <2> DEFINE down == CurrentStatement(a).sort = "DESC"
               cmd == IF down THEN "NEXT_KEY_DESC" ELSE "NEXT_KEY_ASC"
               way == IF down THEN "DESC" ELSE "ASC"
               next == {p \in DOMAIN t : IF down THEN t[p].key < a.record.key
                                                 ELSE t[p].key > a.record.key}
    <2>1. cmd \in Command /\ way \in UsesOf(cmd)
      BY <1>1
    <2>2. QueryNextKey(a, t) = RunQuery(a, t, cmd, way, "NO", next)
      BY DEF QueryNextKey
    <2> HIDE DEF cmd, way, next
    <2> QED
      BY <1>2, <2>1, <2>2, RunQueryReady
  <1>4. QueryNextRecord(a, t, sort) \in Ready(t)
    <2> DEFINE down == sort = "DESC"
               cmd == IF down THEN "NEXT_RECNO_DESC" ELSE "NEXT_RECNO_ASC"
               more == IF a.order > 0 THEN "YES" ELSE "NO"
               next == {p \in DOMAIN t : /\ IF down THEN p < a.record.pk ELSE p > a.record.pk
                                         /\ a.order > 0 => t[p].key = a.record.key}
    <2>1. cmd \in Command /\ sort \in UsesOf(cmd) /\ more \in More
      BY <1>1, <1>2
    <2>2. QueryNextRecord(a, t, sort) = RunQuery(a, t, cmd, sort, more, next)
      BY DEF QueryNextRecord
    <2> HIDE DEF cmd, more, next
    <2> QED
      BY <2>1, <2>2, RunQueryReady
  <1>5. QueryTop(a, t) \in Ready(t) /\ QueryBottom(a, t) \in Ready(t)
    BY <1>1, <1>2, RunQueryReady DEF QueryTop, QueryBottom, QueryLimit
  <1>6. QuerySeek(a, t, k, sort, soft) \in Ready(t)
    <2> DEFINE equal == a.exact /\ ~soft
               cmd == IF equal THEN "SEEK_EXACT" ELSE "SEEK"
               more == IF equal THEN "IF_FOUND" ELSE "NO"
               found == {p \in DOMAIN t :
                            \/ t[p].key = k
                            \/ ~equal /\ IF sort = "ASC" THEN t[p].key > k ELSE t[p].key < k}
    <2>1. cmd \in Command /\ sort \in UsesOf(cmd) /\ more \in More
      BY <1>1, <1>2
    <2>2. QuerySeek(a, t, k, sort, soft) = RunQuery(a, t, cmd, sort, more, found)
      BY DEF QuerySeek
    <2> HIDE DEF cmd, more, found
    <2> QED
      BY <2>1, <2>2, RunQueryReady
  <1>7. QueryNumber(a, t, k) \in Ready(t)
    BY <1>1, <1>2, RunQueryReady DEF QueryNumber
  <1> QED
    BY <1>3, <1>4, <1>5, <1>6, <1>7

-----------------------------------------------------------------------------
(* A result set that has rows has a first and a last one in any order.     *)
LEMMA FirstAndLast ==
    ASSUME NEW t \in Tables, NEW R \in SUBSET ResultRow(t), R # {}, NEW o
    PROVE  /\ \E r \in R : \A s \in R : Rank(o, r) <= Rank(o, s)
           /\ \E r \in R : \A s \in R : Rank(o, r) >= Rank(o, s)
  <1> DEFINE width == MaxRecno + 2
             top == MaxKey * width + width
  <1>1. MaxRecno \in Nat /\ MaxKey \in Nat
    BY WorkAreaAssumption DEF WorkAreaAssumption
  <1>2. width \in Nat
    BY <1>1
  <1>3. \A k, n \in Nat : k * n \in Nat
    OBVIOUS
  <1>4. top \in Nat
    <2> HIDE DEF width
    <2> QED
      BY <1>1, <1>2, <1>3
  <1>5. ASSUME NEW r \in R
        PROVE  Rank(o, r) \in Nat /\ Rank(o, r) <= top
    <2> DEFINE k == IF o > 0 THEN r.key ELSE 0
    <2>1. r.key \in 0 .. MaxKey /\ r.pk \in DOMAIN t
      BY DEF ResultRow, Key
    <2>2. r.pk \in Nat /\ r.pk <= width
      BY <1>1, <2>1, TableNumbers
    <2>3. k \in Nat /\ k <= MaxKey
      BY <1>1, <2>1
    <2>4. Rank(o, r) = k * width + r.pk
      BY DEF Rank
    <2> HIDE DEF k, width
    <2>5. k * width \in Nat
      BY <1>2, <1>3, <2>3
    <2>6. k * width <= MaxKey * width
      BY <1>1, <1>2, <2>3
    <2>7. MaxKey * width \in Nat
      BY <1>1, <1>2, <1>3
    <2> QED
      BY <1>2, <2>2, <2>4, <2>5, <2>6, <2>7 DEF top
  <1> HIDE DEF top
  <1>6. \E r \in R : \A s \in R : Rank(o, r) <= Rank(o, s)
    <2> DEFINE ranks == {Rank(o, r) : r \in R}
    <2>1. ranks \in SUBSET Nat /\ ranks # {}
      BY <1>5
    <2>2. PICK n \in ranks : \A m \in ranks : n <= m
      <3> HIDE DEF ranks
      <3> QED
        BY <2>1, LeastNumber
    <2> QED
      BY <2>2
  <1>7. \E r \in R : \A s \in R : Rank(o, r) >= Rank(o, s)
    <2> DEFINE below == {top - Rank(o, r) : r \in R}
    <2>1. below \in SUBSET Nat /\ below # {}
      BY <1>4, <1>5
    <2>2. PICK n \in below : \A m \in below : n <= m
      <3> HIDE DEF below
      <3> QED
        BY <2>1, LeastNumber
    <2>3. PICK r \in R : n = top - Rank(o, r)
      BY <2>2
    <2>4. ASSUME NEW s \in R
          PROVE  Rank(o, r) >= Rank(o, s)
      <3>1. n <= top - Rank(o, s)
        BY <2>2
      <3> QED
        BY <1>4, <1>5, <2>3, <3>1
    <2> QED
      BY <2>4
  <1> QED
    BY <1>6, <1>7

LEMMA NextInResult ==
    ASSUME NEW t \in Tables, NEW a \in Ready(t), a.result # {}
    PROVE  NextOf(a) \in a.result
  <1> DEFINE sql == CurrentStatement(a).sql
  <1>1. a.result \in SUBSET ResultRow(t)
    BY ReadyParts DEF OfTable
  <1>2. /\ \E r \in a.result : \A s \in a.result : Rank(sql.order, r) <= Rank(sql.order, s)
        /\ \E r \in a.result : \A s \in a.result : Rank(sql.order, r) >= Rank(sql.order, s)
    <2> HIDE DEF sql
    <2> QED
      BY <1>1, FirstAndLast
  <1>3. NextOf(a) = CHOOSE r \in a.result : \A s \in a.result :
            IF sql.sort = "DESC" THEN Rank(sql.order, r) >= Rank(sql.order, s)
                                 ELSE Rank(sql.order, r) <= Rank(sql.order, s)
    BY DEF NextOf
  <1> HIDE DEF sql
  <1>4. CASE sql.sort = "DESC"
    BY <1>2, <1>3, <1>4
  <1>5. CASE sql.sort # "DESC"
    BY <1>2, <1>3, <1>5
  <1> QED
    BY <1>4, <1>5

-----------------------------------------------------------------------------
(* The record that is taken next, or none.                                 *)
LEMMA FlagsReset ==
    ASSUME NEW t, NEW a \in Ready(t)
    PROVE  /\ ResetFlags(a) \in Ready(t)
           /\ ~ResetFlags(a).eof
           /\ ResetFlags(a).result = a.result
           /\ ResetFlags(a).record = a.record
  <1> DEFINE b == ResetFlags(a)
  <1>1. a \in AreaType /\ OfTable(a, t) /\ ~a.hot /\ ~a.append
    BY ReadyParts
  <1>2. b \in AreaType
    BY <1>1, ZenonT(30) DEF AreaType, ResetFlags
  <1>3. /\ b.result = a.result /\ b.steady = a.steady /\ b.record = a.record /\ b.hot = a.hot
        /\ b.append = a.append /\ b.changed = a.changed /\ b.eof = FALSE
    BY <1>1 DEF AreaType, ResetFlags
  <1>4. SameStatements(a, b)
    BY <1>1 DEF AreaType, ResetFlags, SameStatements
  <1> HIDE DEF b
  <1>5. OfTable(b, t)
    BY <1>1, <1>3 DEF OfTable, AsTheRow
  <1>6. b \in Ready(t)
    BY <1>1, <1>2, <1>3, <1>4, <1>5, StaysReady
  <1> QED
    BY <1>3, <1>6 DEF b

(* A record that is no locked one, or that is as its row is.               *)
LEMMA RecordTaken ==
    ASSUME NEW t, NEW a \in Ready(t), NEW r \in Record,
           r.locked => r.pk \in DOMAIN t /\ r.key = t[r.pk].key /\ r.del = t[r.pk].del,
           r.granted => r.locked,
           a.eof => r = BlankRecord
    PROVE  /\ WithRecord(a, r) \in Ready(t)
           /\ WithRecord(a, r).record = r
           /\ WithRecord(a, r).result = a.result
           /\ WithRecord(a, r).eof = a.eof
  <1> DEFINE b == WithRecord(a, r)
  <1>1. a \in AreaType /\ OfTable(a, t) /\ ~a.hot /\ ~a.append
    BY ReadyParts
  <1>2. b \in AreaType
    BY <1>1 DEF AreaType, WithRecord
  <1>3. /\ b.result = a.result /\ b.steady = a.steady /\ b.record = r /\ b.hot = a.hot
        /\ b.append = a.append /\ b.changed = {} /\ b.eof = a.eof
    BY <1>1 DEF AreaType, WithRecord
  <1>4. SameStatements(a, b)
    BY <1>1 DEF AreaType, WithRecord, SameStatements
  <1> HIDE DEF b
  <1>5. OfTable(b, t)
    BY <1>1, <1>3 DEF OfTable, AsTheRow
  <1>6. b \in Ready(t)
    BY <1>1, <1>2, <1>3, <1>4, <1>5, StaysReady
  <1> QED
    BY <1>3, <1>6 DEF b

(* A change of the flags of a movement, with the record for the end.       *)
LEMMA FlagsSet ==
    ASSUME NEW t, NEW a \in Ready(t), NEW b \in AreaType,
           b.result \subseteq a.result, b.steady = a.steady, b.record = a.record, b.hot = a.hot,
           b.append = a.append, b.changed = a.changed, SameStatements(a, b),
           b.eof => a.eof \/ b.record = BlankRecord
    PROVE  b \in Ready(t)
  <1>1. a \in AreaType /\ OfTable(a, t) /\ ~a.hot /\ ~a.append
    BY ReadyParts
  <1>2. OfTable(b, t)
    BY <1>1 DEF OfTable, AsTheRow
  <1> QED
    BY <1>1, <1>2, StaysReady

LEMMA BlankIsRecord == BlankRecord \in Record
  BY WorkAreaAssumption DEF WorkAreaAssumption, BlankRecord, Record, Blank, Key

LEMMA FetchRowReady ==
    ASSUME NEW t \in Tables, NEW a \in Ready(t), a.result # {}
    PROVE  FetchRow(a) \in Ready(t)
  <1> DEFINE r == NextOf(a)
             f == ResetFlags(a)
             rec == [pk |-> r.pk, key |-> r.key, del |-> r.del, locked |-> FALSE, granted |-> FALSE]
             b == WithRecord(f, rec)
             c == [b EXCEPT !.result = @ \ {r}, !.fetched = TRUE, !.lost = FALSE]
  <1>1. r \in a.result
    BY NextInResult
  <1>2. a.result \subseteq ResultRow(t)
    BY ReadyParts DEF OfTable
  <1>3. rec \in Record
    <2>1. r.pk \in DOMAIN t /\ r.key \in Key /\ r.del \in BOOLEAN
      BY <1>1, <1>2 DEF ResultRow
    <2>2. DOMAIN t \subseteq 1 .. Blank
      BY TableNumbers, WorkAreaAssumption DEF WorkAreaAssumption, Blank
    <2> QED
      BY <2>1, <2>2 DEF Record
  <1>4. FetchRow(a) = c
    BY DEF FetchRow, ReadRow
  <1> HIDE DEF r
  <1>5. rec.locked = FALSE /\ rec.granted = FALSE
    OBVIOUS
  <1>6. f \in Ready(t) /\ ~f.eof /\ f.result = a.result
    BY FlagsReset
  <1> HIDE DEF rec, f
  <1>7. b \in Ready(t) /\ b.result = f.result /\ b.eof = f.eof
    BY <1>3, <1>5, <1>6, RecordTaken
  <1> HIDE DEF b
  <1>8. b \in AreaType
    BY <1>7, ReadyParts
  <1>9. c \in AreaType
    BY <1>8, ZenonT(30) DEF AreaType
  <1>10. /\ c.result \subseteq b.result /\ c.steady = b.steady /\ c.record = b.record
         /\ c.hot = b.hot /\ c.append = b.append /\ c.changed = b.changed /\ c.eof = b.eof
    BY <1>8 DEF AreaType
  <1>11. SameStatements(b, c)
    BY <1>8 DEF AreaType, SameStatements
  <1> HIDE DEF c
  <1>12. c \in Ready(t)
    BY <1>7, <1>9, <1>10, <1>11, FlagsSet
  <1> QED
    BY <1>4, <1>12

LEMMA NothingFetchedReady ==
    ASSUME NEW t, NEW a \in Ready(t), NEW sort
    PROVE  NothingFetched(a, sort) \in Ready(t)
  <1> DEFINE f == ResetFlags(a)
             b == WithRecord(f, BlankRecord)
             c == [b EXCEPT !.eof = TRUE, !.lost = FALSE]
             d == [f EXCEPT !.bof = TRUE]
  <1>1. NothingFetched(a, sort) = IF sort = "DESC" THEN d ELSE c
    BY DEF NothingFetched
  <1>2. f \in Ready(t) /\ ~f.eof
    BY FlagsReset
  <1> HIDE DEF f
  <1>3. b \in Ready(t) /\ b.record = BlankRecord
    <2>1. ~BlankRecord.locked /\ ~BlankRecord.granted
      BY DEF BlankRecord
    <2> QED
      BY <1>2, <2>1, BlankIsRecord, RecordTaken
  <1> HIDE DEF b
  <1>4. b \in AreaType /\ f \in AreaType
    BY <1>2, <1>3, ReadyParts
  <1>5. c \in Ready(t)
    <2>1. c \in AreaType
      BY <1>4, ZenonT(30) DEF AreaType
    <2>2. /\ c.result = b.result /\ c.steady = b.steady /\ c.record = b.record
          /\ c.hot = b.hot /\ c.append = b.append /\ c.changed = b.changed
      BY <1>4 DEF AreaType
    <2>3. SameStatements(b, c)
      BY <1>4 DEF AreaType, SameStatements
    <2> HIDE DEF c
    <2> QED
      BY <1>3, <2>1, <2>2, <2>3, FlagsSet
  <1>6. d \in Ready(t)
    <2>1. d \in AreaType
      BY <1>4, ZenonT(30) DEF AreaType
    <2>2. /\ d.result = f.result /\ d.steady = f.steady /\ d.record = f.record
          /\ d.hot = f.hot /\ d.append = f.append /\ d.changed = f.changed /\ d.eof = f.eof
      BY <1>4 DEF AreaType
    <2>3. SameStatements(f, d)
      BY <1>4 DEF AreaType, SameStatements
    <2> HIDE DEF d
    <2> QED
      BY <1>2, <2>1, <2>2, <2>3, FlagsSet
  <1> HIDE DEF c, d
  <1> QED
    BY <1>1, <1>5, <1>6

(* The marks of a movement: where it stops.                                *)
LEMMA MarksReady ==
    ASSUME NEW t, NEW a \in Ready(t), NEW x \in BOOLEAN
    PROVE  /\ [a EXCEPT !.found = x] \in Ready(t)
           /\ [a EXCEPT !.bof = x] \in Ready(t)
           /\ [a EXCEPT !.eof = FALSE] \in Ready(t)
           /\ [a EXCEPT !.bottom = x] \in Ready(t)
           /\ [a EXCEPT !.lost = x] \in Ready(t)
  <1>1. a \in AreaType /\ OfTable(a, t)
    BY ReadyParts
  <1> DEFINE Marked(b) == /\ b \in AreaType
                          /\ b.result = a.result /\ b.steady = a.steady /\ b.record = a.record
                          /\ b.hot = a.hot /\ b.append = a.append /\ b.changed = a.changed
                          /\ b.eof => a.eof
                          /\ SameStatements(a, b)
  <1>2. ASSUME NEW b, Marked(b)
        PROVE  b \in Ready(t)
    BY <1>2, FlagsSet
  <1>3. Marked([a EXCEPT !.found = x])
    BY <1>1 DEF AreaType, SameStatements
  <1>4. Marked([a EXCEPT !.bof = x])
    BY <1>1 DEF AreaType, SameStatements
  <1>5. Marked([a EXCEPT !.eof = FALSE])
    BY <1>1, ZenonT(30) DEF AreaType, SameStatements
  <1>6. Marked([a EXCEPT !.bottom = x])
    BY <1>1 DEF AreaType, SameStatements
  <1>7. Marked([a EXCEPT !.lost = x])
    BY <1>1 DEF AreaType, SameStatements
  <1> HIDE DEF Marked
  <1> QED
    BY <1>2, <1>3, <1>4, <1>5, <1>6, <1>7

LEMMA FetchReady ==
    ASSUME setDeleted \in BOOLEAN, NEW t \in Tables, NEW a \in Ready(t),
           NEW sort \in {"ASC", "DESC"}
    PROVE  FetchNextRecord(a, t, sort) \in Ready(t)
  <1> DEFINE ended == IF sort = "DESC" THEN a.bof ELSE a.eof
             b == IF a.result = {} /\ IsQueryMore(a) THEN QueryNextKey(a, t) ELSE a
  <1>1. FetchNextRecord(a, t, sort) =
            IF ended THEN [a EXCEPT !.found = FALSE]
            ELSE IF b.result = {} THEN NothingFetched(b, sort) ELSE FetchRow(b)
    BY DEF FetchNextRecord
  <1>2. a \in Settled(t)
    BY ReadyParts
  <1>3. b \in Ready(t)
    <2>1. QueryNextKey(a, t) \in Ready(t)
      BY <1>2, QueriesReady
    <2> QED
      BY <2>1
  <1> HIDE DEF ended, b
  <1>4. CASE ended
    BY <1>1, <1>4, MarksReady
  <1>5. CASE ~ended /\ b.result = {}
    BY <1>1, <1>3, <1>5, NothingFetchedReady
  <1>6. CASE ~ended /\ b.result # {}
    BY <1>1, <1>3, <1>6, FetchRowReady
  <1> QED
    BY <1>4, <1>5, <1>6

LEMMA GoToNoneReady ==
    ASSUME NEW t, NEW a \in Ready(t)
    PROVE  GoToNone(a) \in Ready(t)
  <1> DEFINE f == ResetFlags(a)
             b == WithRecord(f, BlankRecord)
             gone == CurrentStatement(a).sort = "DESC"
             c == [b EXCEPT !.bof = TRUE, !.eof = TRUE, !.lost = gone]
  <1>1. GoToNone(a) = c
    BY DEF GoToNone
  <1>2. f \in Ready(t) /\ ~f.eof
    BY FlagsReset
  <1> HIDE DEF f
  <1>3. b \in Ready(t) /\ b.record = BlankRecord
    <2>1. ~BlankRecord.locked /\ ~BlankRecord.granted
      BY DEF BlankRecord
    <2> QED
      BY <1>2, <2>1, BlankIsRecord, RecordTaken
  <1>4. gone \in BOOLEAN
    OBVIOUS
  <1> HIDE DEF b, gone
  <1>5. b \in AreaType
    BY <1>3, ReadyParts
  <1>6. c \in AreaType
    BY <1>4, <1>5 DEF AreaType
  <1>7. /\ c.result = b.result /\ c.steady = b.steady /\ c.record = b.record
        /\ c.hot = b.hot /\ c.append = b.append /\ c.changed = b.changed
    BY <1>5 DEF AreaType
  <1>8. SameStatements(b, c)
    BY <1>5 DEF AreaType, SameStatements
  <1> HIDE DEF c
  <1>9. c \in Ready(t)
    BY <1>3, <1>6, <1>7, <1>8, FlagsSet
  <1> QED
    BY <1>1, <1>9

-----------------------------------------------------------------------------
(* The movements.                                                          *)
LEMMA StartSettled ==
    ASSUME NEW t, NEW a \in Settled(t), NEW x \in BOOLEAN
    PROVE  [ResetFlags(a) EXCEPT !.bottom = x] \in Settled(t)
  <1> DEFINE b == [ResetFlags(a) EXCEPT !.bottom = x]
  <1>1. a \in AreaType /\ Noted(a) /\ OfTable(a, t) /\ ~a.hot
    BY DEF Settled, Areas
  <1>2. b \in AreaType
    BY <1>1, ZenonT(30) DEF AreaType, ResetFlags
  <1>3. /\ b.result = a.result /\ b.steady = a.steady /\ b.record = a.record /\ b.hot = a.hot
        /\ b.append = a.append /\ b.changed = a.changed /\ b.eof = FALSE
    BY <1>1 DEF AreaType, ResetFlags
  <1>4. SameStatements(a, b)
    BY <1>1 DEF AreaType, ResetFlags, SameStatements
  <1> HIDE DEF b
  <1>5. OfTable(b, t)
    BY <1>1, <1>3 DEF OfTable, AsTheRow
  <1>6. Noted(b)
    BY <1>1, <1>4, StatementsNoted
  <1>7. b \in Settled(t)
    BY <1>1, <1>2, <1>3, <1>5, <1>6 DEF Settled, Areas
  <1> QED
    BY <1>7 DEF b

LEMMA SkipRawReady ==
    ASSUME setDeleted \in BOOLEAN, NEW t \in Tables, NEW a \in Ready(t),
           NEW sort \in {"ASC", "DESC"}
    PROVE  SkipRaw(a, t, sort) \in Ready(t)
  <1> DEFINE b == [a EXCEPT !.bottom = FALSE]
             query == \/ b.unpositioned
                      \/ DiscardCommand(b, CurrentStatement(b), sort)
                      \/ KeyChanged(b)
                      \/ b.redo
             c == IF query THEN FromRecno(b, t, sort) ELSE b
  <1>1. SkipRaw(a, t, sort) = IF sort = "ASC" /\ b.eof THEN b ELSE FetchNextRecord(c, t, sort)
    BY DEF SkipRaw
  <1>2. b \in Ready(t)
    BY MarksReady
  <1> HIDE DEF b, query
  <1>3. FromRecno(b, t, sort) \in Ready(t)
    <2> DEFINE d == [ResetFlags(b) EXCEPT !.bottom = TRUE]
    <2>1. FromRecno(b, t, sort) = IF b.eof THEN QueryBottom(d, t) ELSE QueryNextRecord(b, t, sort)
      BY DEF FromRecno
    <2>2. b \in Settled(t) /\ d \in Settled(t)
      BY <1>2, ReadyParts, StartSettled
    <2> HIDE DEF d
    <2> QED
      BY <2>1, <2>2, QueriesReady
  <1>4. c \in Ready(t)
    BY <1>2, <1>3
  <1> HIDE DEF c
  <1>5. FetchNextRecord(c, t, sort) \in Ready(t)
    BY <1>4, FetchReady
  <1> QED
    BY <1>1, <1>2, <1>5

LEMMA SkipHiddenReady ==
    ASSUME setDeleted \in BOOLEAN, NEW t \in Tables, NEW a \in Ready(t),
           NEW sort \in {"ASC", "DESC"}
    PROVE  SkipHidden(a, t, sort) \in Ready(t)
  <1>1. ASSUME NEW b \in Ready(t)
        PROVE  PassHidden(b, t, sort) \in Ready(t)
    BY SkipRawReady DEF PassHidden
  <1> QED
    BY <1>1, SkippingKeeps

LEMMA GoTopReady ==
    ASSUME setDeleted \in BOOLEAN, NEW t \in Tables, NEW a \in Settled(t)
    PROVE  GoTopOf(a, t) \in Ready(t)
  <1> DEFINE b == [ResetFlags(a) EXCEPT !.bottom = FALSE]
             c == FetchNextRecord(QueryTop(b, t), t, "ASC")
  <1>1. b \in Settled(t)
    BY StartSettled
  <1>2. GoTopOf(a, t) = IF setDeleted \/ c.block THEN SkipHidden(c, t, "ASC") ELSE c
    BY DEF GoTopOf, SkipFilterDown
  <1> HIDE DEF b
  <1>3. QueryTop(b, t) \in Ready(t)
    BY <1>1, QueriesReady
  <1>4. c \in Ready(t)
    BY <1>3, FetchReady
  <1> HIDE DEF c
  <1>5. SkipHidden(c, t, "ASC") \in Ready(t)
    BY <1>4, SkipHiddenReady
  <1> QED
    BY <1>2, <1>4, <1>5

LEMMA SkipFilterReady ==
    ASSUME setDeleted \in BOOLEAN, NEW t \in Tables, NEW a \in Ready(t),
           NEW sort \in {"ASC", "DESC"}
    PROVE  SkipFilter(a, t, sort) \in Ready(t) /\ SkipFilterUp(a, t) \in Ready(t)
  <1> DEFINE b == SkipHidden(a, t, "DESC")
             top == GoTopOf(b, t)
  <1>1. SkipFilterUp(a, t) =
            IF ~(setDeleted \/ a.block) THEN a
            ELSE IF ~b.bof THEN b
            ELSE IF a.bottom THEN GoToNone(b)
            ELSE [top EXCEPT !.bof = TRUE]
    BY DEF SkipFilterUp
  <1>2. b \in Ready(t)
    BY SkipHiddenReady
  <1> HIDE DEF b
  <1>3. GoToNone(b) \in Ready(t)
    BY <1>2, GoToNoneReady
  <1>4. top \in Ready(t)
    BY <1>2, ReadyParts, GoTopReady
  <1> HIDE DEF top
  <1>5. [top EXCEPT !.bof = TRUE] \in Ready(t)
    BY <1>4, MarksReady
  <1>6. SkipFilterUp(a, t) \in Ready(t)
    BY <1>1, <1>2, <1>3, <1>5
  <1>7. SkipFilterDown(a, t) \in Ready(t)
    <2>1. SkipHidden(a, t, "ASC") \in Ready(t)
      BY SkipHiddenReady
    <2> QED
      BY <2>1 DEF SkipFilterDown
  <1> QED
    BY <1>6, <1>7 DEF SkipFilter

LEMMA GoBottomReady ==
    ASSUME setDeleted \in BOOLEAN, NEW t \in Tables, NEW a \in Settled(t)
    PROVE  GoBottomOf(a, t) \in Ready(t)
  <1> DEFINE c == [ResetFlags(a) EXCEPT !.bottom = TRUE]
             b == FetchNextRecord(QueryBottom(c, t), t, "DESC")
  <1>1. GoBottomOf(a, t) = IF b.bof THEN [b EXCEPT !.lost = TRUE] ELSE SkipFilterUp(b, t)
    BY DEF GoBottomOf
  <1>2. c \in Settled(t)
    BY StartSettled
  <1> HIDE DEF c
  <1>3. QueryBottom(c, t) \in Ready(t)
    BY <1>2, QueriesReady
  <1>4. b \in Ready(t)
    BY <1>3, FetchReady
  <1> HIDE DEF b
  <1>5. [b EXCEPT !.lost = TRUE] \in Ready(t)
    BY <1>4, MarksReady
  <1>6. SkipFilterUp(b, t) \in Ready(t)
    BY <1>4, SkipFilterReady
  <1> QED
    BY <1>1, <1>5, <1>6

LEMMA SkipReady ==
    ASSUME setDeleted \in BOOLEAN, NEW t \in Tables, NEW a \in Ready(t),
           NEW sort \in {"ASC", "DESC"}
    PROVE  SkipOf(a, t, sort) \in Ready(t)
  <1> DEFINE c == SkipRaw(a, t, sort)
             b == SkipFilter(c, t, sort)
  <1>1. SkipOf(a, t, sort) = IF sort = "DESC" THEN [b EXCEPT !.eof = FALSE]
                                              ELSE [b EXCEPT !.bof = FALSE]
    BY DEF SkipOf
  <1>2. c \in Ready(t)
    BY SkipRawReady
  <1> HIDE DEF c
  <1>3. b \in Ready(t)
    BY <1>2, SkipFilterReady
  <1> HIDE DEF b
  <1> QED
    BY <1>1, <1>3, MarksReady

LEMMA GoToReady ==
    ASSUME setDeleted \in BOOLEAN, NEW t \in Tables, NEW a \in Ready(t), NEW n
    PROVE  GoToOf(a, t, n) \in Ready(t)
  <1>1. GoToNone(a) \in Ready(t)
    BY GoToNoneReady
  <1>2. ResetFlags(a) \in Settled(t)
    BY FlagsReset, ReadyParts
  <1>3. QueryNumber(ResetFlags(a), t, n) \in Ready(t)
    BY <1>2, QueriesReady
  <1>4. FetchNextRecord(QueryNumber(ResetFlags(a), t, n), t, "ASC") \in Ready(t)
    BY <1>3, FetchReady
  <1> QED
    BY <1>1, <1>4 DEF GoToOf

LEMMA SeekReady ==
    ASSUME setDeleted \in BOOLEAN, NEW t \in Tables, NEW a \in Ready(t), NEW k, NEW soft, NEW last
    PROVE  SeekOf(a, t, k, soft, last) \in Ready(t)
  <1> DEFINE sort == IF last THEN "DESC" ELSE "ASC"
             d == [ResetFlags(a) EXCEPT !.bottom = FALSE]
             b == FetchNextRecord(QuerySeek(d, t, k, sort, soft), t, sort)
             c == SkipFilter(b, t, sort)
             n == [c EXCEPT !.found = FALSE]
  <1>1. SeekOf(a, t, k, soft, last) =
            IF b.bof \/ b.eof THEN [b EXCEPT !.lost = b.bof]
            ELSE IF c.eof THEN n
            ELSE IF soft \/ c.record.key = k THEN [c EXCEPT !.found = TRUE]
            ELSE GoToNone(n)
    BY DEF SeekOf
  <1>2. sort \in {"ASC", "DESC"}
    OBVIOUS
  <1>3. d \in Settled(t)
    BY ReadyParts, StartSettled
  <1> HIDE DEF sort, d
  <1>4. QuerySeek(d, t, k, sort, soft) \in Ready(t)
    BY <1>2, <1>3, QueriesReady
  <1>5. b \in Ready(t)
    BY <1>2, <1>4, FetchReady
  <1> HIDE DEF b
  <1>6. c \in Ready(t)
    BY <1>2, <1>5, SkipFilterReady
  <1> HIDE DEF c
  <1>7. n \in Ready(t) /\ [c EXCEPT !.found = TRUE] \in Ready(t)
    BY <1>6, MarksReady
  <1>8. [b EXCEPT !.lost = b.bof] \in Ready(t)
    <2>1. b.bof \in BOOLEAN
      BY <1>5, ReadyParts, AreaParts
    <2> QED
      BY <1>5, <2>1, MarksReady
  <1> HIDE DEF n
  <1>9. GoToNone(n) \in Ready(t)
    BY <1>7, GoToNoneReady
  <1> QED
    BY <1>1, <1>7, <1>8, <1>9

-----------------------------------------------------------------------------
(* What is to be saved is saved first.                                     *)
LEMMA InvParts ==
    ASSUME WorkInv
    PROVE  /\ rows \in Tables /\ area \in AreaType /\ Noted(area) /\ OfTable(area, rows)
           /\ area.current \in Command
           /\ area.append => NextRecno(rows) <= MaxRecno
           /\ setDeleted \in BOOLEAN
           /\ changes \in 0 .. MaxChanges
  BY DEF WorkInv, Areas

LEMMA SavedRows ==
    ASSUME WorkInv
    PROVE  /\ FlushedRows \in Tables
           /\ DOMAIN rows \subseteq DOMAIN FlushedRows
           /\ area.hot /\ ~area.append => /\ area.record.pk \in DOMAIN rows
                                          /\ FlushedRows = [rows EXCEPT ![area.record.pk] = FlushedRow(area.record)]
           /\ area.append => /\ FlushedRows = Inserted(rows, FlushedRow(area.record))
                             /\ NextRecno(rows) \in DOMAIN FlushedRows
           /\ ~area.hot => FlushedRows = rows
           /\ area.hot => FlushedRow(area.record) \in Row
  <1>1. /\ rows \in Tables /\ OfTable(area, rows) /\ area \in AreaType
        /\ area.append => NextRecno(rows) <= MaxRecno
    BY InvParts
  <1>2. area.append => area.hot
    BY <1>1 DEF OfTable
  <1>3. area.hot /\ ~area.append => area.record.pk \in DOMAIN rows
    BY <1>1 DEF OfTable
  <1> DEFINE r == FlushedRow(area.record)
  <1>4. r \in Row
    BY <1>1, AreaParts DEF FlushedRow, Row, Record
  <1> HIDE DEF r
  <1>5. CASE ~area.hot
    BY <1>1, <1>2, <1>5 DEF FlushedRows
  <1>6. CASE area.append
    <2>1. FlushedRows = Inserted(rows, r)
      BY <1>2, <1>6 DEF FlushedRows, r
    <2>2. /\ Inserted(rows, r) \in Tables
          /\ DOMAIN Inserted(rows, r) = DOMAIN rows \cup {NextRecno(rows)}
      BY <1>1, <1>4, <1>6, InsertedTable
    <2>3. area.hot
      BY <1>2, <1>6
    <2>4. DOMAIN rows \subseteq DOMAIN FlushedRows /\ NextRecno(rows) \in DOMAIN FlushedRows
      BY <2>1, <2>2
    <2> QED
      BY <1>4, <1>6, <2>1, <2>2, <2>3, <2>4 DEF r
  <1>7. CASE area.hot /\ ~area.append
    <2>1. FlushedRows = [rows EXCEPT ![area.record.pk] = r]
      BY <1>7 DEF FlushedRows, r
    <2>2. area.record.pk \in DOMAIN rows
      BY <1>3, <1>7
    <2>3. FlushedRows \in Tables /\ DOMAIN FlushedRows = DOMAIN rows
      BY <1>1, <1>4, <2>1, <2>2, WrittenTable
    <2> QED
      BY <1>4, <1>7, <2>1, <2>2, <2>3 DEF r
  <1> QED
    BY <1>5, <1>6, <1>7

LEMMA SavedReady ==
    ASSUME WorkInv
    PROVE  Flushed \in Ready(FlushedRows)
  <1>1. /\ rows \in Tables /\ OfTable(area, rows) /\ area \in AreaType /\ Noted(area)
        /\ area.append => NextRecno(rows) <= MaxRecno
        /\ area.current \in Command
    BY InvParts
  <1>2. CASE ~area.hot
    <2>1. FlushedRows = rows /\ Flushed = area
      BY <1>2 DEF FlushedRows, Flushed
    <2> QED
      BY <1>1, <1>2, <2>1 DEF Ready, Settled, Areas
  <1>3. CASE area.hot
    <2> DEFINE t == FlushedRows
               n == IF area.append THEN NextRecno(rows) ELSE area.record.pk
               steady == {p \in area.steady : t[p] = rows[p]}
               rec == [area.record EXCEPT !.pk = n]
               lost == area.lost /\ ~area.append
               b == [area EXCEPT !.hot = FALSE, !.append = FALSE, !.record = rec,
                                 !.steady = steady, !.lost = lost]
    <2>1. Flushed = b
      BY <1>1, <1>3 DEF Flushed, AreaType
    <2>2. t \in Tables /\ DOMAIN rows \subseteq DOMAIN t
      BY SavedRows
    <2>3. area.record \in Record /\ area.steady \in SUBSET Nat /\ area.lost \in BOOLEAN
          /\ area.append \in BOOLEAN
      BY <1>1, AreaParts
    <2>4. n \in 1 .. Blank
      BY <1>1, <2>3, TableNumbers, WorkAreaAssumption DEF WorkAreaAssumption, Blank, Record
    <2>5. n \in DOMAIN t /\ t[n].key = area.record.key /\ t[n].del = area.record.del
      <3>1. CASE area.append
        <4>1. NextRecno(rows) \in DOMAIN t /\ t = Inserted(rows, FlushedRow(area.record))
          BY <3>1, SavedRows
        <4>2. t[NextRecno(rows)] = FlushedRow(area.record)
          BY <1>1, <1>3, <3>1, <4>1, SavedRows, InsertedTable
        <4> QED
          BY <3>1, <4>1, <4>2 DEF FlushedRow
      <3>2. CASE ~area.append
        <4>1. /\ area.record.pk \in DOMAIN rows
              /\ t = [rows EXCEPT ![area.record.pk] = FlushedRow(area.record)]
          BY <1>3, <3>2, SavedRows
        <4>2. t[area.record.pk] = FlushedRow(area.record)
          BY <1>1, <1>3, <4>1, SavedRows, WrittenTable
        <4> QED
          BY <2>2, <3>2, <4>1, <4>2 DEF FlushedRow
      <3> QED
        BY <3>1, <3>2
    <2>6. rec \in Record /\ rec.pk = n /\ rec.key = area.record.key /\ rec.del = area.record.del
      BY <2>3, <2>4 DEF Record
    <2>7. steady \in SUBSET Nat /\ steady \subseteq DOMAIN t /\ lost \in BOOLEAN
      BY <1>1, <2>2, <2>3 DEF OfTable
    <2>8. area.result \subseteq ResultRow(t)
      BY <1>1, <2>2 DEF OfTable, ResultRow
    <2>9. ~area.eof
      BY <1>1, <1>3 DEF OfTable, BlankRecord
    <2> HIDE DEF t, n, steady, rec, lost
    <2>10. b \in AreaType
      BY <1>1, <2>6, <2>7, ZenonT(30) DEF AreaType
    <2>11. /\ b.result = area.result /\ b.steady = steady /\ b.record = rec /\ b.hot = FALSE
           /\ b.append = FALSE /\ b.changed = area.changed /\ b.eof = area.eof
           /\ b.current = area.current
      BY <1>1 DEF AreaType
    <2>12. SameStatements(area, b)
      BY <1>1 DEF AreaType, SameStatements
    <2> HIDE DEF b
    <2>13. Noted(b)
      BY <1>1, <2>12, StatementsNoted
    <2>14. OfTable(b, t)
      BY <2>5, <2>6, <2>7, <2>8, <2>9, <2>11 DEF OfTable, AsTheRow
    <2> QED
      BY <1>1, <2>1, <2>10, <2>11, <2>13, <2>14 DEF Ready, Settled, Areas, t
  <1> QED
    BY <1>2, <1>3

-----------------------------------------------------------------------------
(* The actions.                                                            *)
LEMMA InvAfter ==
    ASSUME rows' \in Tables, area' \in AreaType, Noted(area'), OfTable(area', rows'),
           area'.current \in Command, area'.append => NextRecno(rows') <= MaxRecno,
           setDeleted' \in BOOLEAN, changes' \in 0 .. MaxChanges
    PROVE  WorkInv'
  <1>1. (area \in Areas(rows))'
    BY DEF Areas, Noted, QueryNoted, PlainSql, OfTable, AsTheRow
  <1> QED
    BY <1>1 DEF WorkInv

LEMMA InvAfterMove ==
    ASSUME WorkInv, NEW b \in Ready(FlushedRows), rows' = FlushedRows, Becomes(b),
           changes' \in 0 .. MaxChanges
    PROVE  WorkInv'
  <1>1. FlushedRows \in Tables /\ setDeleted \in BOOLEAN
    BY SavedRows, InvParts
  <1>2. /\ b \in AreaType /\ Noted(b) /\ OfTable(b, FlushedRows) /\ ~b.append
        /\ b.current \in Command
    BY ReadyParts
  <1>3. area' = b /\ setDeleted' = setDeleted
    BY DEF Becomes
  <1> HIDE DEF Becomes
  <1> QED
    BY <1>1, <1>2, <1>3, InvAfter

LEMMA MovementInv ==
    ASSUME WorkInv, Movement
    PROVE  WorkInv'
  <1>1. /\ FlushedRows \in Tables /\ Flushed \in Ready(FlushedRows) /\ setDeleted \in BOOLEAN
        /\ changes \in 0 .. MaxChanges
    BY SavedRows, SavedReady, InvParts
  <1>2. Flushed \in Settled(FlushedRows)
    BY <1>1, ReadyParts
  <1>3. ASSUME NEW b \in Ready(FlushedRows), Moves(b)
        PROVE  WorkInv'
    BY <1>1, <1>3, InvAfterMove DEF Moves
  <1>4. ASSUME NEW sort \in {"ASC", "DESC"}, Skip(sort)
        PROVE  WorkInv'
    BY <1>1, <1>3, <1>4, SkipReady DEF Skip
  <1>5. ASSUME GoTop
        PROVE  WorkInv'
    BY <1>1, <1>2, <1>3, <1>5, GoTopReady DEF GoTop
  <1>6. ASSUME GoBottom
        PROVE  WorkInv'
    BY <1>1, <1>2, <1>3, <1>6, GoBottomReady DEF GoBottom
  <1>7. ASSUME NEW n, GoTo(n)
        PROVE  WorkInv'
    BY <1>1, <1>3, <1>7, GoToReady DEF GoTo
  <1>8. ASSUME NEW k, NEW soft, NEW last, Seek(k, soft, last)
        PROVE  WorkInv'
    BY <1>1, <1>3, <1>8, SeekReady DEF Seek
  <1>9. ASSUME OrderListAdd
        PROVE  WorkInv'
    <2> DEFINE a == [Flushed EXCEPT !.orders = TRUE, !.order = 1]
    <2>1. /\ Flushed \in AreaType /\ Noted(Flushed) /\ OfTable(Flushed, FlushedRows)
          /\ ~Flushed.hot
      BY <1>1, ReadyParts
    <2>2. 1 \in Order
      BY WorkAreaAssumption DEF WorkAreaAssumption, Order
    <2>3. a \in AreaType
      BY <2>1, <2>2 DEF AreaType
    <2>4. /\ a.result = Flushed.result /\ a.steady = Flushed.steady
          /\ a.record = Flushed.record /\ a.hot = Flushed.hot /\ a.append = Flushed.append
          /\ a.changed = Flushed.changed /\ a.eof = Flushed.eof
          /\ a.limits = Flushed.limits /\ a.filter = Flushed.filter
          /\ a.commands = Flushed.commands /\ a.redo = Flushed.redo
      BY <2>1 DEF AreaType
    <2>5. GoTopOf(a, FlushedRows) = GoTopOf([Flushed EXCEPT !.orders = TRUE, !.order = 1], FlushedRows)
      OBVIOUS
    <2> HIDE DEF a
    <2>6. OfTable(a, FlushedRows)
      BY <2>1, <2>4 DEF OfTable, AsTheRow
    <2>7. Noted(a)
      BY <2>1, <2>4 DEF Noted, QueryNoted
    <2>8. a \in Settled(FlushedRows)
      BY <2>1, <2>3, <2>4, <2>6, <2>7 DEF Settled, Areas
    <2>9. GoTopOf(a, FlushedRows) \in Ready(FlushedRows)
      BY <1>1, <2>8, GoTopReady
    <2>10. rows' = FlushedRows /\ Becomes(GoTopOf(a, FlushedRows)) /\ changes' \in 0 .. MaxChanges
      BY <1>1, <1>9, <2>5, WorkAreaAssumption DEF WorkAreaAssumption, OrderListAdd, CountChange
    <2> QED
      BY <2>9, <2>10, InvAfterMove
  <1> QED
    BY <1>4, <1>5, <1>6, <1>7, <1>8, <1>9 DEF Movement

LEMMA AppendInv ==
    ASSUME WorkInv, Append
    PROVE  WorkInv'
  <1> DEFINE t == FlushedRows
             n == NextRecno(t)
             f == ResetFlags(Flushed)
             rec == [BlankRecord EXCEPT !.locked = TRUE]
             w == WithRecord(f, rec)
             a == [w EXCEPT !.hot = TRUE, !.append = TRUE, !.unpositioned = TRUE]
             row == FlushedRow(BlankRecord)
             now == [rec EXCEPT !.pk = n]
             b == [a EXCEPT !.hot = FALSE, !.append = FALSE, !.record = now, !.lost = FALSE]
  <1>1. /\ t \in Tables /\ Flushed \in Ready(t) /\ setDeleted \in BOOLEAN
        /\ changes \in 0 .. MaxChanges
    BY SavedRows, SavedReady, InvParts
  <1>2. /\ n <= MaxRecno
        /\ setDeleted' = setDeleted
        /\ changes' \in 0 .. MaxChanges
    BY <1>1, WorkAreaAssumption DEF WorkAreaAssumption, Append, CountChange, Becomes
  <1>3. f \in Ready(t) /\ ~f.eof
    BY <1>1, FlagsReset
  <1>4. rec \in Record /\ rec.locked /\ ~rec.granted
    BY BlankIsRecord DEF Record, BlankRecord
  <1>5. row \in Row
    BY BlankIsRecord DEF FlushedRow, Row, Record
  <1>6. n \in Nat /\ n >= 1 /\ n \in 1 .. Blank
    BY <1>1, <1>2, TableNumbers, WorkAreaAssumption DEF WorkAreaAssumption, Blank
  <1>7. now \in Record /\ now.pk = n /\ ~now.granted
    BY <1>4, <1>6 DEF Record
  <1>8. IF area.immediate
        THEN rows' = Inserted(t, row) /\ area' = [a EXCEPT !.hot = FALSE, !.append = FALSE,
                                                           !.record.pk = n, !.lost = FALSE]
        ELSE rows' = t /\ area' = a
    BY DEF Append, Becomes
  <1> HIDE DEF t, n, f, rec, row, now
  <1>9. /\ f \in AreaType /\ Noted(f) /\ OfTable(f, t) /\ f.current \in Command
    BY <1>3, ReadyParts
  <1>10. a \in AreaType
    BY <1>4, <1>9 DEF AreaType, WithRecord
  <1>11. /\ a.result = f.result /\ a.steady = f.steady /\ a.record = rec
         /\ a.hot = TRUE /\ a.append = TRUE /\ a.changed = {} /\ a.eof = f.eof
         /\ a.current = f.current
    BY <1>9 DEF AreaType, WithRecord
  <1>12. SameStatements(f, a)
    BY <1>9 DEF AreaType, SameStatements, WithRecord
  <1>13. area' = IF area.immediate THEN b ELSE a
    BY <1>8, <1>10, <1>11, ZenonT(30) DEF now, AreaType
  <1> HIDE DEF a
  <1>14. Noted(a)
    BY <1>9, <1>12, StatementsNoted
  <1>15. CASE ~area.immediate
    <2>1. OfTable(a, t)
      BY <1>3, <1>4, <1>9, <1>11 DEF OfTable
    <2>2. area' = a /\ rows' = t
      BY <1>8, <1>13, <1>15
    <2> QED
      BY <1>1, <1>2, <1>9, <1>10, <1>11, <1>14, <2>1, <2>2, InvAfter DEF n
  <1>16. CASE area.immediate
    <2>1. area' = b /\ rows' = Inserted(t, row)
      BY <1>8, <1>13, <1>16
    <2>2. b \in AreaType
      BY <1>7, <1>10, ZenonT(30) DEF AreaType
    <2>3. /\ b.result = a.result /\ b.steady = a.steady /\ b.record = now
          /\ b.hot = FALSE /\ b.append = FALSE /\ b.changed = a.changed /\ b.eof = a.eof
          /\ b.current = a.current
      BY <1>10 DEF AreaType
    <2>4. SameStatements(a, b)
      BY <1>10 DEF AreaType, SameStatements
    <2> HIDE DEF b
    <2>5. Noted(b)
      BY <1>14, <2>4, StatementsNoted
    <2>6. /\ Inserted(t, row) \in Tables
          /\ DOMAIN Inserted(t, row) = DOMAIN t \cup {n}
      BY <1>1, <1>2, <1>5, InsertedTable DEF n
    <2>7. OfTable(b, Inserted(t, row))
      BY <1>3, <1>7, <1>9, <1>11, <2>3, <2>6 DEF OfTable, ResultRow
    <2> QED
      BY <1>1, <1>2, <1>9, <1>11, <2>1, <2>2, <2>3, <2>5, <2>6, <2>7, InvAfter
  <1> QED
    BY <1>15, <1>16

(* The row is read again.                                                  *)
LEMMA ReloadedFits ==
    ASSUME WorkInv, CanReload, ~area.hot, NEW cmd \in ByNumber, NEW bLock \in BOOLEAN
    PROVE  LET b == Reloaded(area, rows, cmd, bLock)
           IN  b \in AreaType /\ Noted(b) /\ OfTable(b, rows) /\ b.current \in Command /\ ~b.append
  <1> DEFINE p == Prepared(area, Command \ (Kept \cup {area.current}), cmd, "NO", "NO")
             row == RowOf(rows, area.record.pk)
             rec == [pk |-> row.pk, key |-> row.key, del |-> row.del, locked |-> bLock, granted |-> bLock]
             w == WithRecord(p, rec)
             lost == w.lost \/ "key" \in area.changed \/ area.record.key # w.record.key
             b == [w EXCEPT !.current = area.current, !.lost = lost]
  <1>1. /\ rows \in Tables /\ OfTable(area, rows) /\ area \in AreaType /\ Noted(area)
        /\ area.current \in Command /\ setDeleted \in BOOLEAN
    BY InvParts
  <1>2. ~area.eof /\ area.record.pk \in DOMAIN rows
    BY DEF CanReload
  <1>3. cmd \in Command /\ "NO" \in UsesOf(cmd) /\ "NO" \in More
    BY DEF Command, ByNumber, QueryCommand, UsesOf, More
  <1>4. p \in AreaType /\ Noted(p) /\ SameButCommands(area, p) /\ p.current = cmd
    BY <1>1, <1>3, PreparedArea
  <1>5. row.pk = area.record.pk /\ row.key = rows[row.pk].key /\ row.del = rows[row.pk].del
    BY DEF RowOf
  <1>6. row.key \in Key /\ row.del \in BOOLEAN /\ row.pk \in 1 .. Blank
    <2>1. rows[area.record.pk] \in Row
      BY <1>1, <1>2, TableNumbers
    <2>2. area.record.pk \in 1 .. Blank
      BY <1>1, AreaParts DEF Record
    <2> QED
      BY <1>5, <2>1, <2>2 DEF Row
  <1>7. Reloaded(area, rows, cmd, bLock) = b
    BY <1>4 DEF Reloaded, ReadRow, WithRecord, AreaType
  <1> HIDE DEF p, row
  <1>8. /\ rec \in Record /\ rec.pk = row.pk /\ rec.key = row.key /\ rec.del = row.del
        /\ rec.granted = rec.locked
    BY <1>6 DEF Record
  <1> HIDE DEF rec
  <1>9. /\ p.eof = area.eof /\ p.record = area.record /\ p.hot = area.hot
        /\ p.append = area.append /\ p.changed = area.changed /\ p.result = area.result
        /\ p.steady = area.steady
    BY <1>1, <1>4, SameRest
  <1>10. p \in Ready(rows)
    <2>1. OfTable(p, rows)
      BY <1>1, <1>9 DEF OfTable, AsTheRow
    <2> QED
      BY <1>3, <1>4, <1>9, <2>1 DEF Ready, Settled, Areas
  <1>11. w \in Ready(rows)
    BY <1>2, <1>5, <1>8, <1>9, <1>10, RecordTaken
  <1> HIDE DEF w
  <1>12. w \in AreaType /\ Noted(w) /\ OfTable(w, rows) /\ ~w.hot /\ ~w.append
    BY <1>11, ReadyParts
  <1>13. lost \in BOOLEAN
    BY <1>12, AreaParts
  <1> HIDE DEF lost
  <1>14. b \in AreaType
    BY <1>1, <1>12, <1>13 DEF AreaType
  <1>15. /\ b.result = w.result /\ b.steady = w.steady /\ b.record = w.record /\ b.hot = w.hot
         /\ b.append = w.append /\ b.changed = w.changed /\ b.eof = w.eof
         /\ b.limits = w.limits /\ b.filter = w.filter /\ b.commands = w.commands
         /\ b.redo = w.redo /\ b.current = area.current
    BY <1>12 DEF AreaType
  <1> HIDE DEF b
  <1>16. Noted(b)
    BY <1>12, <1>15 DEF Noted, QueryNoted
  <1>17. OfTable(b, rows)
    BY <1>12, <1>15 DEF OfTable, AsTheRow
  <1> QED
    BY <1>1, <1>7, <1>12, <1>14, <1>15, <1>16, <1>17

(* The program changes the locked record.                                  *)
LEMMA PutFits ==
    ASSUME WorkInv, CanChange, NEW rec \in Record, NEW changed \in SUBSET {"key", "del"},
           rec.pk = area.record.pk, rec.locked, rec.granted = area.record.granted, area.changed \subseteq changed,
           "key" \notin changed => rec.key = area.record.key,
           "del" \notin changed => rec.del = area.record.del,
           NEW kv \in Key \cup {NoKey},
           NEW b, b = [area EXCEPT !.hot = TRUE, !.record = rec, !.changed = changed,
                                   !.keyValue = kv]
    PROVE  /\ b \in AreaType /\ Noted(b) /\ OfTable(b, rows) /\ b.current \in Command
           /\ b.append => NextRecno(rows) <= MaxRecno
  <1>1. /\ rows \in Tables /\ OfTable(area, rows) /\ area \in AreaType /\ Noted(area)
        /\ area.current \in Command /\ (area.append => NextRecno(rows) <= MaxRecno)
    BY InvParts
  <1>2. b \in AreaType
    BY <1>1, ZenonT(30) DEF AreaType
  <1>3. /\ b.result = area.result /\ b.steady = area.steady /\ b.record = rec /\ b.hot = TRUE
        /\ b.append = area.append /\ b.changed = changed /\ b.eof = area.eof
        /\ b.current = area.current
    BY <1>1 DEF AreaType
  <1>4. SameStatements(area, b)
    BY <1>1 DEF AreaType, SameStatements
  <1>5. Noted(b)
    BY <1>1, <1>4, StatementsNoted
  <1>6. ~area.eof /\ area.record.locked
    BY DEF CanChange
  <1>7. ASSUME b.record.granted
        PROVE  ~b.append /\ AsTheRow(b, rows)
    <2>1. ~area.append /\ AsTheRow(area, rows)
      BY <1>1, <1>3, <1>7 DEF OfTable
    <2> QED
      BY <1>3, <2>1 DEF AsTheRow
  <1>8. OfTable(b, rows)
    BY <1>1, <1>3, <1>6, <1>7 DEF OfTable
  <1> QED
    BY <1>1, <1>2, <1>3, <1>5, <1>8

LEMMA ChangeInv ==
    ASSUME WorkInv, Change
    PROVE  WorkInv'
  <1>1. /\ rows \in Tables /\ OfTable(area, rows) /\ area \in AreaType
        /\ setDeleted \in BOOLEAN /\ changes \in 0 .. MaxChanges
        /\ area.record \in Record /\ area.keyValue \in Key \cup {NoKey}
        /\ area.changed \in SUBSET {"key", "del"}
    BY InvParts, AreaParts
  <1>2. ASSUME NEW cmd \in ByNumber, NEW bLock \in BOOLEAN, CanReload, ~area.hot,
               Becomes(Reloaded(area, rows, cmd, bLock)), UNCHANGED <<rows, changes>>
        PROVE  WorkInv'
    BY <1>1, <1>2, ReloadedFits, InvAfter DEF Becomes
  <1>3. ASSUME RLock
        PROVE  WorkInv'
    <2>1. ~area.hot
      BY <1>1, <1>3 DEF RLock, OfTable
    <2>2. "LOCK_RECNO" \in ByNumber
      BY DEF ByNumber
    <2> QED
      BY <1>2, <1>3, <2>1, <2>2 DEF RLock
  <1>4. ASSUME Reload
        PROVE  WorkInv'
    <2>1. "GO_TO_RECNO" \in ByNumber
      BY DEF ByNumber
    <2> QED
      BY <1>2, <1>4, <2>1 DEF Reload
  <1>5. ASSUME NEW k \in 1 .. MaxKey, PutKey(k)
        PROVE  WorkInv'
    <2> DEFINE rec == [area.record EXCEPT !.key = k]
               kv == IF area.keyValue = NoKey /\ area.order > 0 THEN area.record.key
                     ELSE area.keyValue
               changed == area.changed \cup {"key"}
    <2>a. changed \in SUBSET {"key", "del"} /\ area.changed \subseteq changed /\ "key" \in changed
      BY <1>1
    <2>1. /\ rec \in Record /\ rec.pk = area.record.pk /\ rec.locked = area.record.locked
          /\ rec.del = area.record.del /\ rec.granted = area.record.granted
      BY <1>1, WorkAreaAssumption DEF WorkAreaAssumption, Record, Key
    <2>2. CanChange /\ area.record.locked
      BY <1>5 DEF PutKey, CanChange
    <2>3. kv \in Key \cup {NoKey}
      BY <1>1 DEF Record
    <2>4. area' = [area EXCEPT !.hot = TRUE, !.record = rec, !.changed = changed,
                               !.keyValue = kv]
      BY <1>1, <1>5 DEF PutKey, Becomes, AreaType
    <2>5. /\ rows' = rows /\ setDeleted' = setDeleted /\ changes' \in 0 .. MaxChanges
      BY <1>1, <1>5, WorkAreaAssumption DEF WorkAreaAssumption, PutKey, Becomes, CountChange
    <2> HIDE DEF rec, kv, changed
    <2>6. /\ area' \in AreaType /\ Noted(area') /\ OfTable(area', rows) /\ area'.current \in Command
          /\ area'.append => NextRecno(rows) <= MaxRecno
      BY <2>a, <2>1, <2>2, <2>3, <2>4, PutFits
    <2> QED
      BY <1>1, <2>5, <2>6, InvAfter
  <1>6. ASSUME NEW del \in BOOLEAN, PutDeleted(del)
        PROVE  WorkInv'
    <2> DEFINE rec == [area.record EXCEPT !.del = del]
               kv == area.keyValue
               changed == area.changed \cup {"del"}
    <2>a. changed \in SUBSET {"key", "del"} /\ area.changed \subseteq changed /\ "del" \in changed
      BY <1>1
    <2>1. /\ rec \in Record /\ rec.pk = area.record.pk /\ rec.locked = area.record.locked
          /\ rec.key = area.record.key /\ rec.granted = area.record.granted
      BY <1>1 DEF Record
    <2>2. CanChange /\ area.record.locked
      BY <1>6 DEF PutDeleted, CanChange
    <2>3. area' = [area EXCEPT !.hot = TRUE, !.record = rec, !.changed = changed,
                               !.keyValue = kv]
      BY <1>1, <1>6 DEF PutDeleted, Becomes, AreaType
    <2>4. /\ rows' = rows /\ setDeleted' = setDeleted /\ changes' \in 0 .. MaxChanges
      BY <1>1, <1>6, WorkAreaAssumption DEF WorkAreaAssumption, PutDeleted, Becomes, CountChange
    <2> HIDE DEF rec, changed
    <2>5. /\ area' \in AreaType /\ Noted(area') /\ OfTable(area', rows) /\ area'.current \in Command
          /\ area'.append => NextRecno(rows) <= MaxRecno
      BY <1>1, <2>a, <2>1, <2>2, <2>3, PutFits
    <2> QED
      BY <1>1, <2>4, <2>5, InvAfter
  <1>7. ASSUME Flush
        PROVE  WorkInv'
    BY <1>1, <1>7, SavedReady, InvAfterMove DEF Flush, Moves
  <1> QED
    BY <1>3, <1>4, <1>5, <1>6, <1>7 DEF Change, Delete, Recall

(* What is known of the statements is so after a change of the filter.     *)
LEMMA FilterNoted ==
    ASSUME NEW a, NEW b, Noted(a), b.commands = a.commands, b.limits = a.limits,
           a.redo => b.redo, b.filter # a.filter => b.redo
    PROVE  Noted(b)
  BY DEF Noted, QueryNoted

LEMMA SettingInv ==
    ASSUME WorkInv, Setting
    PROVE  WorkInv'
  <1> DEFINE Like(a, b) == /\ b \in AreaType
                           /\ b.result = a.result /\ b.steady = a.steady /\ b.record = a.record
                           /\ b.hot = a.hot /\ b.append = a.append /\ b.changed = a.changed
                           /\ b.eof = a.eof /\ b.current = a.current
                           /\ b.commands = a.commands /\ b.limits = a.limits
  <1>1. /\ rows \in Tables /\ OfTable(area, rows) /\ area \in AreaType /\ Noted(area)
        /\ setDeleted \in BOOLEAN /\ changes \in 0 .. MaxChanges /\ area.current \in Command
        /\ area.append => NextRecno(rows) <= MaxRecno
    BY InvParts
  <1>2. changes + 1 \in 0 .. MaxChanges \/ ~(changes < MaxChanges)
    BY <1>1, WorkAreaAssumption DEF WorkAreaAssumption
  <1>3. ASSUME NEW b, Like(area, b), Noted(b), Becomes(b), CountChange, UNCHANGED rows
        PROVE  WorkInv'
    <2>1. OfTable(b, rows)
      BY <1>1, <1>3 DEF OfTable, AsTheRow
    <2>2. changes' \in 0 .. MaxChanges
      BY <1>2, <1>3 DEF CountChange
    <2> QED
      BY <1>1, <1>3, <2>1, <2>2, InvAfter DEF Becomes
  <1>4. ASSUME NEW a \in AreaType, Noted(a), NEW o \in Order, NEW orders \in BOOLEAN
        PROVE  LET b == [OrderChosen(a, o) EXCEPT !.orders = orders]
               IN  Like(a, b) /\ Like(a, OrderChosen(a, o)) /\ Noted(b) /\ Noted(OrderChosen(a, o))
    <2> DEFINE lost == a.lost \/ ("key" \in a.changed /\ o = CurrentStatement(a).order)
               c == OrderChosen(a, o)
               b == [c EXCEPT !.orders = orders]
    <2>1. lost \in BOOLEAN
      BY AreaParts
    <2>2. c = [a EXCEPT !.order = o, !.keyValue = NoKey, !.lost = lost]
      BY DEF OrderChosen, AreaType
    <2> HIDE DEF lost, c
    <2>3. Like(a, c) /\ c.redo = a.redo /\ c.filter = a.filter
      BY <2>1, <2>2, ZenonT(30) DEF AreaType
    <2>4. Like(c, b) /\ b.redo = c.redo /\ b.filter = c.filter
      BY <2>3 DEF AreaType
    <2> HIDE DEF b
    <2>5. Noted(c) /\ Noted(b)
      BY <1>4, <2>3, <2>4, FilterNoted
    <2> QED
      BY <2>3, <2>4, <2>5 DEF b, c
  <1>5. ASSUME NEW o \in Order, OrderListFocus(o)
        PROVE  WorkInv'
    <2>1. Like(area, OrderChosen(area, o)) /\ Noted(OrderChosen(area, o))
      BY <1>1, <1>4
    <2> HIDE DEF Like
    <2> QED
      BY <1>3, <1>5, <2>1 DEF OrderListFocus
  <1>6. ASSUME OrderListClear
        PROVE  WorkInv'
    <2> DEFINE b == [OrderChosen(Flushed, 0) EXCEPT !.orders = FALSE]
    <2>1. Flushed \in Ready(FlushedRows)
      BY SavedReady
    <2>2. Flushed \in AreaType /\ Noted(Flushed) /\ OfTable(Flushed, FlushedRows)
          /\ ~Flushed.hot /\ Flushed.current \in Command
      BY <2>1, ReadyParts
    <2>3. 0 \in Order
      BY CommandsAssumption DEF Order
    <2>4. Like(Flushed, b) /\ Noted(b)
      BY <1>4, <2>2, <2>3
    <2>5. rows' = FlushedRows /\ Becomes(b) /\ changes' \in 0 .. MaxChanges
      BY <1>2, <1>6 DEF OrderListClear, CountChange
    <2> HIDE DEF b
    <2>6. OfTable(b, FlushedRows)
      BY <2>2, <2>4 DEF OfTable, AsTheRow
    <2>7. b \in Ready(FlushedRows)
      BY <2>2, <2>4, <2>6 DEF Ready, Settled, Areas
    <2> QED
      BY <2>5, <2>7, InvAfterMove
  <1>7. ASSUME NEW f \in {Filter, NoFilter}, SetAreaFilter(f)
        PROVE  WorkInv'
    <2> DEFINE redo == area.redo \/ area.filter # NoFilter \/ f # NoFilter
               b == [area EXCEPT !.filter = f, !.redo = redo, !.block = TRUE]
    <2>1. area' = b
      BY <1>1, <1>7 DEF SetAreaFilter, Becomes, FilterSet, FilterCleared, AreaType
    <2>2. redo \in BOOLEAN /\ f \in Filters \cup {NoFilter}
      BY <1>1, AreaParts, WorkAreaAssumption DEF WorkAreaAssumption
    <2>3. (area.redo => redo) /\ (f # area.filter => redo)
      OBVIOUS
    <2> HIDE DEF redo
    <2>4. Like(area, b) /\ b.redo = redo /\ b.filter = f
      BY <1>1, <2>2, ZenonT(30) DEF AreaType
    <2> HIDE DEF b
    <2>5. Noted(b)
      BY <1>1, <2>3, <2>4, FilterNoted
    <2> HIDE DEF Like
    <2> QED
      BY <1>3, <1>7, <2>1, <2>4, <2>5 DEF SetAreaFilter, Becomes
  <1>8. ASSUME ClearAreaFilter
        PROVE  WorkInv'
    <2> DEFINE redo == area.redo \/ area.filter # NoFilter
               b == [area EXCEPT !.filter = NoFilter, !.redo = redo, !.block = FALSE]
    <2>1. area' = b
      BY <1>1, <1>8 DEF ClearAreaFilter, Becomes, FilterCleared, AreaType
    <2>2. redo \in BOOLEAN
      BY <1>1, AreaParts
    <2>3. (area.redo => redo) /\ (NoFilter # area.filter => redo)
      OBVIOUS
    <2> HIDE DEF redo
    <2>4. Like(area, b) /\ b.redo = redo /\ b.filter = NoFilter
      BY <1>1, <2>2, ZenonT(30) DEF AreaType
    <2> HIDE DEF b
    <2>5. Noted(b)
      BY <1>1, <2>3, <2>4, FilterNoted
    <2> HIDE DEF Like
    <2> QED
      BY <1>3, <1>8, <2>1, <2>4, <2>5 DEF ClearAreaFilter, Becomes
  <1>9. ASSUME ToggleDeleted
        PROVE  WorkInv'
    <2>1. area' = area /\ rows' = rows /\ setDeleted' \in BOOLEAN /\ changes' \in 0 .. MaxChanges
      BY <1>1, <1>2, <1>9 DEF ToggleDeleted, CountChange
    <2> QED
      BY <1>1, <2>1, InvAfter
  <1> QED
    BY <1>5, <1>6, <1>7, <1>8, <1>9 DEF Setting

LEMMA OthersInv ==
    ASSUME WorkInv, Others
    PROVE  WorkInv'
  <1>1. /\ rows \in Tables /\ OfTable(area, rows) /\ area \in AreaType /\ Noted(area)
        /\ setDeleted \in BOOLEAN /\ changes \in 0 .. MaxChanges /\ area.current \in Command
        /\ area.append => NextRecno(rows) <= MaxRecno
    BY InvParts
  <1>2. changes + 1 \in 0 .. MaxChanges \/ ~(changes < MaxChanges)
    BY <1>1, WorkAreaAssumption DEF WorkAreaAssumption
  <1>3. ASSUME NEW p \in DOMAIN rows, NEW r \in [key: 1 .. MaxKey, del: BOOLEAN], OthersWrite(p, r)
        PROVE  WorkInv'
    <2> DEFINE steady == area.steady \ {p}
               b == [area EXCEPT !.steady = steady]
               t == [rows EXCEPT ![p] = r]
    <2>1. area' = b /\ rows' = t /\ setDeleted' = setDeleted /\ changes' \in 0 .. MaxChanges
      BY <1>1, <1>2, <1>3 DEF OthersWrite, CountChange, AreaType
    <2>2. r \in Row
      BY WorkAreaAssumption DEF WorkAreaAssumption, Row, Key
    <2>3. /\ t \in Tables /\ DOMAIN t = DOMAIN rows /\ NextRecno(t) = NextRecno(rows)
          /\ \A q \in DOMAIN rows \ {p} : t[q] = rows[q]
      BY <1>1, <2>2, WrittenTable
    <2>4. steady \in SUBSET Nat /\ steady \subseteq area.steady
      BY <1>1, AreaParts
    <2>5. ~(area.record.granted /\ area.record.pk = p)
      BY <1>3 DEF OthersWrite
    <2> HIDE DEF steady, t
    <2>6. b \in AreaType
      BY <1>1, <2>4 DEF AreaType
    <2>7. /\ b.result = area.result /\ b.steady = steady /\ b.record = area.record
          /\ b.hot = area.hot /\ b.append = area.append /\ b.changed = area.changed
          /\ b.eof = area.eof /\ b.current = area.current
      BY <1>1 DEF AreaType
    <2>8. SameStatements(area, b)
      BY <1>1 DEF AreaType, SameStatements
    <2> HIDE DEF b
    <2>9. Noted(b)
      BY <1>1, <2>8, StatementsNoted
    <2>10. ASSUME b.record.granted
           PROVE  ~b.append /\ AsTheRow(b, t)
      <3>1. ~area.append /\ AsTheRow(area, rows)
        BY <1>1, <2>7, <2>10 DEF OfTable
      <3>2. area.record.pk \in DOMAIN rows \ {p}
        BY <2>5, <2>7, <2>10, <3>1 DEF AsTheRow
      <3> QED
        BY <2>3, <2>7, <3>1, <3>2 DEF AsTheRow
    <2>11. OfTable(b, t)
      BY <1>1, <2>3, <2>4, <2>7, <2>10 DEF OfTable, ResultRow
    <2> QED
      BY <1>1, <2>1, <2>3, <2>6, <2>7, <2>9, <2>11, InvAfter
  <1>4. ASSUME NEW k \in 1 .. MaxKey, OthersAppend(k)
        PROVE  WorkInv'
    <2> DEFINE r == [key |-> k, del |-> FALSE]
               t == Inserted(rows, r)
               n == NextRecno(rows)
    <2>1. area' = area /\ rows' = t /\ setDeleted' = setDeleted /\ changes' \in 0 .. MaxChanges
      BY <1>1, <1>2, <1>4 DEF OthersAppend, CountChange
    <2>2. r \in Row
      BY WorkAreaAssumption DEF WorkAreaAssumption, Row, Key
    <2>3. n \in Nat /\ MaxRecno \in Nat /\ n + (IF area.append THEN 1 ELSE 0) <= MaxRecno
      BY <1>1, <1>4, TableNumbers, WorkAreaAssumption DEF WorkAreaAssumption, OthersAppend
    <2>4. n <= MaxRecno /\ (area.append => n + 1 <= MaxRecno)
      BY <2>3
    <2> HIDE DEF r
    <2>5. /\ t \in Tables
          /\ DOMAIN rows \subseteq DOMAIN t
          /\ \A p \in DOMAIN rows : t[p] = rows[p]
          /\ NextRecno(t) = n + 1
      BY <1>1, <2>2, <2>4, InsertedTable
    <2> HIDE DEF t, n
    <2>6. area.record.granted => ~area.append /\ AsTheRow(area, t)
      BY <1>1, <2>5 DEF OfTable, AsTheRow
    <2>7. OfTable(area, t)
      BY <1>1, <2>5, <2>6 DEF OfTable, ResultRow
    <2> QED
      BY <1>1, <2>1, <2>4, <2>5, <2>7, InvAfter
  <1> QED
    BY <1>3, <1>4 DEF Others

-----------------------------------------------------------------------------
(* The invariant.                                                          *)
LEMMA OpenedSettled ==
    ASSUME NEW start \in Starts
    PROVE  start.rows \in Tables /\ start.deleted \in BOOLEAN /\ Opened(start) \in Settled(start.rows)
  <1> DEFINE a == Opened(start)
             none == [c \in Command |-> NoStatement]
             isOrdered == start.order > 0
  <1>1. start \in [rows: Tables, deleted: BOOLEAN, order: Order,
                   filter: Filters \cup {NoFilter}, block: BOOLEAN,
                   limits: BOOLEAN, exact: BOOLEAN, immediate: BOOLEAN]
    BY WorkAreaAssumption DEF WorkAreaAssumption
  <1>2. /\ start.rows \in Tables /\ start.deleted \in BOOLEAN /\ start.order \in Order
        /\ start.filter \in Filters \cup {NoFilter} /\ start.block \in BOOLEAN
        /\ start.limits \in BOOLEAN /\ start.exact \in BOOLEAN /\ start.immediate \in BOOLEAN
    BY <1>1
  <1>3. none \in [Command -> Statement \cup {NoStatement}] /\ isOrdered \in BOOLEAN
    OBVIOUS
  <1>4. a = [order |-> start.order, orders |-> isOrdered,
             filter |-> start.filter, block |-> start.block,
             limits |-> start.limits, exact |-> start.exact, immediate |-> start.immediate,
             commands |-> none, current |-> "NONE", redo |-> TRUE, unpositioned |-> TRUE,
             result |-> {}, fetched |-> FALSE, steady |-> {}, record |-> BlankRecord,
             keyValue |-> NoKey, changed |-> {}, lost |-> FALSE, hot |-> FALSE, append |-> FALSE,
             bof |-> FALSE, eof |-> FALSE, found |-> FALSE, bottom |-> FALSE]
    BY DEF Opened
  <1> HIDE DEF a, none, isOrdered
  <1>5. a \in AreaType
    BY <1>2, <1>3, <1>4, BlankIsRecord DEF AreaType
  <1>6. /\ a.commands = none /\ a.result = {} /\ a.steady = {} /\ a.record = BlankRecord
        /\ ~a.hot /\ ~a.append /\ ~a.eof
    BY <1>4
  <1>7. Noted(a)
    BY <1>6 DEF Noted, none
  <1>8. OfTable(a, start.rows)
    BY <1>6 DEF OfTable, BlankRecord
  <1> QED
    BY <1>2, <1>5, <1>6, <1>7, <1>8 DEF Settled, Areas, a

LEMMA InitWork == Init => WorkInv
  <1> SUFFICES ASSUME Init
               PROVE  WorkInv
    OBVIOUS
  <1>1. PICK start \in Starts : /\ rows = start.rows
                                /\ setDeleted = start.deleted
                                /\ area = GoTopOf(Opened(start), start.rows)
    BY DEF Init
  <1>2. rows \in Tables /\ setDeleted \in BOOLEAN /\ Opened(start) \in Settled(rows)
    BY <1>1, OpenedSettled
  <1>3. area \in Ready(rows)
    BY <1>1, <1>2, GoTopReady
  <1>4. area \in Areas(rows) /\ area.current \in Command /\ ~area.append
    BY <1>3, ReadyParts DEF Ready, Settled
  <1>5. changes \in 0 .. MaxChanges
    <2>1. changes = 0
      BY DEF Init
    <2> QED
      BY <2>1, WorkAreaAssumption DEF WorkAreaAssumption
  <1> QED
    BY <1>2, <1>4, <1>5 DEF WorkInv

LEMMA NextWork == WorkInv /\ [Next]_vars => WorkInv'
  <1>1. ASSUME WorkInv, Next
        PROVE  WorkInv'
    BY <1>1, MovementInv, AppendInv, ChangeInv, SettingInv, OthersInv DEF Next
  <1>2. ASSUME WorkInv, UNCHANGED vars
        PROVE  WorkInv'
    <2>1. /\ area' = area /\ rows' = rows /\ setDeleted' = setDeleted /\ changes' = changes
      BY <1>2 DEF vars
    <2> QED
      BY <1>2, <2>1, InvParts, InvAfter
  <1> QED
    BY <1>1, <1>2

(* The record, the result set and the flags of a work area agree, for any  *)
(* tables, modes and settings to start from (sdb_rdd_fetchNextRecord,      *)
(* sdb_rdd_api.c:254).                                                     *)
THEOREM RecordAndResultAgree == Spec => []TypeOK
  <1>1. WorkInv => TypeOK
    <2> SUFFICES ASSUME WorkInv
                 PROVE  TypeOK
      OBVIOUS
    <2>1. /\ rows \in Tables /\ area \in AreaType /\ OfTable(area, rows)
          /\ area.current \in Command /\ changes \in 0 .. MaxChanges
      BY InvParts
    <2>2. area.record \in Record /\ area.changed \in SUBSET {"key", "del"}
      BY <2>1, AreaParts
    <2>3. area.eof => ~area.hot
      BY <2>1 DEF OfTable, BlankRecord
    <2> QED
      BY <2>1, <2>2, <2>3 DEF TypeOK, OfTable, ResultRow, Record
  <1> QED
    BY <1>1, InitWork, NextWork, PTL DEF Spec

(* Among movements, changes of the record and of the settings, and what    *)
(* other sessions write, a statement that is run again is the one that     *)
(* would be prepared (closeQueryStatements, sdb_api.c:531).                *)
THEOREM MovementsFit == Spec => []StatementsFit
  <1>1. WorkInv => StatementsFit
    <2> SUFFICES ASSUME WorkInv, NEW cmd \in Command, NEW sort \in UsesOf(cmd),
                        Reusable(cmd, sort)
                 PROVE  area.commands[cmd].sql = SqlNow(area, cmd, sort)
      BY DEF StatementsFit
    <2> DEFINE a == Commands(area)
    <2>1. area \in AreaType /\ Noted(area) /\ setDeleted \in BOOLEAN
      BY InvParts
    <2>2. a \in AreaFields /\ Noted(a)
      BY <2>1, CommandsOf
    <2>3. a.commands = area.commands /\ a.redo = area.redo /\ a.order = area.order
      BY DEF Commands, CommandsWith
    <2>4. SqlNow(a, cmd, sort) = SqlNow(area, cmd, sort)
      BY DEF SqlNow, Commands, CommandsWith
    <2>5. DiscardCommand(a, a.commands[cmd], sort) <=> DiscardCommand(area, area.commands[cmd], sort)
      BY <2>3 DEF DiscardCommand
    <2>6. /\ a.commands[cmd] # NoStatement
          /\ ~(a.redo /\ cmd \in QueryCommand)
          /\ cmd \in ByNumber \/ ~DiscardCommand(a, a.commands[cmd], sort)
      BY <2>3, <2>5 DEF Reusable
    <2> HIDE DEF a
    <2>7. a.commands[cmd].sql = SqlNow(a, cmd, sort)
      BY <2>1, <2>2, <2>6, NotedFits
    <2> QED
      BY <2>3, <2>4, <2>7
  <1> QED
    BY <1>1, InitWork, NextWork, PTL DEF Spec

(* What a step makes of the row of a record that has something to save,    *)
(* and whose lock was granted.                                             *)
LEMMA RowSaved ==
    ASSUME WorkInv, Next, area.hot, area.record.granted
    PROVE  /\ area.record.pk \in DOMAIN rows
           /\ \/ rows'[area.record.pk] = rows[area.record.pk]
              \/ rows'[area.record.pk] = FlushedRow(area.record)
  <1> DEFINE p == area.record.pk
  <1>1. /\ rows \in Tables /\ OfTable(area, rows) /\ area \in AreaType
    BY InvParts
  <1>2. ~area.append /\ p \in DOMAIN rows
    BY <1>1 DEF OfTable, AsTheRow
  <1>3. /\ FlushedRows = [rows EXCEPT ![p] = FlushedRow(area.record)]
        /\ FlushedRows \in Tables
    BY <1>2, SavedRows
  <1>4. FlushedRows[p] = FlushedRow(area.record) /\ p \in DOMAIN FlushedRows
    BY <1>1, <1>2, <1>3
  <1> HIDE DEF p
  <1>5. ASSUME rows' = FlushedRows
        PROVE  rows'[p] = FlushedRow(area.record)
    BY <1>4, <1>5
  <1>6. ASSUME Movement
        PROVE  rows' = FlushedRows
    BY <1>6 DEF Movement, Skip, GoTop, GoBottom, GoTo, Seek, OrderListAdd, Moves
  <1>7. ASSUME Append
        PROVE  rows'[p] = FlushedRow(area.record)
    <2> DEFINE t == FlushedRows
    <2>1. NextRecno(t) <= MaxRecno /\ (rows' = t \/ rows' = Inserted(t, FlushedRow(BlankRecord)))
      BY <1>7 DEF Append
    <2>2. FlushedRow(BlankRecord) \in Row
      BY BlankIsRecord DEF FlushedRow, Row, Record
    <2> HIDE DEF t
    <2>3. t \in Tables /\ t[p] = FlushedRow(area.record) /\ p \in DOMAIN t
      BY <1>3, <1>4 DEF t
    <2>4. Inserted(t, FlushedRow(BlankRecord))[p] = t[p]
      BY <2>1, <2>2, <2>3, RowKept
    <2> QED
      BY <2>1, <2>3, <2>4
  <1>8. ASSUME Change
        PROVE  rows' = rows \/ rows' = FlushedRows
    BY <1>8 DEF Change, RLock, Reload, PutKey, Delete, Recall, PutDeleted, Flush, Moves
  <1>9. ASSUME Setting
        PROVE  rows' = rows \/ rows' = FlushedRows
    BY <1>9 DEF Setting, OrderListFocus, OrderListClear, SetAreaFilter, ClearAreaFilter, ToggleDeleted
  <1>10. ASSUME Others
         PROVE  rows'[p] = rows[p]
    <2>1. ASSUME NEW q \in DOMAIN rows, NEW r, OthersWrite(q, r)
          PROVE  rows'[p] = rows[p]
      BY <1>2, <2>1 DEF OthersWrite, p
    <2>2. ASSUME NEW k \in 1 .. MaxKey, OthersAppend(k)
          PROVE  rows'[p] = rows[p]
      <3> DEFINE r == [key |-> k, del |-> FALSE]
      <3>1. rows' = Inserted(rows, r) /\ NextRecno(rows) <= MaxRecno
        BY <1>1, <2>2, TableNumbers, WorkAreaAssumption DEF WorkAreaAssumption, OthersAppend
      <3>2. r \in Row
        BY WorkAreaAssumption DEF WorkAreaAssumption, Row, Key
      <3> HIDE DEF r
      <3> QED
        BY <1>1, <1>2, <3>1, <3>2, RowKept
    <2> QED
      BY <1>10, <2>1, <2>2 DEF Others
  <1> QED
    BY <1>2, <1>5, <1>6, <1>7, <1>8, <1>9, <1>10 DEF Next, p

(* A save writes every column, and of a record whose lock was granted it   *)
(* undoes nothing that another session wrote: the lock reads the row       *)
(* again, and from there on the record is as its row is where the program  *)
(* did not change it (sdb_rdd_reloadCurrentRecord, sdb_rdd_api.c:326).     *)
(* It says nothing of a row the program appended and changes again: its    *)
(* lock is not asked for (rdd_append, sdb_rdd_api.c:1728).                 *)
THEOREM NoUpdateIsLost == Spec => NoLostUpdate
  <1> DEFINE NothingLost == LET p == area.record.pk
                      IN  area.hot /\ area.record.granted =>
                             /\ "key" \notin area.changed => rows'[p].key = rows[p].key
                             /\ "del" \notin area.changed => rows'[p].del = rows[p].del
  <1>1. WorkInv /\ [Next]_vars => [NothingLost]_vars
    <2> SUFFICES ASSUME WorkInv, Next, area.hot, area.record.granted
                 PROVE  LET p == area.record.pk
                        IN  /\ "key" \notin area.changed => rows'[p].key = rows[p].key
                            /\ "del" \notin area.changed => rows'[p].del = rows[p].del
      OBVIOUS
    <2> DEFINE p == area.record.pk
    <2>1. AsTheRow(area, rows)
      BY InvParts DEF OfTable
    <2>2. rows'[p] = rows[p] \/ rows'[p] = FlushedRow(area.record)
      BY RowSaved
    <2>3. /\ "key" \notin area.changed => FlushedRow(area.record).key = rows[p].key
          /\ "del" \notin area.changed => FlushedRow(area.record).del = rows[p].del
      BY <2>1 DEF AsTheRow, FlushedRow
    <2> HIDE DEF p
    <2>4. /\ "key" \notin area.changed => rows'[p].key = rows[p].key
          /\ "del" \notin area.changed => rows'[p].del = rows[p].del
      BY <2>2, <2>3
    <2> QED
      BY <2>4 DEF p
  <1> QED
    BY <1>1, InitWork, NextWork, PTL DEF Spec, NoLostUpdate

-----------------------------------------------------------------------------
(* The order of rows and of places, forward and backward.                  *)
Precedes(order, x, y) ==
    \/ order > 0 /\ x.key < y.key
    \/ (order > 0 => x.key = y.key) /\ x.pk < y.pk

Comes(order, sort, x, y) == IF sort = "DESC" THEN Precedes(order, y, x) ELSE Precedes(order, x, y)

Beyond(sort, k, j) == IF sort = "DESC" THEN j < k ELSE j > k

IsSpot(x) == x.pk \in Int /\ x.key \in Int

LEMMA ComesOrder ==
    ASSUME NEW o \in Int, NEW sort, NEW x, NEW y, NEW z, IsSpot(x), IsSpot(y), IsSpot(z)
    PROVE  /\ ~Comes(o, sort, x, x)
           /\ Comes(o, sort, x, y) => ~Comes(o, sort, y, x)
           /\ Comes(o, sort, x, y) /\ Comes(o, sort, y, z) => Comes(o, sort, x, z)
           /\ x.pk # y.pk => Comes(o, sort, x, y) \/ Comes(o, sort, y, x)
  <1>1. CASE sort = "DESC"
    BY <1>1 DEF Comes, Precedes, IsSpot
  <1>2. CASE sort # "DESC"
    BY <1>2 DEF Comes, Precedes, IsSpot
  <1> QED
    BY <1>1, <1>2

LEMMA RankOrder ==
    ASSUME NEW t \in Tables, NEW r \in ResultRow(t), NEW s \in ResultRow(t), NEW o \in Int
    PROVE  Rank(o, r) <= Rank(o, s) <=> ~Precedes(o, s, r)
  <1> DEFINE w == MaxRecno + 2
             j == IF o > 0 THEN r.key ELSE 0
             k == IF o > 0 THEN s.key ELSE 0
  <1>1. /\ r.key \in 0 .. MaxKey /\ r.pk \in DOMAIN t
        /\ s.key \in 0 .. MaxKey /\ s.pk \in DOMAIN t
    BY DEF ResultRow, Key
  <1>2. MaxRecno \in Nat /\ MaxKey \in Nat
    BY WorkAreaAssumption DEF WorkAreaAssumption
  <1>3. r.pk \in Nat /\ s.pk \in Nat /\ 1 <= r.pk /\ 1 <= s.pk /\ r.pk < w /\ s.pk < w
    <2> DEFINE n == NextRecno(t)
    <2>1. n \in Nat /\ n <= MaxRecno + 1 /\ DOMAIN t = 1 .. n - 1
      BY TableNumbers
    <2> HIDE DEF n
    <2> QED
      BY <1>1, <1>2, <2>1
  <1>4. j \in Nat /\ k \in Nat /\ w \in Nat
    BY <1>1, <1>2
  <1>5. Rank(o, r) = j * w + r.pk /\ Rank(o, s) = k * w + s.pk
    BY DEF Rank
  <1>6. Precedes(o, s, r) <=> k < j \/ (k = j /\ s.pk < r.pk)
    BY <1>1, <1>2 DEF Precedes
  <1> HIDE DEF w, j, k
  <1>7. j * w \in Nat /\ k * w \in Nat
    BY <1>4
  <1>8. ASSUME j < k
        PROVE  j * w + w <= k * w
    <2>1. k - j - 1 \in Nat
      BY <1>4, <1>8
    <2>2. k * w = j * w + w + (k - j - 1) * w
      BY <1>4
    <2>3. (k - j - 1) * w \in Nat
      BY <1>4, <2>1
    <2> QED
      BY <1>4, <1>7, <2>2, <2>3
  <1>9. ASSUME k < j
        PROVE  k * w + w <= j * w
    <2>1. j - k - 1 \in Nat
      BY <1>4, <1>9
    <2>2. j * w = k * w + w + (j - k - 1) * w
      BY <1>4
    <2>3. (j - k - 1) * w \in Nat
      BY <1>4, <2>1
    <2> QED
      BY <1>4, <1>7, <2>2, <2>3
  <1>10. CASE j < k
    BY <1>3, <1>4, <1>5, <1>6, <1>7, <1>8, <1>10
  <1>11. CASE k < j
    BY <1>3, <1>4, <1>5, <1>6, <1>7, <1>9, <1>11
  <1>12. CASE j = k
    BY <1>3, <1>4, <1>5, <1>6, <1>7, <1>12
  <1> QED
    BY <1>4, <1>10, <1>11, <1>12

-----------------------------------------------------------------------------
(* The query a movement goes on with.  Sure are the rows that it must come *)
(* to; it covers a place when those after it are in the result set, or, as *)
(* long as a query for the next key would follow, have a key beyond it.    *)
Way(a, x, y) == Comes(CurrentStatement(a).order, CurrentStatement(a).sort, x, y)
Sure(a, t) == a.steady \cap Select(t, CurrentStatement(a).sql)
Ahead(a, g) == \A r \in a.result : Way(a, g, r)

MoreKeys(a) ==
    \/ CurrentStatement(a).more = "YES"
    \/ CurrentStatement(a).more = "IF_FOUND" /\ (a.fetched \/ a.result # {})

Covers(a, t, g) ==
    /\ \A p \in Sure(a, t) : Way(a, g, RowOf(t, p)) =>
          \/ RowOf(t, p) \in a.result
          \/ MoreKeys(a) /\ Beyond(CurrentStatement(a).sort, g.key, t[p].key)
    /\ MoreKeys(a) => \A r \in a.result : r.key = g.key

(* Wherever it begins, the result set leaves out none of the rows after    *)
(* the first one that is taken from it.                                    *)
Primed(a, t) ==
    /\ CurrentStatement(a) \in Statement
    /\ \A r, s \in a.result : r.pk = s.pk => r = s
    /\ \A r \in a.result : r.pk \in a.steady => r = RowOf(t, r.pk)
    /\ a.current \in ByNumber => CurrentStatement(a).sort = "NO"
    /\ a.current \in QueryCommand =>
          /\ CurrentStatement(a).more # "NO" => CurrentStatement(a).order > 0
          /\ \A g \in a.result : Covers(a, t, g)

FilterShown(a) == a.filter # NoFilter => a.block /\ ~a.limits

(* A movement that needs no other query than that.                         *)
OnWay(a, t, sort) ==
    /\ a \in Ready(t)
    /\ Primed(a, t)
    /\ FilterShown(a)
    /\ ~a.redo /\ ~a.unpositioned
    /\ ~DiscardCommand(a, CurrentStatement(a), sort)

(* The rows a query of an area asks for now.                               *)
Asked(a, t) == {p \in DOMAIN t : /\ setDeleted => ~t[p].del
                                 /\ a.filter # NoFilter => t[p].key \in FilterKeys}

SameQuery(a, b) ==
    /\ b.current = a.current /\ CurrentStatement(b) = CurrentStatement(a)
    /\ b.result = a.result /\ b.fetched = a.fetched /\ b.steady = a.steady

LEMMA SameCovers ==
    ASSUME NEW a, NEW b, NEW t, SameQuery(a, b)
    PROVE  /\ Primed(a, t) => Primed(b, t)
           /\ \A g : Covers(a, t, g) => Covers(b, t, g)
           /\ \A g : Ahead(a, g) => Ahead(b, g)
           /\ Sure(b, t) = Sure(a, t)
  <1>1. Sure(b, t) = Sure(a, t)
    BY DEF SameQuery, Sure
  <1>2. \A x, y : Way(b, x, y) <=> Way(a, x, y)
    BY DEF SameQuery, Way
  <1>3. MoreKeys(b) <=> MoreKeys(a)
    BY DEF SameQuery, MoreKeys
  <1>4. \A g : Covers(a, t, g) => Covers(b, t, g)
    BY <1>1, <1>2, <1>3 DEF SameQuery, Covers
  <1>5. \A g : Ahead(a, g) => Ahead(b, g)
    BY <1>2 DEF SameQuery, Ahead
  <1>6. Primed(a, t) => Primed(b, t)
    BY <1>4 DEF SameQuery, Primed
  <1> QED
    BY <1>1, <1>4, <1>5, <1>6

LEMMA RowTypes ==
    ASSUME NEW t \in Tables, NEW p \in DOMAIN t
    PROVE  /\ IsSpot(RowOf(t, p)) /\ RowOf(t, p).pk = p /\ RowOf(t, p).key = t[p].key
           /\ RowOf(t, p) \in ResultRow(t)
           /\ p \in 1 .. MaxRecno /\ p # Blank
           /\ t[p].key \in 0 .. MaxKey /\ t[p].del \in BOOLEAN
  <1>1. t[p] \in Row /\ p \in 1 .. NextRecno(t) - 1 /\ NextRecno(t) \in Nat /\ NextRecno(t) <= MaxRecno + 1
    BY TableNumbers
  <1>2. MaxRecno \in Nat /\ MaxKey \in Nat
    BY WorkAreaAssumption DEF WorkAreaAssumption
  <1>3. t[p].key \in 0 .. MaxKey /\ t[p].del \in BOOLEAN
    BY <1>1 DEF Row, Key
  <1>4. RowOf(t, p) \in ResultRow(t)
    BY <1>3 DEF RowOf, ResultRow, Key
  <1> QED
    BY <1>1, <1>2, <1>3, <1>4 DEF RowOf, IsSpot, Blank

LEMMA OnWayFits ==
    ASSUME NEW t \in Tables, NEW sort \in {"ASC", "DESC"}, NEW a, OnWay(a, t, sort)
    PROVE  /\ a.current \in QueryCommand
           /\ CurrentStatement(a).sort = sort
           /\ CurrentStatement(a).order = a.order
           /\ CurrentStatement(a).sql.sort = sort
           /\ CurrentStatement(a).sql.order = a.order
           /\ a.order \in Int
           /\ Sure(a, t) = a.steady \cap Asked(a, t)
           /\ CurrentStatement(a).more # "NO" => a.order > 0
           /\ \A x, y : Way(a, x, y) <=> Comes(a.order, sort, x, y)
           /\ a.steady \subseteq DOMAIN t
           /\ \A r \in a.result : r \in ResultRow(t) /\ IsSpot(r)
  <1> DEFINE s == CurrentStatement(a)
  <1>1. a \in Ready(t) /\ Primed(a, t) /\ ~a.redo /\ ~DiscardCommand(a, s, sort)
    BY DEF OnWay
  <1>2. a \in AreaType /\ Noted(a) /\ OfTable(a, t) /\ a.current \in Command
    BY <1>1, ReadyParts
  <1>3. s.sort = sort /\ s.order = a.order /\ s.deleted = setDeleted
    BY <1>1 DEF DiscardCommand
  <1>4. s \in Statement /\ s = a.commands[a.current]
    BY <1>1 DEF Primed, CurrentStatement
  <1> HIDE DEF s
  <1>5. a.current \in QueryCommand
    BY <1>1, <1>2, <1>3, TwoKinds DEF Primed, s
  <1>6. s # NoStatement
    BY <1>4, CommandsAssumption DEF CommandsAssumption
  <1>7. QueryNoted(a, a.current)
    BY <1>2, <1>4, <1>5, <1>6 DEF Noted
  <1>8. s.sql.sort = sort /\ s.sql.order = a.order /\ s.sql.deleted = setDeleted
        /\ s.sql.filter = a.filter
    BY <1>1, <1>3, <1>4, <1>7 DEF QueryNoted
  <1>9. a.order \in Int
    BY <1>2, AreaParts, CommandsAssumption DEF Order, CommandsAssumption
  <1>10. Select(t, s.sql) = Asked(a, t)
    BY <1>8 DEF Select, Asked
  <1>11. Sure(a, t) = a.steady \cap Asked(a, t)
    BY <1>10 DEF Sure, s
  <1>12. s.more # "NO" => a.order > 0
    BY <1>1, <1>3, <1>5 DEF Primed, s
  <1>13. \A x, y : Way(a, x, y) <=> Comes(a.order, sort, x, y)
    BY <1>3 DEF Way, s
  <1>14. a.steady \subseteq DOMAIN t /\ a.result \subseteq ResultRow(t)
    BY <1>2 DEF OfTable
  <1>15. ASSUME NEW r \in a.result
         PROVE  r \in ResultRow(t) /\ IsSpot(r)
    <2>1. r \in ResultRow(t)
      BY <1>14
    <2>2. r.pk \in 1 .. NextRecno(t) - 1 /\ r.key \in 0 .. MaxKey
      BY <2>1, TableNumbers DEF ResultRow, Key
    <2> QED
      BY <2>1, <2>2, TableNumbers, WorkAreaAssumption DEF IsSpot, WorkAreaAssumption
  <1> QED
    BY <1>3, <1>5, <1>8, <1>9, <1>11, <1>12, <1>13, <1>14, <1>15 DEF s

-----------------------------------------------------------------------------
(* A query that was just made.                                             *)

(* What no query and no fetch changes.                                     *)
SameSettings(a, b) ==
    /\ b.order = a.order /\ b.filter = a.filter /\ b.block = a.block /\ b.limits = a.limits
    /\ b.exact = a.exact /\ b.immediate = a.immediate

SameRecord(a, b) ==
    /\ b.record = a.record /\ b.keyValue = a.keyValue /\ b.changed = a.changed /\ b.lost = a.lost

SameFlags(a, b) ==
    b.bof = a.bof /\ b.eof = a.eof /\ b.found = a.found /\ b.bottom = a.bottom

StatementNow(a, cmd, sort, more) ==
    [sql |-> SqlNow(a, cmd, sort), sort |-> sort, order |-> a.order, deleted |-> setDeleted,
     more |-> more]

LEMMA PreparedFits ==
    ASSUME setDeleted \in BOOLEAN, NEW a \in AreaType, Noted(a), NEW cmd \in Command,
           NEW sort \in UsesOf(cmd), NEW more \in More, NEW unused
    PROVE  LET b == Prepared(a, unused, cmd, sort, more)
           IN  /\ b.commands[cmd] = StatementNow(a, cmd, sort, more)
               /\ ~b.redo /\ ~b.unpositioned
  <1> DEFINE r == ReleaseStatements(a, unused \ {cmd})
             c == CloseQueryStatements(r, cmd, sort)
             sql == SqlNow(a, cmd, sort)
             b == PrepareQueryCommand(c, cmd, sort, more, sql)
             kept == IF c.commands[cmd] = NoStatement THEN sql ELSE c.commands[cmd].sql
             s == [sql |-> kept, sort |-> sort, order |-> c.order, deleted |-> setDeleted,
                   more |-> more]
  <1>1. sort \in Sort
    BY DEF UsesOf, Sort, Command, ByNumber, QueryCommand
  <1>2. /\ r \in AreaType
        /\ SameButCommands(a, r)
        /\ Commands(r) = ReleaseStatements(Commands(a), unused \ {cmd})
    BY ReleaseOfArea
  <1>3. /\ c \in AreaType
        /\ SameButCommands(r, c)
        /\ Commands(c) = CloseQueryStatements(Commands(r), cmd, sort)
    <2> HIDE DEF r
    <2> QED
      BY <1>2, CloseOfArea
  <1>4. Commands(a) \in AreaFields /\ Noted(Commands(a))
    BY CommandsOf
  <1>5. Commands(r) \in AreaFields /\ Noted(Commands(r))
    BY <1>2, <1>4, ReleaseKeeps
  <1>6. Prepared(a, unused, cmd, sort, more) = b
    BY DEF Prepared
  <1>7. ~Commands(c).redo
    <2> HIDE DEF r, c
    <2> QED
      BY <1>1, <1>3, <1>5, CloseKeeps
  <1> HIDE DEF r, c
  <1>8. ~c.redo
    BY <1>7 DEF Commands, CommandsWith
  <1>9. c.order = a.order
    BY <1>2, <1>3, SameRest
  <1>10. b = [c EXCEPT !.commands = [c.commands EXCEPT ![cmd] = s], !.current = cmd,
                       !.unpositioned = FALSE]
    BY <1>3 DEF PrepareQueryCommand, AreaType
  <1>11. c.commands \in [Command -> Statement \cup {NoStatement}]
    BY <1>3, AreaParts
  <1> DEFINE new == [c.commands EXCEPT ![cmd] = s]
  <1>12. new[cmd] = s
    BY <1>11
  <1> HIDE DEF s, new, b
  <1>13. b.commands = new /\ b.redo = c.redo /\ ~b.unpositioned
    BY <1>3, <1>10 DEF AreaType, new
  <1>14. /\ b \in AreaType /\ Noted(b) /\ SameButCommands(a, b)
    BY <1>6, PreparedArea
  <1>15. b.commands[cmd] # NoStatement
    <2>1. s \in Statement
      <3>1. sql \in Sql
        <4>1. SqlNow(a, cmd, sort) = SqlNow(Commands(a), cmd, sort)
          BY DEF SqlNow, Commands, CommandsWith
        <4> QED
          BY <1>1, <1>4, <4>1, SqlTypes
      <3>2. c.order \in Order
        BY <1>3, AreaParts
      <3> HIDE DEF sql
      <3>3. kept \in Sql
        BY <1>11, <3>1 DEF Statement
      <3> QED
        BY <1>1, <3>2, <3>3 DEF Statement, s
    <2> QED
      BY <1>12, <1>13, <2>1, CommandsAssumption DEF CommandsAssumption
  <1>16. b.commands[cmd].sql = SqlNow(a, cmd, sort)
    <2>1. Commands(b) \in AreaFields /\ Noted(Commands(b))
      BY <1>14, CommandsOf
    <2>2. /\ Commands(b).commands = b.commands /\ Commands(b).redo = b.redo
          /\ Commands(b).order = b.order
      BY DEF Commands, CommandsWith
    <2>3. b.order = a.order /\ b.filter = a.filter /\ b.limits = a.limits
      BY <1>14, SameRest
    <2>4. ~DiscardCommand(Commands(b), Commands(b).commands[cmd], sort)
      BY <1>9, <1>12, <1>13, <2>2, <2>3 DEF DiscardCommand, s
    <2>5. Commands(b).commands[cmd].sql = SqlNow(Commands(b), cmd, sort)
      BY <1>8, <1>13, <1>15, <2>1, <2>2, <2>4, NotedFits
    <2>6. SqlNow(Commands(b), cmd, sort) = SqlNow(a, cmd, sort)
      BY <2>3 DEF SqlNow, Commands, CommandsWith
    <2> QED
      BY <2>2, <2>5, <2>6
  <1>17. b.commands[cmd] = StatementNow(a, cmd, sort, more)
    BY <1>9, <1>12, <1>13, <1>16 DEF s, StatementNow
  <1> QED
    BY <1>6, <1>8, <1>13, <1>17

LEMMA RunQueryIs ==
    ASSUME setDeleted \in BOOLEAN, NEW t \in Tables, NEW a \in Settled(t), NEW cmd \in Command,
           NEW sort \in UsesOf(cmd), NEW more \in More, NEW S
    PROVE  LET b == RunQuery(a, t, cmd, sort, more, S)
               sql == SqlNow(a, cmd, sort)
               limited == {p \in DOMAIN t : sql.limits => t[p].key \in LimitKeys(t, sql)}
           IN  /\ b.current = cmd
               /\ CurrentStatement(b) = StatementNow(a, cmd, sort, more)
               /\ CurrentStatement(b) \in Statement
               /\ b.result = {RowOf(t, p) : p \in Select(t, sql) \cap limited \cap S}
               /\ ~b.fetched /\ b.steady = DOMAIN t
               /\ ~b.redo /\ ~b.unpositioned
               /\ SameSettings(a, b) /\ SameRecord(a, b) /\ SameFlags(a, b)
  <1> DEFINE b == Prepared(a, Command \ Kept, cmd, sort, more)
             sql == b.commands[cmd].sql
             limited == {p \in DOMAIN t : sql.limits => t[p].key \in LimitKeys(t, sql)}
             got == {RowOf(t, p) : p \in Select(t, sql) \cap limited \cap S}
             c == [b EXCEPT !.result = got, !.fetched = FALSE, !.steady = DOMAIN t]
  <1>1. a \in AreaType /\ Noted(a)
    BY DEF Settled, Areas
  <1>2. b \in AreaType /\ SameButCommands(a, b) /\ b.current = cmd
    BY <1>1, PreparedArea
  <1>3. b.commands[cmd] = StatementNow(a, cmd, sort, more) /\ ~b.redo /\ ~b.unpositioned
    BY <1>1, PreparedFits
  <1>4. RunQuery(a, t, cmd, sort, more, S) = c
    BY DEF RunQuery
  <1>5. sql = SqlNow(a, cmd, sort)
    BY <1>3 DEF StatementNow
  <1>6. b.commands[cmd] \in Statement
    <2>1. b.commands[cmd] \in Statement \cup {NoStatement}
      BY <1>2, AreaParts
    <2>2. StatementNow(a, cmd, sort, more) \in Statement
      <3>1. Commands(a) \in AreaFields
        BY <1>1, CommandsOf
      <3>2. SqlNow(a, cmd, sort) = SqlNow(Commands(a), cmd, sort)
        BY DEF SqlNow, Commands, CommandsWith
      <3>3. sort \in Sort
        BY DEF UsesOf, Sort, Command, ByNumber, QueryCommand
      <3>4. SqlNow(a, cmd, sort) \in Sql
        BY <3>1, <3>2, <3>3, SqlTypes
      <3>5. a.order \in Order
        BY <1>1, AreaParts
      <3> QED
        BY <3>3, <3>4, <3>5 DEF StatementNow, Statement
    <2> QED
      BY <1>3, <2>2
  <1> HIDE DEF sql, b
  <1>7. /\ SameSettings(a, b) /\ SameRecord(a, b) /\ SameFlags(a, b)
    BY <1>1, <1>2, SameRest DEF SameSettings, SameRecord, SameFlags
  <1> HIDE DEF got
  <1>8. /\ c.current = b.current /\ c.commands = b.commands /\ c.result = got
        /\ ~c.fetched /\ c.steady = DOMAIN t /\ c.redo = b.redo /\ c.unpositioned = b.unpositioned
    BY <1>2 DEF AreaType
  <1>9. /\ SameSettings(b, c) /\ SameRecord(b, c) /\ SameFlags(b, c)
    BY <1>2 DEF AreaType, SameSettings, SameRecord, SameFlags
  <1> HIDE DEF c
  <1>10. SameSettings(a, c) /\ SameRecord(a, c) /\ SameFlags(a, c)
    BY <1>7, <1>9 DEF SameSettings, SameRecord, SameFlags
  <1> QED
    BY <1>2, <1>3, <1>4, <1>5, <1>6, <1>8, <1>10 DEF CurrentStatement, got

(* What covers a place covers the places of its rows.                      *)
LEMMA CoversRows ==
    ASSUME NEW t \in Tables, NEW a, a.result \subseteq ResultRow(t), a.steady \subseteq DOMAIN t,
           CurrentStatement(a).order \in Int, NEW g, IsSpot(g), Covers(a, t, g), Ahead(a, g),
           NEW r \in a.result
    PROVE  Covers(a, t, r)
  <1>1. IsSpot(r)
    <2>1. r.pk \in DOMAIN t /\ r.key \in Key
      BY DEF ResultRow
    <2> QED
      BY <2>1, TableNumbers, WorkAreaAssumption DEF IsSpot, WorkAreaAssumption, Key
  <1>2. Way(a, g, r)
    BY DEF Ahead
  <1>3. MoreKeys(a) => r.key = g.key
    BY DEF Covers
  <1>4. ASSUME NEW p \in Sure(a, t), Way(a, r, RowOf(t, p))
        PROVE  \/ RowOf(t, p) \in a.result
               \/ MoreKeys(a) /\ Beyond(CurrentStatement(a).sort, r.key, t[p].key)
    <2>1. p \in DOMAIN t
      BY DEF Sure
    <2>2. IsSpot(RowOf(t, p))
      BY <2>1, RowTypes
    <2>3. Way(a, g, RowOf(t, p))
      BY <1>1, <1>2, <1>4, <2>2, ComesOrder DEF Way
    <2> QED
      BY <1>3, <2>3 DEF Covers
  <1>5. MoreKeys(a) => \A q \in a.result : q.key = r.key
    BY <1>3 DEF Covers
  <1> QED
    BY <1>4, <1>5 DEF Covers

(* A query whose result set covers a place.                                *)
LEMMA QueryOnWay ==
    ASSUME setDeleted \in BOOLEAN, NEW t \in Tables, NEW a \in Settled(t), FilterShown(a),
           NEW cmd \in QueryCommand, NEW sort \in UsesOf(cmd), NEW more \in More, NEW S,
           more # "NO" => a.order > 0, NEW b, b = RunQuery(a, t, cmd, sort, more, S),
           NEW g, IsSpot(g), Covers(b, t, g), Ahead(b, g)
    PROVE  OnWay(b, t, sort)
  <1> DEFINE sql == SqlNow(a, cmd, sort)
             C == Select(t, sql)
                    \cap {p \in DOMAIN t : sql.limits => t[p].key \in LimitKeys(t, sql)} \cap S
  <1>1. cmd \in Command
    BY DEF Command
  <1>2. /\ b.current = cmd
        /\ CurrentStatement(b) = StatementNow(a, cmd, sort, more)
        /\ CurrentStatement(b) \in Statement
        /\ b.result = {RowOf(t, p) : p \in C}
        /\ ~b.fetched /\ b.steady = DOMAIN t
        /\ ~b.redo /\ ~b.unpositioned
        /\ SameSettings(a, b)
    BY <1>1, RunQueryIs
  <1>3. b \in Ready(t)
    BY <1>1, RunQueryReady
  <1>4. b.result \subseteq ResultRow(t)
    BY <1>3, ReadyParts DEF OfTable
  <1>5. CurrentStatement(b).order = a.order /\ CurrentStatement(b).more = more
        /\ CurrentStatement(b).sort = sort /\ CurrentStatement(b).deleted = setDeleted
    BY <1>2 DEF StatementNow
  <1>6. a.order \in Int
    <2>1. a \in AreaType
      BY DEF Settled, Areas
    <2> QED
      BY <2>1, AreaParts, CommandsAssumption DEF Order, CommandsAssumption
  <1>7. \A r \in b.result : Covers(b, t, r)
    BY <1>2, <1>4, <1>5, <1>6, CoversRows
  <1>8. \A r, s \in b.result : r.pk = s.pk => r = s
    BY <1>2 DEF RowOf
  <1>9. \A r \in b.result : r = RowOf(t, r.pk)
    BY <1>2 DEF RowOf
  <1>10. b.current \notin ByNumber
    BY <1>2, TwoKinds
  <1> HIDE DEF sql, C
  <1>11. Primed(b, t)
    BY <1>2, <1>5, <1>7, <1>8, <1>9, <1>10 DEF Primed
  <1>12. ~DiscardCommand(b, CurrentStatement(b), sort)
    BY <1>2, <1>5 DEF DiscardCommand, SameSettings
  <1>13. FilterShown(b)
    BY <1>2 DEF FilterShown, SameSettings
  <1> QED
    BY <1>2, <1>3, <1>11, <1>12, <1>13 DEF OnWay

RowsOf(t, R) == {RowOf(t, p) : p \in R}

(* The rows that a query without limits finds.                             *)
LEMMA FoundRows ==
    ASSUME setDeleted \in BOOLEAN, NEW t \in Tables, NEW a \in Settled(t),
           NEW cmd \in QueryCommand, NEW sort \in UsesOf(cmd), NEW more \in More, NEW S,
           cmd \in {"GO_TOP", "GO_BOTTOM"} => ~a.limits \/ a.order = 0
    PROVE  LET b == RunQuery(a, t, cmd, sort, more, S)
           IN  /\ b.result = RowsOf(t, Asked(a, t) \cap S)
               /\ Sure(b, t) = Asked(a, t)
  <1> DEFINE sql == SqlNow(a, cmd, sort)
             b == RunQuery(a, t, cmd, sort, more, S)
             limited == {p \in DOMAIN t : sql.limits => t[p].key \in LimitKeys(t, sql)}
  <1>1. cmd \in Command /\ cmd \notin ByNumber
    BY TwoKinds DEF Command
  <1>2. /\ CurrentStatement(b) = StatementNow(a, cmd, sort, more)
        /\ b.result = {RowOf(t, p) : p \in Select(t, sql) \cap limited \cap S}
        /\ b.steady = DOMAIN t
    BY <1>1, RunQueryIs
  <1>3. sql.deleted = setDeleted /\ sql.filter = a.filter
    BY <1>1 DEF SqlNow
  <1>4. ~sql.limits
    <2>a. a.limits \in BOOLEAN
      BY AreaParts DEF Settled, Areas
    <2>1. sql.limits = (cmd \in {"GO_TOP", "GO_BOTTOM"} /\ a.limits /\ a.order > 0)
      BY DEF SqlNow
    <2>2. CASE cmd \notin {"GO_TOP", "GO_BOTTOM"}
      BY <2>1, <2>2
    <2>3. CASE ~a.limits
      BY <2>a, <2>1, <2>3
    <2>4. CASE a.order = 0
      <3>1. ~(a.order > 0)
        BY <2>4
      <3> QED
        BY <2>a, <2>1, <3>1
    <2> QED
      BY <2>2, <2>3, <2>4
  <1>5. Select(t, sql) = Asked(a, t)
    BY <1>3 DEF Select, Asked
  <1>6. limited = DOMAIN t
    BY <1>4
  <1>7. Asked(a, t) \subseteq DOMAIN t
    BY DEF Asked
  <1>8. CurrentStatement(b).sql = sql
    BY <1>2 DEF StatementNow
  <1> HIDE DEF sql, limited, b
  <1>9. Select(t, sql) \cap limited \cap S = Asked(a, t) \cap S
    BY <1>5, <1>6, <1>7
  <1>10. Sure(b, t) = Asked(a, t)
    BY <1>2, <1>5, <1>7, <1>8 DEF Sure
  <1> QED
    BY <1>2, <1>9, <1>10 DEF b, RowsOf

(* When a query covers a place, in terms of the rows it asks for.          *)
Reaching(a, t, sort, more, R, g) ==
    /\ IsSpot(g)
    /\ more # "NO" => a.order > 0
    /\ R \subseteq Asked(a, t)
    /\ \A p \in R : Comes(a.order, sort, g, RowOf(t, p))
    /\ \A p \in Asked(a, t) \ R : Comes(a.order, sort, g, RowOf(t, p)) =>
          /\ more = "YES" \/ (more = "IF_FOUND" /\ R # {})
          /\ Beyond(sort, g.key, t[p].key)
    /\ more # "NO" => \A p \in R : t[p].key = g.key

LEMMA QueryReaches ==
    ASSUME setDeleted \in BOOLEAN, NEW t \in Tables, NEW a \in Settled(t), FilterShown(a),
           NEW cmd \in QueryCommand, NEW sort \in UsesOf(cmd), NEW more \in More, NEW S, NEW R,
           NEW g, NEW b, b = RunQuery(a, t, cmd, sort, more, S),
           b.result = RowsOf(t, R),
           Reaching(a, t, sort, more, R, g)
    PROVE  /\ OnWay(b, t, sort)
           /\ Covers(b, t, g) /\ Ahead(b, g)
           /\ b.steady = DOMAIN t /\ ~b.fetched
           /\ CurrentStatement(b).more = more
           /\ SameSettings(a, b) /\ SameRecord(a, b) /\ SameFlags(a, b)
  <1> DEFINE sql == SqlNow(a, cmd, sort)
  <1> USE DEF Reaching
  <1>1. cmd \in Command /\ cmd \notin ByNumber
    BY TwoKinds DEF Command
  <1>2. /\ CurrentStatement(b) = StatementNow(a, cmd, sort, more)
        /\ ~b.fetched /\ b.steady = DOMAIN t
        /\ SameSettings(a, b) /\ SameRecord(a, b) /\ SameFlags(a, b)
    BY <1>1, RunQueryIs
  <1>3. /\ CurrentStatement(b).order = a.order /\ CurrentStatement(b).more = more
        /\ CurrentStatement(b).sort = sort /\ CurrentStatement(b).sql = sql
    BY <1>2 DEF StatementNow
  <1>4. sql.deleted = setDeleted /\ sql.filter = a.filter
    BY <1>1 DEF SqlNow
  <1>5. Select(t, sql) = Asked(a, t) /\ Asked(a, t) \subseteq DOMAIN t
    BY <1>4 DEF Select, Asked
  <1>6. Sure(b, t) = Asked(a, t)
    BY <1>2, <1>3, <1>5 DEF Sure
  <1> HIDE DEF sql
  <1>7. \A x, y : Way(b, x, y) <=> Comes(a.order, sort, x, y)
    BY <1>3 DEF Way
  <1>8. Ahead(b, g)
    BY <1>7 DEF Ahead, RowsOf
  <1>9. MoreKeys(b) <=> more = "YES" \/ (more = "IF_FOUND" /\ R # {})
    <2>1. b.result # {} <=> R # {}
      BY DEF RowsOf
    <2> QED
      BY <1>2, <1>3, <2>1 DEF MoreKeys
  <1>10. ASSUME NEW p \in Sure(b, t), Way(b, g, RowOf(t, p))
         PROVE  \/ RowOf(t, p) \in b.result
                \/ MoreKeys(b) /\ Beyond(CurrentStatement(b).sort, g.key, t[p].key)
    BY <1>3, <1>6, <1>7, <1>9, <1>10 DEF RowsOf
  <1>11. MoreKeys(b) => \A r \in b.result : r.key = g.key
    BY <1>9 DEF RowOf, RowsOf
  <1>12. Covers(b, t, g)
    BY <1>10, <1>11 DEF Covers
  <1>13. OnWay(b, t, sort)
    BY <1>8, <1>12, QueryOnWay
  <1> QED
    BY <1>2, <1>3, <1>8, <1>12, <1>13

(* The commands that have a direction of their own.                        *)
LEMMA DirectedCommands ==
    /\ {"NEXT_KEY_DESC", "NEXT_KEY_ASC", "NEXT_RECNO_DESC", "NEXT_RECNO_ASC", "GO_TOP",
        "GO_BOTTOM", "SEEK", "SEEK_EXACT"} \subseteq QueryCommand
    /\ "DESC" \in UsesOf("NEXT_KEY_DESC") /\ "ASC" \in UsesOf("NEXT_KEY_ASC")
    /\ "DESC" \in UsesOf("NEXT_RECNO_DESC") /\ "ASC" \in UsesOf("NEXT_RECNO_ASC")
    /\ "ASC" \in UsesOf("GO_TOP") /\ "DESC" \in UsesOf("GO_BOTTOM")
    /\ \A sort \in {"ASC", "DESC"} : sort \in UsesOf("SEEK") /\ sort \in UsesOf("SEEK_EXACT")
    /\ {"NO", "YES", "IF_FOUND"} \subseteq More
  BY DEF Command, ByNumber, QueryCommand, UsesOf, More

(* Before all rows of a key, and after them.                               *)
Start(sort, k) == [pk |-> IF sort = "DESC" THEN Blank ELSE 0, key |-> k]
After(sort, k) == [pk |-> IF sort = "DESC" THEN 0 ELSE Blank, key |-> k]

LEMMA KeyEnds ==
    ASSUME NEW t \in Tables, NEW p \in DOMAIN t, NEW o \in Int, NEW k \in Int,
           NEW sort \in {"ASC", "DESC"}
    PROVE  /\ IsSpot(Start(sort, k)) /\ IsSpot(After(sort, k))
           /\ Start(sort, k).key = k /\ After(sort, k).key = k
           /\ o > 0 => /\ Comes(o, sort, After(sort, k), RowOf(t, p)) <=> Beyond(sort, k, t[p].key)
                       /\ Comes(o, sort, Start(sort, k), RowOf(t, p)) <=>
                             t[p].key = k \/ Beyond(sort, k, t[p].key)
           /\ ~(o > 0) => Comes(o, sort, Start(sort, k), RowOf(t, p))
                          /\ ~Comes(o, sort, After(sort, k), RowOf(t, p))
  <1>1. /\ RowOf(t, p).pk = p /\ RowOf(t, p).key = t[p].key
        /\ p \in 1 .. MaxRecno /\ t[p].key \in 0 .. MaxKey
    BY RowTypes
  <1>2. MaxRecno \in Nat /\ MaxKey \in Nat
    BY WorkAreaAssumption DEF WorkAreaAssumption
  <1>3. CASE sort = "DESC"
    BY <1>1, <1>2, <1>3 DEF Comes, Precedes, Beyond, Start, After, IsSpot, Blank
  <1>4. CASE sort = "ASC"
    BY <1>1, <1>2, <1>4 DEF Comes, Precedes, Beyond, Start, After, IsSpot, Blank
  <1> QED
    BY <1>3, <1>4

LEMMA KeyBounds ==
    ASSUME NEW t \in Tables, NEW p \in DOMAIN t, NEW o \in Int, o > 0, NEW k \in Int,
           NEW sort \in {"ASC", "DESC"}
    PROVE  /\ Comes(o, sort, After(sort, k), RowOf(t, p)) <=> Beyond(sort, k, t[p].key)
           /\ Comes(o, sort, Start(sort, k), RowOf(t, p)) <=> t[p].key = k \/ Beyond(sort, k, t[p].key)
  BY KeyEnds

LEMMA KeyBeyond ==
    ASSUME NEW o \in Int, o > 0, NEW sort \in {"ASC", "DESC"}, NEW k \in Int,
           NEW x, x.pk \in 1 .. MaxRecno, x.key \in Int, NEW g, IsSpot(g)
    PROVE  /\ Comes(o, sort, After(sort, k), x) <=> Beyond(sort, k, x.key)
           /\ Beyond(sort, g.key, x.key) => Comes(o, sort, g, x)
  <1>1. MaxRecno \in Nat
    BY WorkAreaAssumption DEF WorkAreaAssumption
  <1>2. CASE sort = "DESC"
    BY <1>1, <1>2 DEF Comes, Precedes, Beyond, After, IsSpot, Blank
  <1>3. CASE sort = "ASC"
    BY <1>1, <1>3 DEF Comes, Precedes, Beyond, After, IsSpot, Blank
  <1> QED
    BY <1>2, <1>3

LEMMA NextKeyReaches ==
    ASSUME setDeleted \in BOOLEAN, NEW t \in Tables, NEW sort \in {"ASC", "DESC"},
           NEW a, OnWay(a, t, sort), a.order > 0
    PROVE  LET b == QueryNextKey(a, t)
           IN  /\ OnWay(b, t, sort)
               /\ b.result = RowsOf(t, {q \in Asked(a, t) : Beyond(sort, a.record.key, t[q].key)})
               /\ b.steady = DOMAIN t
               /\ CurrentStatement(b).more = "NO"
               /\ SameSettings(a, b) /\ SameRecord(a, b) /\ SameFlags(a, b)
               /\ LET g == After(sort, a.record.key)
                  IN  IsSpot(g) /\ Covers(b, t, g) /\ Ahead(b, g)
  <1> DEFINE cmd == IF sort = "DESC" THEN "NEXT_KEY_DESC" ELSE "NEXT_KEY_ASC"
             S == {p \in DOMAIN t : Beyond(sort, a.record.key, t[p].key)}
             R == {q \in Asked(a, t) : Beyond(sort, a.record.key, t[q].key)}
             b == RunQuery(a, t, cmd, sort, "NO", S)
             g == After(sort, a.record.key)
  <1>1. a \in Ready(t) /\ FilterShown(a)
    BY DEF OnWay
  <1>2. a \in Settled(t) /\ a \in AreaType
    BY <1>1, ReadyParts
  <1>3. CurrentStatement(a).sort = sort /\ a.order \in Int
    BY OnWayFits
  <1>4. QueryNextKey(a, t) = b
    BY <1>3 DEF QueryNextKey, Beyond
  <1>5. cmd \in QueryCommand /\ sort \in UsesOf(cmd) /\ "NO" \in More
        /\ cmd \notin {"GO_TOP", "GO_BOTTOM"}
    BY DirectedCommands
  <1>6. a.record.key \in Int
    BY <1>2, AreaParts, WorkAreaAssumption DEF Record, Key, WorkAreaAssumption
  <1>7. Asked(a, t) \subseteq DOMAIN t
    BY DEF Asked
  <1> HIDE DEF cmd
  <1>8. b.result = RowsOf(t, Asked(a, t) \cap S)
    BY <1>2, <1>5, FoundRows
  <1>9. Asked(a, t) \cap S = R
    BY <1>7
  <1>10. IsSpot(g) /\ \A p \in DOMAIN t : Comes(a.order, sort, g, RowOf(t, p))
                                            <=> Beyond(sort, a.record.key, t[p].key)
    <2>1. IsSpot(g)
      BY <1>6, WorkAreaAssumption DEF After, IsSpot, Blank, WorkAreaAssumption
    <2>2. ASSUME NEW p \in DOMAIN t
          PROVE  Comes(a.order, sort, g, RowOf(t, p)) <=> Beyond(sort, a.record.key, t[p].key)
      BY <1>3, <1>6, KeyEnds
    <2> QED
      BY <2>1, <2>2
  <1> HIDE DEF b, g, S
  <1>11. b.result = RowsOf(t, R)
    BY <1>8, <1>9
  <1>12. b = RunQuery(a, t, cmd, sort, "NO", S)
    BY DEF b
  <1>13. Reaching(a, t, sort, "NO", R, g)
    BY <1>7, <1>10 DEF Reaching
  <1> HIDE DEF R
  <1>14. /\ OnWay(b, t, sort) /\ Covers(b, t, g) /\ Ahead(b, g)
         /\ b.steady = DOMAIN t
         /\ CurrentStatement(b).more = "NO"
         /\ SameSettings(a, b) /\ SameRecord(a, b) /\ SameFlags(a, b)
    BY <1>1, <1>2, <1>5, <1>11, <1>12, <1>13, QueryReaches
  <1> QED
    BY <1>4, <1>10, <1>11, <1>14 DEF R, g

(* Where the record of an area is.                                         *)
At(a) == [pk |-> a.record.pk, key |-> a.record.key]

LEMMA AtTypes ==
    ASSUME NEW a \in AreaType
    PROVE  /\ IsSpot(At(a)) /\ At(a).pk = a.record.pk /\ At(a).key = a.record.key
           /\ a.record.pk \in 1 .. Blank /\ a.record.key \in 0 .. MaxKey
           /\ a.order \in Nat
  <1>1. a.record \in Record /\ a.order \in Order
    BY AreaParts
  <1> QED
    BY <1>1, WorkAreaAssumption, CommandsAssumption
       DEF At, IsSpot, Record, Key, Blank, Order, WorkAreaAssumption, CommandsAssumption

LEMMA NextRecordReaches ==
    ASSUME setDeleted \in BOOLEAN, NEW t \in Tables, NEW sort \in {"ASC", "DESC"},
           NEW a \in Settled(t), FilterShown(a)
    PROVE  LET b == QueryNextRecord(a, t, sort)
           IN  /\ OnWay(b, t, sort)
               /\ Covers(b, t, At(a)) /\ Ahead(b, At(a))
               /\ b.steady = DOMAIN t
               /\ SameSettings(a, b) /\ SameRecord(a, b) /\ SameFlags(a, b)
  <1> DEFINE down == sort = "DESC"
             cmd == IF down THEN "NEXT_RECNO_DESC" ELSE "NEXT_RECNO_ASC"
             more == IF a.order > 0 THEN "YES" ELSE "NO"
             S == {p \in DOMAIN t : /\ IF down THEN p < a.record.pk ELSE p > a.record.pk
                                    /\ a.order > 0 => t[p].key = a.record.key}
             R == Asked(a, t) \cap S
             b == RunQuery(a, t, cmd, sort, more, S)
             g == At(a)
  <1>1. a \in AreaType
    BY DEF Settled, Areas
  <1>2. /\ IsSpot(g) /\ g.pk = a.record.pk /\ g.key = a.record.key /\ a.order \in Nat
    BY <1>1, AtTypes
  <1>3. QueryNextRecord(a, t, sort) = b
    BY DEF QueryNextRecord
  <1>4. cmd \in QueryCommand /\ sort \in UsesOf(cmd) /\ cmd \notin {"GO_TOP", "GO_BOTTOM"}
    BY DirectedCommands
  <1>5. more \in More
    BY DirectedCommands
  <1> HIDE DEF cmd
  <1>6. ASSUME NEW p \in DOMAIN t
        PROVE  /\ p \in S => Comes(a.order, sort, g, RowOf(t, p))
               /\ p \notin S /\ Comes(a.order, sort, g, RowOf(t, p)) =>
                     a.order > 0 /\ Beyond(sort, g.key, t[p].key)
    <2>1. /\ RowOf(t, p).pk = p /\ RowOf(t, p).key = t[p].key
          /\ p \in Int /\ t[p].key \in Int
      BY RowTypes
    <2>2. g.pk \in Int /\ g.key \in Int
      BY <1>2 DEF IsSpot
    <2>3. p \in S <=> /\ IF down THEN p < g.pk ELSE p > g.pk
                      /\ a.order > 0 => t[p].key = g.key
      BY <1>2
    <2> HIDE DEF S, g
    <2>4. CASE a.order > 0
      BY <2>1, <2>2, <2>3, <2>4 DEF Comes, Precedes, Beyond
    <2>5. CASE ~(a.order > 0)
      BY <2>1, <2>2, <2>3, <2>5 DEF Comes, Precedes, Beyond
    <2> QED
      BY <2>4, <2>5
  <1>7. a.order > 0 => \A p \in S : t[p].key = g.key
    BY <1>2
  <1>8. Asked(a, t) \subseteq DOMAIN t
    BY DEF Asked
  <1> HIDE DEF S, g
  <1>9. Reaching(a, t, sort, more, R, g)
    BY <1>2, <1>6, <1>7, <1>8 DEF Reaching
  <1> HIDE DEF more
  <1>10. b.result = RowsOf(t, R)
    BY <1>4, <1>5, FoundRows
  <1>11. b = RunQuery(a, t, cmd, sort, more, S)
    OBVIOUS
  <1> HIDE DEF R, b
  <1>12. /\ OnWay(b, t, sort)
         /\ Covers(b, t, g) /\ Ahead(b, g)
         /\ b.steady = DOMAIN t
         /\ SameSettings(a, b) /\ SameRecord(a, b) /\ SameFlags(a, b)
    BY <1>4, <1>5, <1>9, <1>10, <1>11, QueryReaches
  <1> QED
    BY <1>3, <1>12 DEF g

LEMMA SeekReaches ==
    ASSUME setDeleted \in BOOLEAN, NEW t \in Tables, NEW sort \in {"ASC", "DESC"},
           NEW a \in Settled(t), FilterShown(a), a.order > 0, NEW k \in Int, NEW soft \in BOOLEAN
    PROVE  LET b == QuerySeek(a, t, k, sort, soft)
           IN  /\ OnWay(b, t, sort)
               /\ b.steady = DOMAIN t
               /\ ~IsQueryMore(b)
               /\ SameSettings(a, b) /\ SameRecord(a, b) /\ SameFlags(a, b)
               /\ \/ b.result = {} /\ ~soft /\ \A p \in Asked(a, t) : t[p].key # k
                  \/ Covers(b, t, Start(sort, k)) /\ Ahead(b, Start(sort, k))
  <1> DEFINE equal == a.exact /\ ~soft
             cmd == IF equal THEN "SEEK_EXACT" ELSE "SEEK"
             more == IF equal THEN "IF_FOUND" ELSE "NO"
             S == {p \in DOMAIN t : \/ t[p].key = k
                                    \/ ~equal /\ IF sort = "ASC" THEN t[p].key > k ELSE t[p].key < k}
             R == Asked(a, t) \cap S
             b == RunQuery(a, t, cmd, sort, more, S)
             end == IF sort = "DESC" THEN 0 ELSE MaxKey
             edge == After(sort, end)
             g == IF equal /\ R = {} THEN edge ELSE Start(sort, k)
  <1>1. a \in AreaType /\ a.order \in Int
    BY AtTypes DEF Settled, Areas
  <1>2. MaxKey \in Nat
    BY WorkAreaAssumption DEF WorkAreaAssumption
  <1>3. QuerySeek(a, t, k, sort, soft) = b
    BY DEF QuerySeek
  <1>4. cmd \in QueryCommand /\ sort \in UsesOf(cmd) /\ cmd \notin {"GO_TOP", "GO_BOTTOM"}
    BY DirectedCommands
  <1>5. more \in More
    BY DirectedCommands
  <1> HIDE DEF cmd
  <1>6. Asked(a, t) \subseteq DOMAIN t
    BY DEF Asked
  <1>7. ASSUME NEW p \in DOMAIN t
        PROVE  /\ p \in S <=> t[p].key = k \/ (~equal /\ Beyond(sort, k, t[p].key))
               /\ Comes(a.order, sort, Start(sort, k), RowOf(t, p)) <=>
                     t[p].key = k \/ Beyond(sort, k, t[p].key)
               /\ ~Comes(a.order, sort, edge, RowOf(t, p))
    <2>1. t[p].key \in 0 .. MaxKey
      BY RowTypes
    <2>2. Comes(a.order, sort, Start(sort, k), RowOf(t, p)) <=>
             t[p].key = k \/ Beyond(sort, k, t[p].key)
      <3> DEFINE o == a.order
      <3>1. o \in Int /\ o > 0
        BY <1>1
      <3> HIDE DEF o
      <3>2. Comes(o, sort, Start(sort, k), RowOf(t, p)) <=> t[p].key = k \/ Beyond(sort, k, t[p].key)
        BY <1>1, <3>1, KeyBounds
      <3> QED
        BY <3>2 DEF o
    <2>3. ~Beyond(sort, end, t[p].key)
      BY <1>2, <2>1 DEF Beyond
    <2>4. end \in Int
      BY <1>2
    <2> HIDE DEF end
    <2>5. Comes(a.order, sort, edge, RowOf(t, p)) <=> Beyond(sort, end, t[p].key)
      BY <1>1, <2>4, KeyEnds
    <2> HIDE DEF edge
    <2> QED
      BY <2>2, <2>3, <2>5 DEF Beyond
  <1>8. IsSpot(Start(sort, k)) /\ IsSpot(edge) /\ Start(sort, k).key = k
    BY <1>2, WorkAreaAssumption DEF Start, After, IsSpot, Blank, WorkAreaAssumption
  <1> HIDE DEF S, edge
  <1>9. Reaching(a, t, sort, more, R, g)
    <2>1. CASE equal /\ R = {}
      <3>1. g = edge /\ more = "IF_FOUND"
        BY <2>1
      <3> HIDE DEF g, more
      <3> QED
        BY <1>6, <1>7, <1>8, <2>1, <3>1 DEF Reaching
    <2>2. CASE equal /\ R # {}
      <3>1. g = Start(sort, k) /\ more = "IF_FOUND"
        BY <2>2
      <3> HIDE DEF g, more
      <3> QED
        BY <1>6, <1>7, <1>8, <2>2, <3>1 DEF Reaching
    <2>3. CASE ~equal
      <3>1. g = Start(sort, k) /\ more = "NO"
        BY <2>3
      <3> HIDE DEF g, more
      <3> QED
        BY <1>6, <1>7, <1>8, <2>3, <3>1 DEF Reaching
    <2> QED
      BY <2>1, <2>2, <2>3
  <1>10. b.result = RowsOf(t, R)
    <2> HIDE DEF more
    <2> QED
      BY <1>4, <1>5, FoundRows
  <1>11. /\ more \in {"NO", "IF_FOUND"}
         /\ equal /\ R = {} => ~soft /\ \A p \in Asked(a, t) : t[p].key # k
         /\ ~(equal /\ R = {}) => g = Start(sort, k)
    BY <1>6, <1>7
  <1>12. b = RunQuery(a, t, cmd, sort, more, S)
    OBVIOUS
  <1>13. R = {} => b.result = {}
    BY <1>10 DEF RowsOf
  <1> HIDE DEF R, b, more, g, equal
  <1>14. /\ OnWay(b, t, sort)
         /\ Covers(b, t, g) /\ Ahead(b, g)
         /\ b.steady = DOMAIN t /\ ~b.fetched
         /\ CurrentStatement(b).more = more
         /\ SameSettings(a, b) /\ SameRecord(a, b) /\ SameFlags(a, b)
    BY <1>4, <1>5, <1>9, <1>10, <1>12, QueryReaches
  <1>15. ~IsQueryMore(b)
    BY <1>11, <1>14 DEF IsQueryMore
  <1> QED
    BY <1>3, <1>11, <1>13, <1>14, <1>15

(* Any set of keys has a lowest and a highest one.                         *)
LEMMA LimitExists ==
    ASSUME NEW K \in SUBSET (0 .. MaxKey), K # {}
    PROVE  /\ \E k \in K : \A j \in K : j >= k
           /\ \E k \in K : \A j \in K : j <= k
  <1>1. MaxKey \in Nat
    BY WorkAreaAssumption DEF WorkAreaAssumption
  <1>2. \E k \in K : \A j \in K : k <= j
    <2>1. K \in SUBSET Nat
      BY <1>1
    <2> QED
      BY <2>1, LeastNumber
  <1> DEFINE below == {MaxKey - k : k \in K}
  <1>3. below \in SUBSET Nat /\ below # {}
    <2>1. \A k \in K : MaxKey - k \in Nat
      BY <1>1
    <2> QED
      BY <2>1
  <1>4. PICK n \in below : \A m \in below : n <= m
    <2> HIDE DEF below
    <2> QED
      BY <1>3, LeastNumber
  <1>5. PICK k \in K : n = MaxKey - k
    BY <1>4
  <1>6. \A j \in K : j <= k
    <2> TAKE j \in K
    <2>1. n <= MaxKey - j
      BY <1>4
    <2> QED
      BY <1>1, <1>5, <2>1
  <1>7. \A j, k2 \in K : k2 <= j <=> j >= k2
    BY <1>1
  <1> QED
    BY <1>2, <1>6, <1>7

LEMMA LimitReaches ==
    ASSUME setDeleted \in BOOLEAN, NEW t \in Tables, NEW sort \in {"ASC", "DESC"},
           NEW a \in Settled(t), FilterShown(a)
    PROVE  LET b == IF sort = "DESC" THEN QueryBottom(a, t) ELSE QueryTop(a, t)
           IN  /\ OnWay(b, t, sort)
               /\ b.steady = DOMAIN t
               /\ ~IsQueryMore(b)
               /\ SameSettings(a, b) /\ SameRecord(a, b) /\ SameFlags(a, b)
               /\ \E g : /\ IsSpot(g)
                         /\ Covers(b, t, g) /\ Ahead(b, g)
                         /\ \A p \in Asked(a, t) : Comes(a.order, sort, g, RowOf(t, p))
  <1> DEFINE cmd == IF sort = "DESC" THEN "GO_BOTTOM" ELSE "GO_TOP"
             limits == a.limits /\ a.order > 0
             more == IF limits THEN "IF_FOUND" ELSE "NO"
             sql == SqlNow(a, cmd, sort)
             b == RunQuery(a, t, cmd, sort, more, DOMAIN t)
             keys == {t[p].key : p \in Asked(a, t)}
             first == IF sort = "DESC" THEN MaxKey ELSE 0
  <1>1. a \in AreaType /\ a.order \in Nat /\ a.limits \in BOOLEAN
    BY AtTypes, AreaParts DEF Settled, Areas
  <1>2. (IF sort = "DESC" THEN QueryBottom(a, t) ELSE QueryTop(a, t)) = b
    <2>1. CASE sort = "DESC"
      BY <2>1 DEF QueryBottom, QueryLimit
    <2>2. CASE sort = "ASC"
      BY <2>2 DEF QueryTop, QueryLimit
    <2> QED
      BY <2>1, <2>2
  <1>3. cmd \in QueryCommand /\ sort \in UsesOf(cmd) /\ cmd \in Command /\ cmd \notin ByNumber
    BY DirectedCommands, TwoKinds DEF Command
  <1>4. more \in More /\ more \in {"NO", "IF_FOUND"}
    BY DirectedCommands
  <1>5. /\ Asked(a, t) \subseteq DOMAIN t
        /\ \A p \in DOMAIN t : t[p].key \in 0 .. MaxKey
    BY RowTypes DEF Asked
  <1>6. MaxKey \in Nat
    BY WorkAreaAssumption DEF WorkAreaAssumption
  <1>7. sql.limits = (a.limits /\ a.order > 0) /\ sql.deleted = setDeleted
        /\ sql.filter = a.filter /\ sql.sort = sort
    <2>1. cmd \in {"GO_TOP", "GO_BOTTOM"}
      OBVIOUS
    <2> HIDE DEF cmd
    <2> QED
      BY <1>1, <1>3, <2>1 DEF SqlNow
  <1> HIDE DEF cmd, sql
  <1>8. \E R, g : b.result = RowsOf(t, R) /\ Reaching(a, t, sort, more, R, g)
                  /\ \A p \in Asked(a, t) : Comes(a.order, sort, g, RowOf(t, p))
    <2>1. CASE ~limits
      <3> DEFINE g == Start(sort, first)
      <3>1. more = "NO" /\ first \in Int
        BY <1>6, <2>1
      <3>2. ~a.limits \/ a.order = 0
        BY <1>1, <2>1
      <3>3. b.result = RowsOf(t, Asked(a, t) \cap DOMAIN t)
        <4> HIDE DEF more
        <4> QED
          BY <1>3, <1>4, <3>2, FoundRows
      <3>4. Asked(a, t) \cap DOMAIN t = Asked(a, t)
        BY <1>5
      <3>5. ASSUME NEW p \in DOMAIN t
            PROVE  Comes(a.order, sort, g, RowOf(t, p))
        <4>1. t[p].key = first \/ Beyond(sort, first, t[p].key)
          BY <1>5, <1>6 DEF Beyond
        <4> HIDE DEF first
        <4> QED
          BY <1>1, <3>1, <4>1, KeyEnds
      <3>6. IsSpot(g)
        BY <1>6, WorkAreaAssumption DEF Start, IsSpot, Blank, WorkAreaAssumption
      <3> HIDE DEF g
      <3>7. Reaching(a, t, sort, more, Asked(a, t), g)
        BY <1>5, <3>1, <3>5, <3>6 DEF Reaching
      <3> HIDE DEF b, more
      <3> QED
        BY <1>5, <3>3, <3>4, <3>5, <3>7
    <2>2. CASE limits
      <3>1. more = "IF_FOUND" /\ a.limits /\ a.order > 0
        BY <2>2
      <3>2. a.filter = NoFilter
        BY <2>2 DEF FilterShown
      <3> DEFINE L == LimitKeys(t, sql)
                 R == {p \in Asked(a, t) : t[p].key \in L}
      <3>3. b.result = RowsOf(t, R)
        <4> DEFINE limited == {p \in DOMAIN t : sql.limits => t[p].key \in LimitKeys(t, sql)}
        <4>1. b.result = {RowOf(t, p) : p \in Select(t, sql) \cap limited \cap DOMAIN t}
          <5> HIDE DEF more
          <5> QED
            BY <1>3, <1>4, RunQueryIs DEF sql
        <4>2. Select(t, sql) = Asked(a, t)
          BY <1>7 DEF Select, Asked
        <4>3. sql.limits
          BY <1>7, <3>1
        <4>4. limited = {p \in DOMAIN t : t[p].key \in L}
          BY <4>3
        <4> HIDE DEF limited, L
        <4>5. Select(t, sql) \cap limited \cap DOMAIN t = R
          BY <1>5, <4>2, <4>4
        <4> QED
          BY <4>1, <4>5 DEF RowsOf
      <3>4. L = {k \in keys : \A j \in keys : IF sort = "DESC" THEN j <= k ELSE j >= k}
        <4>1. Asked(a, t) = {q \in DOMAIN t : setDeleted => ~t[q].del}
          BY <3>2 DEF Asked
        <4> QED
          BY <1>7, <4>1 DEF LimitKeys
      <3>5. CASE keys = {}
        <4> DEFINE g == Start(sort, first)
        <4>1. Asked(a, t) = {}
          BY <3>5
        <4>2. IsSpot(g)
          BY <1>6, WorkAreaAssumption DEF Start, IsSpot, Blank, WorkAreaAssumption
        <4> HIDE DEF g
        <4>3. Reaching(a, t, sort, more, R, g)
          BY <1>1, <3>1, <4>1, <4>2 DEF Reaching
        <4> QED
          BY <3>3, <4>1, <4>3
      <3>6. CASE keys # {}
        <4>1. keys \in SUBSET (0 .. MaxKey)
          BY <1>5
        <4>2. PICK k \in keys : \A j \in keys : IF sort = "DESC" THEN j <= k ELSE j >= k
          <5> HIDE DEF keys
          <5> QED
            BY <3>6, <4>1, LimitExists
        <4>3. k \in 0 .. MaxKey
          BY <4>1, <4>2
        <4>4. \A j \in keys : j \in L <=> j = k
          <5> HIDE DEF keys
          <5> QED
            BY <3>4, <4>1, <4>2
        <4> DEFINE g == Start(sort, k)
        <4>5. ASSUME NEW p \in Asked(a, t)
              PROVE  /\ p \in R <=> t[p].key = k
                     /\ t[p].key # k => Beyond(sort, k, t[p].key)
                     /\ Comes(a.order, sort, g, RowOf(t, p))
          <5>1. t[p].key \in keys
            OBVIOUS
          <5>2. p \in R <=> t[p].key = k
            BY <4>4, <5>1
          <5>3. t[p].key # k => Beyond(sort, k, t[p].key)
            <6> HIDE DEF keys
            <6> QED
              BY <1>5, <4>2, <4>3, <5>1 DEF Beyond
          <5>4. p \in DOMAIN t /\ k \in Int /\ a.order \in Int
            BY <1>1, <1>5, <4>3
          <5> HIDE DEF R
          <5>5. Comes(a.order, sort, Start(sort, k), RowOf(t, p)) <=>
                   t[p].key = k \/ Beyond(sort, k, t[p].key)
            BY <3>1, <5>4, KeyEnds
          <5> QED
            BY <5>2, <5>3, <5>5
        <4>6. IsSpot(g) /\ g.key = k
          BY <4>3, WorkAreaAssumption DEF Start, IsSpot, Blank, WorkAreaAssumption
        <4>7. PICK p \in Asked(a, t) : t[p].key = k
          BY <4>2
        <4>8. R # {}
          BY <4>5, <4>7
        <4> HIDE DEF R, g
        <4>9. R \subseteq Asked(a, t)
          BY DEF R
        <4>10. Reaching(a, t, sort, more, R, g)
          BY <3>1, <4>5, <4>6, <4>8, <4>9 DEF Reaching
        <4> HIDE DEF b, more
        <4> QED
          BY <3>3, <4>5, <4>10 DEF R
      <3> QED
        BY <3>5, <3>6
    <2> QED
      BY <2>1, <2>2
  <1>9. PICK R, g : b.result = RowsOf(t, R) /\ Reaching(a, t, sort, more, R, g)
                  /\ \A p \in Asked(a, t) : Comes(a.order, sort, g, RowOf(t, p))
    <2> HIDE DEF b, more
    <2> QED
      BY <1>8
  <1>10. b = RunQuery(a, t, cmd, sort, more, DOMAIN t)
    OBVIOUS
  <1> HIDE DEF b, more, keys, limits
  <1>11. /\ OnWay(b, t, sort)
         /\ Covers(b, t, g) /\ Ahead(b, g)
         /\ b.steady = DOMAIN t /\ ~b.fetched
         /\ CurrentStatement(b).more = more
         /\ SameSettings(a, b) /\ SameRecord(a, b) /\ SameFlags(a, b)
    BY <1>3, <1>4, <1>9, <1>10, QueryReaches
  <1>12. ~IsQueryMore(b)
    BY <1>4, <1>11 DEF IsQueryMore
  <1>13. IsSpot(g)
    BY <1>9 DEF Reaching
  <1> QED
    BY <1>2, <1>9, <1>11, <1>12, <1>13

-----------------------------------------------------------------------------
(* The row that is taken.                                                  *)

(* What a movement goes on with stays the same.                            *)
SameWay(a, b) ==
    /\ b.current = a.current /\ b.commands = a.commands
    /\ b.steady = a.steady
    /\ b.redo = a.redo /\ b.unpositioned = a.unpositioned
    /\ SameSettings(a, b)

LEMMA StaysOnWay ==
    ASSUME NEW t, NEW sort, NEW a, OnWay(a, t, sort), NEW b \in Ready(t), SameWay(a, b),
           b.result = a.result, b.fetched = a.fetched
    PROVE  /\ OnWay(b, t, sort)
           /\ SameQuery(a, b)
  <1>1. CurrentStatement(b) = CurrentStatement(a)
    BY DEF SameWay, CurrentStatement
  <1>2. SameQuery(a, b)
    BY <1>1 DEF SameWay, SameQuery
  <1>3. Primed(b, t)
    BY <1>2, SameCovers DEF OnWay
  <1>4. ~DiscardCommand(b, CurrentStatement(b), sort) /\ FilterShown(b)
    BY <1>1 DEF OnWay, SameWay, SameSettings, DiscardCommand, FilterShown
  <1> QED
    BY <1>2, <1>3, <1>4 DEF OnWay, SameWay

LEMMA NextComesFirst ==
    ASSUME NEW t \in Tables, NEW sort \in {"ASC", "DESC"}, NEW a, OnWay(a, t, sort),
           a.result # {}
    PROVE  /\ NextOf(a) \in a.result
           /\ \A s \in a.result : s # NextOf(a) => Comes(a.order, sort, NextOf(a), s)
  <1> DEFINE r == NextOf(a)
             o == a.order
             sql == CurrentStatement(a).sql
  <1>1. /\ sql.sort = sort /\ sql.order = o /\ o \in Int
        /\ \A s \in a.result : s \in ResultRow(t) /\ IsSpot(s)
    BY OnWayFits
  <1>2. a \in Ready(t)
    BY DEF OnWay
  <1>3. r \in a.result
    BY <1>2, NextInResult
  <1>4. a.result \in SUBSET ResultRow(t)
    BY <1>1
  <1>5. \A s \in a.result : IF sort = "DESC" THEN Rank(o, r) >= Rank(o, s)
                                             ELSE Rank(o, r) <= Rank(o, s)
    <2>1. CASE sort = "DESC"
      <3>1. \E q \in a.result : \A s \in a.result : Rank(o, q) >= Rank(o, s)
        BY <1>4, FirstAndLast
      <3>2. r = CHOOSE q \in a.result : \A s \in a.result : Rank(o, q) >= Rank(o, s)
        BY <1>1, <2>1 DEF NextOf
      <3> HIDE DEF r
      <3> QED
        BY <2>1, <3>1, <3>2
    <2>2. CASE sort # "DESC"
      <3>1. \E q \in a.result : \A s \in a.result : Rank(o, q) <= Rank(o, s)
        BY <1>4, FirstAndLast
      <3>2. r = CHOOSE q \in a.result : \A s \in a.result : Rank(o, q) <= Rank(o, s)
        BY <1>1, <2>2 DEF NextOf
      <3> HIDE DEF r
      <3> QED
        BY <2>2, <3>1, <3>2
    <2> QED
      BY <2>1, <2>2
  <1> HIDE DEF r, o
  <1>6. ASSUME NEW s \in a.result, s # r
        PROVE  Comes(o, sort, r, s)
    <2>1. s \in ResultRow(t) /\ r \in ResultRow(t) /\ IsSpot(s) /\ IsSpot(r)
      BY <1>1, <1>3
    <2>2. s.pk # r.pk
      BY <1>3, <1>6 DEF OnWay, Primed
    <2>3. Comes(o, sort, r, s) \/ Comes(o, sort, s, r)
      BY <1>1, <2>1, <2>2, ComesOrder
    <2>4. ~Comes(o, sort, s, r)
      <3>1. Rank(o, r) <= Rank(o, s) <=> ~Precedes(o, s, r)
        BY <1>1, <2>1, RankOrder
      <3>2. Rank(o, s) <= Rank(o, r) <=> ~Precedes(o, r, s)
        BY <1>1, <2>1, RankOrder
      <3>3. Rank(o, r) \in Int /\ Rank(o, s) \in Int
        <4>1. r.key \in Int /\ s.key \in Int /\ r.pk \in Int /\ s.pk \in Int /\ MaxRecno \in Int
          BY <2>1, WorkAreaAssumption DEF IsSpot, WorkAreaAssumption
        <4> QED
          BY <1>1, <4>1 DEF Rank
      <3>4. CASE sort = "DESC"
        BY <1>5, <3>2, <3>3, <3>4 DEF Comes
      <3>5. CASE sort # "DESC"
        BY <1>5, <3>1, <3>5 DEF Comes
      <3> QED
        BY <3>4, <3>5
    <2> QED
      BY <2>3, <2>4
  <1> QED
    BY <1>3, <1>6 DEF r, o

LEMMA FetchRowIs ==
    ASSUME NEW a \in AreaType
    PROVE  LET r == NextOf(a)
               b == FetchRow(a)
           IN  /\ b.result = a.result \ {r} /\ b.fetched
               /\ b.record.pk = r.pk /\ b.record.key = r.key /\ b.record.del = r.del
               /\ b.changed = {} /\ b.keyValue = NoKey /\ ~b.lost
               /\ ~b.bof /\ ~b.eof /\ ~b.found
               /\ b.bottom = a.bottom
               /\ SameWay(a, b)
  <1> DEFINE r == NextOf(a)
             f == ResetFlags(a)
             rec == [pk |-> r.pk, key |-> r.key, del |-> r.del, locked |-> FALSE, granted |-> FALSE]
             b == WithRecord(f, rec)
             c == [b EXCEPT !.result = @ \ {r}, !.fetched = TRUE, !.lost = FALSE]
  <1>1. FetchRow(a) = c
    BY DEF FetchRow, ReadRow
  <1> HIDE DEF r
  <1>2. rec.pk = r.pk /\ rec.key = r.key /\ rec.del = r.del
    OBVIOUS
  <1> HIDE DEF rec
  <1>3. /\ SameWay(a, f) /\ f.result = a.result /\ f.bottom = a.bottom
        /\ ~f.bof /\ ~f.eof /\ ~f.found
    BY DEF AreaType, ResetFlags, SameWay, SameSettings
  <1>4. /\ SameWay(f, b) /\ b.result = f.result /\ b.bottom = f.bottom
        /\ b.bof = f.bof /\ b.eof = f.eof /\ b.found = f.found
        /\ b.record = rec /\ b.changed = {} /\ b.keyValue = NoKey
    BY DEF AreaType, ResetFlags, WithRecord, SameWay, SameSettings
  <1>5. /\ SameWay(b, c) /\ c.result = b.result \ {r} /\ c.bottom = b.bottom
        /\ c.bof = b.bof /\ c.eof = b.eof /\ c.found = b.found /\ c.fetched /\ ~c.lost
        /\ c.record = b.record /\ c.changed = b.changed /\ c.keyValue = b.keyValue
    BY DEF AreaType, ResetFlags, WithRecord, SameWay, SameSettings
  <1> HIDE DEF f, b, c
  <1>6. SameWay(a, c)
    BY <1>3, <1>4, <1>5 DEF SameWay, SameSettings
  <1> QED
    BY <1>1, <1>2, <1>3, <1>4, <1>5, <1>6 DEF r

LEMMA NothingFetchedIs ==
    ASSUME NEW a \in AreaType, NEW sort \in {"ASC", "DESC"}
    PROVE  LET b == NothingFetched(a, sort)
           IN  /\ b.result = a.result /\ b.fetched = a.fetched /\ b.bottom = a.bottom
               /\ SameWay(a, b)
               /\ ~b.found
               /\ sort = "ASC" => /\ b.eof /\ ~b.bof /\ ~b.lost /\ b.changed = {}
                                  /\ b.record = BlankRecord /\ b.keyValue = NoKey
               /\ sort = "DESC" => b.bof /\ ~b.eof /\ SameRecord(a, b)
  <1> DEFINE f == ResetFlags(a)
             b == WithRecord(f, BlankRecord)
             c == [b EXCEPT !.eof = TRUE, !.lost = FALSE]
             d == [f EXCEPT !.bof = TRUE]
  <1>1. NothingFetched(a, sort) = IF sort = "DESC" THEN d ELSE c
    BY DEF NothingFetched
  <1>2. /\ SameWay(a, f) /\ f.result = a.result /\ f.fetched = a.fetched /\ f.bottom = a.bottom
        /\ ~f.bof /\ ~f.eof /\ ~f.found /\ SameRecord(a, f)
    BY DEF AreaType, ResetFlags, SameWay, SameSettings, SameRecord
  <1>3. /\ SameWay(f, b) /\ b.result = f.result /\ b.fetched = f.fetched /\ b.bottom = f.bottom
        /\ b.bof = f.bof /\ b.found = f.found
        /\ b.record = BlankRecord /\ b.changed = {} /\ b.keyValue = NoKey
    BY DEF AreaType, ResetFlags, WithRecord, SameWay, SameSettings
  <1>4. /\ SameWay(b, c) /\ c.result = b.result /\ c.fetched = b.fetched /\ c.bottom = b.bottom
        /\ c.bof = b.bof /\ c.eof /\ c.found = b.found /\ ~c.lost
        /\ c.record = b.record /\ c.changed = b.changed /\ c.keyValue = b.keyValue
    BY DEF AreaType, ResetFlags, WithRecord, SameWay, SameSettings
  <1>5. /\ SameWay(f, d) /\ d.result = f.result /\ d.fetched = f.fetched /\ d.bottom = f.bottom
        /\ d.bof /\ d.eof = f.eof /\ d.found = f.found /\ SameRecord(f, d)
    BY DEF AreaType, ResetFlags, SameWay, SameSettings, SameRecord
  <1> HIDE DEF f, b, c, d
  <1>6. SameWay(a, c) /\ SameWay(a, d)
    BY <1>2, <1>3, <1>4, <1>5 DEF SameWay, SameSettings
  <1>7. SameRecord(a, d)
    BY <1>2, <1>5 DEF SameRecord
  <1>8. CASE sort = "DESC"
    BY <1>1, <1>2, <1>5, <1>6, <1>7, <1>8
  <1>9. CASE sort = "ASC"
    BY <1>1, <1>2, <1>3, <1>4, <1>6, <1>9
  <1> QED
    BY <1>8, <1>9

-----------------------------------------------------------------------------
(* Where a movement may stop: on a row, or after the last one it finds.    *)
Stood(b, t, sort) ==
    /\ OnWay(b, t, sort)
    /\ ~b.bof /\ ~b.eof /\ ~b.lost /\ ~b.found /\ b.changed = {} /\ b.keyValue = NoKey
    /\ b.record.pk \in DOMAIN t
    /\ b.record.pk \in b.steady => /\ b.record.key = t[b.record.pk].key
                                   /\ b.record.del = t[b.record.pk].del
    /\ Covers(b, t, At(b)) /\ Ahead(b, At(b))

Ended(b, t, sort) ==
    /\ OnWay(b, t, sort)
    /\ ~b.found
    /\ sort = "ASC" => /\ b.eof /\ ~b.bof /\ ~b.lost /\ b.changed = {} /\ b.keyValue = NoKey
                       /\ b.record = BlankRecord
    /\ sort = "DESC" => b.bof /\ ~b.eof

(* It went on from g, and passed over none of the rows of P.               *)
Passed(b, t, sort, g, P) ==
    \/ /\ Stood(b, t, sort)
       /\ Comes(b.order, sort, g, At(b))
       /\ \A p \in P : Comes(b.order, sort, g, RowOf(t, p)) => ~Comes(b.order, sort, RowOf(t, p), At(b))
    \/ /\ Ended(b, t, sort)
       /\ \A p \in P : ~Comes(b.order, sort, g, RowOf(t, p))

Numbers(a) == {r.pk : r \in a.result}

(* The query goes on from g.                                               *)
GoesOn(a, t, g) == IsSpot(g) /\ Covers(a, t, g) /\ Ahead(a, g)

LEMMA SameSpot ==
    ASSUME NEW x, NEW y, x.pk = y.pk, x.key = y.key
    PROVE  /\ IsSpot(x) <=> IsSpot(y)
           /\ \A o, sort, z : /\ Comes(o, sort, z, x) <=> Comes(o, sort, z, y)
                              /\ Comes(o, sort, x, z) <=> Comes(o, sort, y, z)
  BY DEF IsSpot, Comes, Precedes

LEMMA SpotCovers ==
    ASSUME NEW x, NEW y, x.pk = y.pk, x.key = y.key, NEW a, NEW t
    PROVE  /\ Covers(a, t, x) <=> Covers(a, t, y)
           /\ Ahead(a, x) <=> Ahead(a, y)
  <1>1. \A z : Way(a, x, z) <=> Way(a, y, z)
    BY SameSpot DEF Way
  <1> QED
    BY <1>1 DEF Covers, Ahead

LEMMA TakesFirst ==
    ASSUME NEW t \in Tables, NEW sort \in {"ASC", "DESC"}, NEW a, OnWay(a, t, sort),
           a.result # {}
    PROVE  LET b == FetchRow(a)
           IN  /\ Stood(b, t, sort)
               /\ SameSettings(a, b) /\ b.bottom = a.bottom /\ b.steady = a.steady
               /\ b.record.pk \in Numbers(a)
               /\ Numbers(b) = Numbers(a) \ {b.record.pk}
               /\ \A g : GoesOn(a, t, g) => Passed(b, t, sort, g, Sure(a, t))
  <1> DEFINE b == FetchRow(a)
             r == NextOf(a)
             o == a.order
  <1>1. a \in Ready(t) /\ a \in AreaType
    BY ReadyParts DEF OnWay
  <1>2. b \in Ready(t)
    BY <1>1, FetchRowReady
  <1>3. /\ b.result = a.result \ {r} /\ b.fetched
        /\ b.record.pk = r.pk /\ b.record.key = r.key /\ b.record.del = r.del
        /\ b.changed = {} /\ b.keyValue = NoKey /\ ~b.lost
        /\ ~b.bof /\ ~b.eof /\ ~b.found
        /\ b.bottom = a.bottom
        /\ SameWay(a, b)
    BY <1>1, FetchRowIs
  <1>4. r \in a.result /\ \A s \in a.result : s # r => Comes(o, sort, r, s)
    BY NextComesFirst
  <1>5. /\ o \in Int
        /\ \A x, y : Way(a, x, y) <=> Comes(o, sort, x, y)
        /\ \A s \in a.result : s \in ResultRow(t) /\ IsSpot(s)
        /\ CurrentStatement(a).sort = sort
        /\ CurrentStatement(a).more # "NO" => o > 0
        /\ a.current \in QueryCommand
        /\ a.steady \subseteq DOMAIN t
    BY OnWayFits
  <1> HIDE DEF b, r
  <1>6. CurrentStatement(b) = CurrentStatement(a) /\ b.order = o /\ b.steady = a.steady
        /\ b.current = a.current /\ SameSettings(a, b)
    BY <1>3 DEF SameWay, SameSettings, CurrentStatement
  <1>7. Sure(b, t) = Sure(a, t) /\ \A x, y : Way(b, x, y) <=> Way(a, x, y)
    BY <1>6 DEF Sure, Way
  <1>8. /\ MoreKeys(a) => MoreKeys(b)
        /\ MoreKeys(b) /\ b.result # {} => MoreKeys(a)
    BY <1>3, <1>6 DEF MoreKeys
  <1>9. \A g \in a.result : Covers(a, t, g)
    BY <1>5 DEF OnWay, Primed
  <1>10. r \in ResultRow(t) /\ IsSpot(r)
    BY <1>4, <1>5
  (* The other rows of the result set are after it.                        *)
  <1>11. ASSUME NEW g, Covers(a, t, g), g = r \/ Comes(o, sort, r, g), IsSpot(g)
         PROVE  Covers(b, t, g)
    <2>1. ASSUME NEW p \in Sure(b, t), Way(b, g, RowOf(t, p))
          PROVE  \/ RowOf(t, p) \in b.result
                 \/ MoreKeys(b) /\ Beyond(CurrentStatement(b).sort, g.key, t[p].key)
      <3>1. p \in Sure(a, t) /\ Way(a, g, RowOf(t, p))
        BY <1>7, <2>1
      <3>2. CASE RowOf(t, p) \in a.result
        <4>1. RowOf(t, p) # r
          <5>1. ~Comes(o, sort, g, r)
            BY <1>5, <1>10, <1>11, ComesOrder
          <5> QED
            BY <1>5, <3>1, <5>1
        <4> QED
          BY <1>3, <3>2, <4>1
      <3>3. CASE MoreKeys(a) /\ Beyond(CurrentStatement(a).sort, g.key, t[p].key)
        BY <1>6, <1>8, <3>3
      <3> QED
        BY <1>11, <3>1, <3>2, <3>3 DEF Covers
    <2>2. MoreKeys(b) => \A s \in b.result : s.key = g.key
      BY <1>3, <1>8, <1>11 DEF Covers
    <2> QED
      BY <2>1, <2>2 DEF Covers
  <1>12. Covers(b, t, r)
    BY <1>4, <1>9, <1>10, <1>11
  <1>13. \A g \in b.result : Covers(b, t, g)
    BY <1>3, <1>4, <1>5, <1>9, <1>11
  <1>14. At(b).pk = r.pk /\ At(b).key = r.key
    BY <1>3 DEF At
  <1>15. Covers(b, t, At(b)) /\ Ahead(b, At(b))
    <2>1. Ahead(b, r)
      BY <1>3, <1>4, <1>5, <1>7 DEF Ahead
    <2> QED
      BY <1>12, <1>14, <2>1, SpotCovers
  <1>16. OnWay(b, t, sort)
    <2>1. Primed(b, t)
      BY <1>3, <1>5, <1>6, <1>13 DEF OnWay, Primed
    <2>2. ~DiscardCommand(b, CurrentStatement(b), sort) /\ FilterShown(b)
      BY <1>6 DEF OnWay, SameSettings, DiscardCommand, FilterShown
    <2> QED
      BY <1>2, <1>3, <2>1, <2>2 DEF OnWay, SameWay
  <1>17. r.pk \in DOMAIN t
    BY <1>10 DEF ResultRow
  <1>18. r.pk \in a.steady => r.key = t[r.pk].key /\ r.del = t[r.pk].del
    <2>1. r.pk \in a.steady => r = RowOf(t, r.pk)
      BY <1>4 DEF OnWay, Primed
    <2> QED
      BY <2>1 DEF RowOf
  <1>19. Stood(b, t, sort)
    BY <1>3, <1>6, <1>15, <1>16, <1>17, <1>18 DEF Stood
  <1>20. r.pk \in Numbers(a) /\ Numbers(b) = Numbers(a) \ {r.pk}
    <2>1. \A s \in a.result : s.pk = r.pk => s = r
      BY <1>4 DEF OnWay, Primed
    <2> QED
      BY <1>3, <1>4, <2>1 DEF Numbers
  <1>21. ASSUME NEW g, GoesOn(a, t, g)
         PROVE  Passed(b, t, sort, g, Sure(a, t))
    <2> USE DEF GoesOn
    <2>1. Comes(o, sort, g, r)
      BY <1>4, <1>5, <1>21 DEF Ahead
    <2>2. ASSUME NEW p \in Sure(a, t), Comes(o, sort, g, RowOf(t, p))
          PROVE  ~Comes(o, sort, RowOf(t, p), r)
      <3>1. p \in DOMAIN t
        BY DEF Sure, Select
      <3>2. IsSpot(RowOf(t, p)) /\ RowOf(t, p).key = t[p].key
        BY <3>1, RowTypes
      <3>3. CASE RowOf(t, p) = r
        BY <1>5, <1>10, <3>3, ComesOrder
      <3>4. CASE RowOf(t, p) \in a.result /\ RowOf(t, p) # r
        BY <1>4, <1>5, <1>10, <3>2, <3>4, ComesOrder
      <3>5. CASE MoreKeys(a) /\ Beyond(sort, g.key, t[p].key)
        <4>1. r.key = g.key
          BY <1>4, <1>21, <3>5 DEF Covers
        <4>2. o > 0
          BY <1>5, <3>5 DEF MoreKeys
        <4>3. r.key \in Int /\ t[p].key \in Int
          BY <1>10, <3>2 DEF IsSpot
        <4>4. Comes(o, sort, r, RowOf(t, p))
          BY <1>5, <3>2, <3>5, <4>1, <4>2, <4>3 DEF Comes, Precedes, Beyond
        <4> QED
          BY <1>5, <1>10, <3>2, <4>4, ComesOrder
      <3>6. RowOf(t, p) \in a.result \/ (MoreKeys(a) /\ Beyond(sort, g.key, t[p].key))
        BY <1>5, <1>21, <2>2 DEF Covers
      <3> QED
        BY <3>3, <3>4, <3>5, <3>6
    <2>3. /\ Comes(o, sort, g, At(b))
          /\ \A p \in Sure(a, t) : Comes(o, sort, g, RowOf(t, p)) => ~Comes(o, sort, RowOf(t, p), At(b))
      BY <1>14, <2>1, <2>2, SameSpot
    <2> QED
      BY <1>6, <1>19, <2>3 DEF Passed
  <1> QED
    BY <1>3, <1>6, <1>19, <1>20, <1>21 DEF b

LEMMA FindsNothing ==
    ASSUME NEW t \in Tables, NEW sort \in {"ASC", "DESC"}, NEW a, OnWay(a, t, sort),
           a.result = {}
    PROVE  LET b == NothingFetched(a, sort)
           IN  /\ Ended(b, t, sort)
               /\ SameSettings(a, b) /\ b.bottom = a.bottom /\ b.steady = a.steady
               /\ sort = "DESC" => SameRecord(a, b)
               /\ \A g : GoesOn(a, t, g) /\ ~MoreKeys(a) => Passed(b, t, sort, g, Sure(a, t))
  <1> DEFINE b == NothingFetched(a, sort)
  <1>1. a \in Ready(t) /\ a \in AreaType
    BY ReadyParts DEF OnWay
  <1>2. b \in Ready(t)
    BY <1>1, NothingFetchedReady
  <1>3. /\ b.result = a.result /\ b.fetched = a.fetched /\ b.bottom = a.bottom
        /\ SameWay(a, b)
        /\ ~b.found
        /\ sort = "ASC" => /\ b.eof /\ ~b.bof /\ ~b.lost /\ b.changed = {}
                           /\ b.record = BlankRecord /\ b.keyValue = NoKey
        /\ sort = "DESC" => b.bof /\ ~b.eof /\ SameRecord(a, b)
    BY <1>1, NothingFetchedIs
  <1> HIDE DEF b
  <1>4. OnWay(b, t, sort)
    BY <1>2, <1>3, StaysOnWay
  <1>5. Ended(b, t, sort)
    BY <1>3, <1>4 DEF Ended
  <1>6. SameSettings(a, b) /\ b.steady = a.steady
    BY <1>3 DEF SameWay
  <1>7. ASSUME NEW g, GoesOn(a, t, g), ~MoreKeys(a)
        PROVE  Passed(b, t, sort, g, Sure(a, t))
    <2>1. \A p \in Sure(a, t) : ~Way(a, g, RowOf(t, p))
      BY <1>7 DEF GoesOn, Covers
    <2>2. \A p \in Sure(a, t) : ~Comes(a.order, sort, g, RowOf(t, p))
      BY <2>1, OnWayFits
    <2> QED
      BY <1>5, <1>6, <2>2 DEF Passed, SameSettings
  <1> QED
    BY <1>3, <1>5, <1>6, <1>7 DEF b

(* The database may have been asked again.                                 *)
Renewed(a, b, t) ==
    /\ SameSettings(a, b)
    /\ b.steady \in {a.steady, DOMAIN t}

(* One fetch, with the query for the next key that it may begin with.      *)
LEMMA FetchPasses ==
    ASSUME setDeleted \in BOOLEAN, NEW t \in Tables, NEW sort \in {"ASC", "DESC"},
           NEW a, OnWay(a, t, sort), IF sort = "DESC" THEN ~a.bof ELSE ~a.eof
    PROVE  LET b == FetchNextRecord(a, t, sort)
           IN  /\ Renewed(a, b, t) /\ b.bottom = a.bottom
               /\ Stood(b, t, sort) \/ Ended(b, t, sort)
               /\ Ended(b, t, sort) /\ sort = "DESC" => SameRecord(a, b)
               /\ Stood(b, t, sort) /\ b.steady # DOMAIN t =>
                     b.record.pk \in Numbers(a) /\ Numbers(b) = Numbers(a) \ {b.record.pk}
               /\ \A g : /\ GoesOn(a, t, g)
                         /\ a.result = {} /\ IsQueryMore(a) => g.key = a.record.key
                         => Passed(b, t, sort, g, Sure(a, t))
  <1> DEFINE c == QueryNextKey(a, t)
             b == FetchNextRecord(a, t, sort)
             asks == a.result = {} /\ IsQueryMore(a)
  <1>1. b = LET d == IF asks THEN c ELSE a
            IN  IF d.result = {} THEN NothingFetched(d, sort) ELSE FetchRow(d)
    BY DEF FetchNextRecord
  <1>2. ~(Stood(b, t, sort) /\ Ended(b, t, sort))
    BY DEF Stood, Ended
  <1>3. SameSettings(a, a)
    BY DEF SameSettings
  <1> HIDE DEF b
  <1>4. CASE ~asks /\ a.result # {}
    <2>1. b = FetchRow(a)
      BY <1>1, <1>4
    <2> HIDE DEF asks
    <2>2. /\ Stood(b, t, sort)
          /\ SameSettings(a, b) /\ b.bottom = a.bottom /\ b.steady = a.steady
          /\ b.record.pk \in Numbers(a)
          /\ Numbers(b) = Numbers(a) \ {b.record.pk}
          /\ \A g : GoesOn(a, t, g) => Passed(b, t, sort, g, Sure(a, t))
      BY <1>4, <2>1, TakesFirst
    <2> QED
      BY <1>2, <2>2 DEF Renewed, b
  <1>5. CASE ~asks /\ a.result = {}
    <2>1. b = NothingFetched(a, sort)
      BY <1>1, <1>5
    <2>2. ~MoreKeys(a)
      BY <1>5 DEF MoreKeys, IsQueryMore
    <2>3. /\ Ended(b, t, sort)
          /\ SameSettings(a, b) /\ b.bottom = a.bottom /\ b.steady = a.steady
          /\ sort = "DESC" => SameRecord(a, b)
          /\ \A g : GoesOn(a, t, g) /\ ~MoreKeys(a) => Passed(b, t, sort, g, Sure(a, t))
      BY <1>5, <2>1, FindsNothing
    <2> HIDE DEF asks
    <2> QED
      BY <1>2, <2>2, <2>3 DEF Renewed, b
  <1>6. CASE asks
    <2>1. MoreKeys(a)
      BY <1>6 DEF MoreKeys, IsQueryMore
    <2>2. /\ a.order > 0
          /\ CurrentStatement(a).sort = sort
          /\ Sure(a, t) = a.steady \cap Asked(a, t)
          /\ \A x, y : Way(a, x, y) <=> Comes(a.order, sort, x, y)
      BY <2>1, OnWayFits DEF MoreKeys
    <2>3. /\ OnWay(c, t, sort)
          /\ c.result = RowsOf(t, {q \in Asked(a, t) : Beyond(sort, a.record.key, t[q].key)})
          /\ c.steady = DOMAIN t
          /\ CurrentStatement(c).more = "NO"
          /\ SameSettings(a, c) /\ SameRecord(a, c) /\ SameFlags(a, c)
          /\ GoesOn(c, t, After(sort, a.record.key))
      BY <2>2, NextKeyReaches DEF GoesOn
    <2> HIDE DEF c
    <2>4. ~MoreKeys(c)
      BY <2>3 DEF MoreKeys
    <2>5. Asked(c, t) = Asked(a, t) /\ Asked(a, t) \subseteq DOMAIN t
      BY <2>3 DEF Asked, SameSettings
    <2>6. /\ Sure(c, t) = c.steady \cap Asked(c, t)
          /\ \A x, y : Way(c, x, y) <=> Comes(c.order, sort, x, y)
          /\ c.order \in Int
      BY <2>3, OnWayFits
    <2>7. Sure(a, t) \subseteq Sure(c, t)
      BY <2>2, <2>3, <2>5, <2>6
    <2>8. c.order = a.order
      BY <2>3 DEF SameSettings
    <2> DEFINE h == After(sort, a.record.key)
    <2>9. GoesOn(c, t, h)
      BY <2>3
    <2>10. a.record.key \in Int
      BY AtTypes, ReadyParts, WorkAreaAssumption DEF OnWay, WorkAreaAssumption
    <2>11. ASSUME NEW p \in DOMAIN t
           PROVE  Comes(a.order, sort, h, RowOf(t, p)) <=> Beyond(sort, a.record.key, t[p].key)
      <3> DEFINE k == a.record.key
                 o == a.order
      <3>1. k \in Int /\ o \in Int /\ o > 0
        BY <2>2, <2>6, <2>8, <2>10
      <3> HIDE DEF k, o
      <3>2. Comes(o, sort, After(sort, k), RowOf(t, p)) <=> Beyond(sort, k, t[p].key)
        BY <3>1, KeyBounds
      <3> QED
        BY <3>2 DEF k, o
    <2>12. ASSUME NEW g, GoesOn(a, t, g), g.key = a.record.key,
                  NEW p \in Sure(a, t), Comes(a.order, sort, g, RowOf(t, p))
           PROVE  /\ p \in Sure(c, t) /\ RowOf(t, p) \in c.result
                  /\ Comes(a.order, sort, h, RowOf(t, p))
      <3>1. p \in Asked(a, t) /\ p \in DOMAIN t
        BY <2>2, <2>5
      <3>2. Way(a, g, RowOf(t, p))
        BY <2>2, <2>12
      <3>3. Beyond(sort, a.record.key, t[p].key)
        BY <1>6, <2>2, <2>12, <3>2 DEF GoesOn, Covers
      <3> QED
        BY <2>3, <2>7, <2>11, <3>1, <3>3 DEF RowsOf
    <2> HIDE DEF asks, h
    <2>13. CASE c.result = {}
      <3>1. b = NothingFetched(c, sort)
        BY <1>1, <1>6, <2>13
      <3>2. /\ Ended(b, t, sort)
            /\ SameSettings(c, b) /\ b.bottom = c.bottom /\ b.steady = c.steady
            /\ sort = "DESC" => SameRecord(c, b)
        BY <2>3, <2>13, <3>1, FindsNothing
      <3>3. ASSUME NEW g, GoesOn(a, t, g), g.key = a.record.key
            PROVE  Passed(b, t, sort, g, Sure(a, t))
        <4>1. \A p \in Sure(a, t) : ~Comes(b.order, sort, g, RowOf(t, p))
          BY <2>3, <2>12, <2>13, <3>2, <3>3 DEF SameSettings
        <4> QED
          BY <3>2, <4>1 DEF Passed
      <3>4. SameSettings(a, b) /\ b.bottom = a.bottom /\ (sort = "DESC" => SameRecord(a, b))
        BY <2>3, <3>2 DEF SameSettings, SameFlags, SameRecord
      <3> QED
        BY <1>2, <1>6, <2>3, <3>2, <3>3, <3>4 DEF Renewed, b, asks
    <2>14. CASE c.result # {}
      <3>1. b = FetchRow(c)
        BY <1>1, <1>6, <2>14
      <3>2. /\ Stood(b, t, sort)
            /\ SameSettings(c, b) /\ b.bottom = c.bottom /\ b.steady = c.steady
            /\ \A g : GoesOn(c, t, g) => Passed(b, t, sort, g, Sure(c, t))
        BY <2>3, <2>14, <3>1, TakesFirst
      <3>3. Passed(b, t, sort, h, Sure(c, t)) /\ b.order = a.order
        BY <2>3, <2>9, <3>2 DEF SameSettings
      <3>4. /\ Comes(a.order, sort, h, At(b))
            /\ \A p \in Sure(c, t) : Comes(a.order, sort, h, RowOf(t, p)) =>
                  ~Comes(a.order, sort, RowOf(t, p), At(b))
        BY <3>2, <3>3 DEF Passed, Stood, Ended
      <3>5. At(b).pk \in 1 .. MaxRecno /\ At(b).key \in Int
        <4>1. b.record.pk \in DOMAIN t
          BY <3>2 DEF Stood
        <4>2. b \in AreaType
          BY <3>2, ReadyParts DEF Stood, OnWay
        <4> QED
          BY <4>1, <4>2, AtTypes, RowTypes, WorkAreaAssumption DEF WorkAreaAssumption
      <3>6. ASSUME NEW g, GoesOn(a, t, g), g.key = a.record.key
            PROVE  Passed(b, t, sort, g, Sure(a, t))
        <4>1. Beyond(sort, a.record.key, At(b).key)
          BY <2>2, <2>6, <2>8, <2>10, <3>4, <3>5, <3>6, KeyBeyond DEF h, GoesOn
        <4>2. Comes(a.order, sort, g, At(b))
          BY <2>2, <2>6, <2>8, <2>10, <3>5, <3>6, <4>1, KeyBeyond DEF GoesOn
        <4>3. \A p \in Sure(a, t) : Comes(a.order, sort, g, RowOf(t, p)) =>
                 ~Comes(a.order, sort, RowOf(t, p), At(b))
          BY <2>12, <3>4, <3>6
        <4> QED
          BY <3>2, <3>3, <4>2, <4>3 DEF Passed
      <3>7. SameSettings(a, b) /\ b.bottom = a.bottom
        BY <2>3, <3>2 DEF SameSettings, SameFlags
      <3> QED
        BY <1>2, <1>6, <2>3, <3>2, <3>6, <3>7 DEF Renewed, b, asks
    <2> QED
      BY <2>13, <2>14
  <1> QED
    BY <1>4, <1>5, <1>6 DEF b

-----------------------------------------------------------------------------
(* Rows that are not shown are skipped.                                    *)

(* Turns that a movement from a row may still take.                        *)
RowsBeyond(a, t, sort) == {p \in DOMAIN t : Comes(a.order, sort, At(a), RowOf(t, p))}
Remaining(a, t, sort) ==
    IF a.steady = DOMAIN t THEN Cardinality(RowsBeyond(a, t, sort))
    ELSE Cardinality(Numbers(a)) + Cardinality(DOMAIN t)

LEMMA NumbersCounted ==
    ASSUME NEW t \in Tables, NEW S \in SUBSET DOMAIN t
    PROVE  /\ IsFiniteSet(DOMAIN t) /\ IsFiniteSet(S)
           /\ Cardinality(S) \in Nat /\ Cardinality(DOMAIN t) \in Nat
           /\ Cardinality(S) <= Cardinality(DOMAIN t) /\ Cardinality(DOMAIN t) <= MaxRecno
           /\ \A p \in DOMAIN t \ S : Cardinality(S) < Cardinality(DOMAIN t)
  <1> DEFINE n == NextRecno(t) - 1
  <1>1. DOMAIN t = 1 .. n /\ n \in Nat /\ n <= MaxRecno
    BY TableNumbers, WorkAreaAssumption DEF WorkAreaAssumption
  <1>2. IsFiniteSet(DOMAIN t) /\ Cardinality(DOMAIN t) = n
    <2> HIDE DEF n
    <2>1. IsFiniteSet(1 .. n)
      BY <1>1, FS_Interval
    <2> QED
      BY <1>1, <2>1, UpToN
  <1> HIDE DEF n
  <1>3. /\ IsFiniteSet(S) /\ Cardinality(S) <= Cardinality(DOMAIN t)
        /\ Cardinality(S) = Cardinality(DOMAIN t) => S = DOMAIN t
    BY <1>2, FS_Subset
  <1>4. Cardinality(S) \in Nat
    BY <1>3, FS_CardinalityType
  <1>5. \A p \in DOMAIN t \ S : Cardinality(S) < Cardinality(DOMAIN t)
    BY <1>1, <1>2, <1>3, <1>4
  <1> QED
    BY <1>1, <1>2, <1>3, <1>4, <1>5

LEMMA StoodParts ==
    ASSUME NEW t \in Tables, NEW sort \in {"ASC", "DESC"}, NEW a, Stood(a, t, sort)
    PROVE  /\ a \in Ready(t) /\ a \in AreaType /\ a.order \in Int
           /\ IsSpot(At(a)) /\ At(a).pk = a.record.pk /\ At(a).key = a.record.key
           /\ a.record.pk \in DOMAIN t
           /\ Numbers(a) \in SUBSET DOMAIN t
           /\ a.steady \subseteq DOMAIN t
           /\ a.record.pk \in a.steady =>
                 \A x : /\ Comes(a.order, sort, x, At(a)) <=> Comes(a.order, sort, x, RowOf(t, a.record.pk))
                        /\ Comes(a.order, sort, At(a), x) <=> Comes(a.order, sort, RowOf(t, a.record.pk), x)
  <1>1. OnWay(a, t, sort) /\ a.record.pk \in DOMAIN t
    BY DEF Stood
  <1>2. a \in Ready(t) /\ a \in AreaType
    BY <1>1, ReadyParts DEF OnWay
  <1>3. \A r \in a.result : r.pk \in DOMAIN t
    BY <1>1, OnWayFits DEF ResultRow
  <1>4. ASSUME a.record.pk \in a.steady
        PROVE  /\ At(a).pk = RowOf(t, a.record.pk).pk
               /\ At(a).key = RowOf(t, a.record.pk).key
    BY <1>4 DEF Stood, At, RowOf
  <1>5. IsSpot(At(a)) /\ At(a).pk = a.record.pk /\ At(a).key = a.record.key /\ a.order \in Int
    BY <1>2, AtTypes
  <1>6. a.steady \subseteq DOMAIN t
    BY <1>1, OnWayFits
  <1> QED
    BY <1>1, <1>2, <1>3, <1>4, <1>5, <1>6, SameSpot DEF Numbers

LEMMA RemainingBound ==
    ASSUME NEW t \in Tables, NEW sort \in {"ASC", "DESC"}, NEW a, Stood(a, t, sort)
    PROVE  Remaining(a, t, sort) \in 0 .. 2 * MaxRecno
  <1>1. RowsBeyond(a, t, sort) \in SUBSET DOMAIN t /\ Numbers(a) \in SUBSET DOMAIN t
    BY StoodParts DEF RowsBeyond
  <1>2. MaxRecno \in Nat
    BY WorkAreaAssumption DEF WorkAreaAssumption
  <1> QED
    BY <1>1, <1>2, NumbersCounted DEF Remaining

LEMMA StepShrinks ==
    ASSUME NEW t \in Tables, NEW sort \in {"ASC", "DESC"}, NEW a, Stood(a, t, sort),
           NEW b, Stood(b, t, sort), Renewed(a, b, t), Comes(a.order, sort, At(a), At(b)),
           b.steady # DOMAIN t =>
              b.record.pk \in Numbers(a) /\ Numbers(b) = Numbers(a) \ {b.record.pk}
    PROVE  Remaining(b, t, sort) < Remaining(a, t, sort)
  <1> DEFINE A == RowsBeyond(a, t, sort)
             B == RowsBeyond(b, t, sort)
             p == b.record.pk
  <1>1. A \in SUBSET DOMAIN t /\ B \in SUBSET DOMAIN t
    BY DEF RowsBeyond
  <1>2. b.order = a.order /\ a.order \in Int /\ p \in DOMAIN t
    BY StoodParts DEF Renewed, SameSettings
  <1>3. CASE b.steady = DOMAIN t
    <2>1. \A x : /\ Comes(a.order, sort, x, At(b)) <=> Comes(a.order, sort, x, RowOf(t, p))
                 /\ Comes(a.order, sort, At(b), x) <=> Comes(a.order, sort, RowOf(t, p), x)
      BY <1>2, <1>3, StoodParts
    <2>2. p \notin B
      <3>1. IsSpot(RowOf(t, p))
        BY <1>2, RowTypes
      <3>2. ~Comes(a.order, sort, RowOf(t, p), RowOf(t, p))
        BY <1>2, <3>1, ComesOrder
      <3> QED
        BY <1>2, <2>1, <3>2 DEF RowsBeyond
    <2>3. p \in A
      BY <1>2, <2>1 DEF RowsBeyond
    <2>4. B \subseteq A
      <3> SUFFICES ASSUME NEW q \in B
                   PROVE  q \in A
        OBVIOUS
      <3>1. q \in DOMAIN t /\ Comes(a.order, sort, At(b), RowOf(t, q))
        BY <1>2 DEF RowsBeyond
      <3>2. IsSpot(RowOf(t, q)) /\ IsSpot(At(a)) /\ IsSpot(At(b))
        BY <3>1, RowTypes, StoodParts
      <3>3. Comes(a.order, sort, At(a), RowOf(t, q))
        BY <1>2, <3>1, <3>2, ComesOrder
      <3> QED
        BY <3>1, <3>3 DEF RowsBeyond
    <2> HIDE DEF A, B, p
    <2>5. Cardinality(B) < Cardinality(A)
      <3>1. IsFiniteSet(A) /\ Cardinality(A) \in Nat /\ Cardinality(B) \in Nat
        BY <1>1, NumbersCounted
      <3>2. Cardinality(B) <= Cardinality(A) /\ (Cardinality(A) = Cardinality(B) => A = B)
        BY <2>4, <3>1, FS_Subset
      <3> QED
        BY <2>2, <2>3, <3>1, <3>2
    <2>6. Cardinality(B) < Cardinality(DOMAIN t) /\ Cardinality(B) \in Nat
      BY <1>1, <1>2, <2>2, NumbersCounted
    <2>7. Cardinality(Numbers(a)) \in Nat /\ Cardinality(DOMAIN t) \in Nat
      <3>1. Numbers(a) \in SUBSET DOMAIN t
        BY StoodParts
      <3> QED
        BY <3>1, NumbersCounted
    <2> QED
      BY <1>3, <2>5, <2>6, <2>7 DEF Remaining, A, B
  <1>4. CASE b.steady # DOMAIN t
    <2>1. a.steady # DOMAIN t
      BY <1>4 DEF Renewed
    <2>2. p \in Numbers(a) /\ Numbers(b) = Numbers(a) \ {p}
      BY <1>4
    <2>3. Numbers(a) \in SUBSET DOMAIN t
      BY StoodParts
    <2> HIDE DEF p
    <2>4. IsFiniteSet(Numbers(a)) /\ Cardinality(Numbers(a)) \in Nat /\ Cardinality(DOMAIN t) \in Nat
      BY <2>3, NumbersCounted
    <2>5. Cardinality(Numbers(b)) = Cardinality(Numbers(a)) - 1
      BY <2>2, <2>4, FS_RemoveElement
    <2> QED
      BY <1>4, <2>1, <2>4, <2>5 DEF Remaining
  <1> QED
    BY <1>3, <1>4

(* The rows that hb_waSkipFilter stops on.                                 *)
ShownRows(a, t) == {p \in DOMAIN t : /\ setDeleted => ~t[p].del
                                     /\ a.block => t[p].key \in FilterKeys}

LEMMA BottomForgotten ==
    ASSUME NEW a \in AreaType
    PROVE  LET b == [a EXCEPT !.bottom = FALSE]
           IN  /\ SameWay(a, b) /\ b.result = a.result /\ b.fetched = a.fetched
               /\ SameRecord(a, b) /\ b.bof = a.bof /\ b.eof = a.eof /\ b.found = a.found
               /\ ~b.bottom
  BY DEF AreaType, SameWay, SameSettings, SameRecord

(* One turn.                                                               *)
LEMMA TurnPasses ==
    ASSUME setDeleted \in BOOLEAN, NEW t \in Tables, NEW sort \in {"ASC", "DESC"},
           NEW a, Stood(a, t, sort), IsHidden(a)
    PROVE  LET b == PassHidden(a, t, sort)
           IN  /\ Renewed(a, b, t)
               /\ Passed(b, t, sort, At(a), Sure(a, t))
               /\ Stood(b, t, sort) => Remaining(b, t, sort) < Remaining(a, t, sort)
  <1> DEFINE c == [a EXCEPT !.bottom = FALSE]
             b == PassHidden(a, t, sort)
  <1>1. /\ a \in Ready(t) /\ a \in AreaType /\ OnWay(a, t, sort) /\ ~a.bof /\ ~a.eof
        /\ a.keyValue = NoKey
    BY StoodParts DEF Stood
  <1>2. /\ SameWay(a, c) /\ c.result = a.result /\ c.fetched = a.fetched
        /\ SameRecord(a, c) /\ c.bof = a.bof /\ c.eof = a.eof
    BY <1>1, BottomForgotten
  <1>3. c \in Ready(t)
    BY <1>1, MarksReady
  <1>4. b = SkipRaw(a, t, sort)
    BY <1>1 DEF PassHidden
  <1>5. b = LET query == \/ c.unpositioned
                         \/ DiscardCommand(c, CurrentStatement(c), sort)
                         \/ KeyChanged(c)
                         \/ c.redo
            IN  IF sort = "ASC" /\ c.eof THEN c
                ELSE FetchNextRecord(IF query THEN FromRecno(c, t, sort) ELSE c, t, sort)
    BY <1>4 DEF SkipRaw
  <1> HIDE DEF b, c
  <1>6. OnWay(c, t, sort) /\ SameQuery(a, c)
    BY <1>1, <1>2, <1>3, StaysOnWay
  <1>7. ~KeyChanged(c)
    BY <1>1, <1>2 DEF KeyChanged, SameRecord
  <1>8. b = FetchNextRecord(c, t, sort)
    BY <1>1, <1>2, <1>5, <1>6, <1>7 DEF OnWay
  <1>9. GoesOn(c, t, At(a)) /\ Sure(c, t) = Sure(a, t)
    <2>1. IsSpot(At(a)) /\ Covers(a, t, At(a)) /\ Ahead(a, At(a))
      BY StoodParts DEF Stood
    <2> QED
      BY <1>6, <2>1, SameCovers DEF GoesOn
  <1>10. At(a).key = c.record.key
    BY <1>2, StoodParts DEF SameRecord
  <1>11. /\ Renewed(c, b, t)
         /\ Stood(b, t, sort) /\ b.steady # DOMAIN t =>
               b.record.pk \in Numbers(c) /\ Numbers(b) = Numbers(c) \ {b.record.pk}
         /\ Passed(b, t, sort, At(a), Sure(c, t))
    BY <1>1, <1>2, <1>6, <1>8, <1>9, <1>10, FetchPasses
  <1>12. Renewed(a, b, t)
    BY <1>2, <1>11 DEF Renewed, SameWay, SameSettings
  <1>13. Numbers(c) = Numbers(a)
    BY <1>2 DEF Numbers
  <1>14. ASSUME Stood(b, t, sort)
         PROVE  Remaining(b, t, sort) < Remaining(a, t, sort)
    <2>1. Comes(a.order, sort, At(a), At(b))
      BY <1>11, <1>12, <1>14 DEF Passed, Renewed, SameSettings, Stood, Ended
    <2> QED
      BY <1>11, <1>12, <1>13, <1>14, <2>1, StepShrinks
  <1> QED
    BY <1>9, <1>11, <1>12, <1>14 DEF b

(* A movement that skips one row more than it did.                         *)
LEMMA PassedMore ==
    ASSUME NEW t \in Tables, NEW sort \in {"ASC", "DESC"}, NEW g, IsSpot(g),
           NEW a, Stood(a, t, sort), IsHidden(a), NEW P,
           P \subseteq a.steady \cap ShownRows(a, t), FilterShown(a),
           Passed(a, t, sort, g, P), NEW b, Renewed(a, b, t), Passed(b, t, sort, At(a), Sure(a, t))
    PROVE  Passed(b, t, sort, g, P)
  <1> DEFINE o == a.order
  <1>1. /\ o \in Int /\ IsSpot(At(a)) /\ a.steady \subseteq DOMAIN t
        /\ a.record.pk \in DOMAIN t
        /\ a.record.pk \in a.steady =>
              \A x : /\ Comes(o, sort, x, At(a)) <=> Comes(o, sort, x, RowOf(t, a.record.pk))
                     /\ Comes(o, sort, At(a), x) <=> Comes(o, sort, RowOf(t, a.record.pk), x)
        /\ At(a).pk = a.record.pk
    BY StoodParts
  <1>2. /\ Comes(o, sort, g, At(a))
        /\ \A p \in P : Comes(o, sort, g, RowOf(t, p)) => ~Comes(o, sort, RowOf(t, p), At(a))
    BY DEF Passed, Stood, Ended
  <1>3. b.order = o
    BY DEF Renewed, SameSettings
  <1>4. P \subseteq Sure(a, t)
    <2>1. Sure(a, t) = a.steady \cap Asked(a, t)
      BY OnWayFits DEF Stood
    <2> QED
      BY <2>1 DEF Asked, ShownRows, FilterShown
  <1>5. a.record.pk \notin P
    BY DEF ShownRows, IsHidden, Stood
  <1>6. ASSUME NEW p \in P, Comes(o, sort, g, RowOf(t, p))
        PROVE  Comes(o, sort, At(a), RowOf(t, p))
    <2>1. p \in DOMAIN t /\ p # a.record.pk
      BY <1>1, <1>5
    <2>2. IsSpot(RowOf(t, p)) /\ RowOf(t, p).pk = p
      BY <2>1, RowTypes
    <2> QED
      BY <1>1, <1>2, <1>6, <2>1, <2>2, ComesOrder
  <1> HIDE DEF o
  <1>7. CASE Stood(b, t, sort)
    <2>1. /\ Comes(o, sort, At(a), At(b))
          /\ \A p \in P : Comes(o, sort, At(a), RowOf(t, p)) => ~Comes(o, sort, RowOf(t, p), At(b))
      BY <1>3, <1>4, <1>7 DEF Passed, Stood, Ended
    <2>2. Comes(o, sort, g, At(b))
      <3>1. IsSpot(At(b))
        BY <1>7, StoodParts
      <3> QED
        BY <1>1, <1>2, <2>1, <3>1, ComesOrder
    <2> QED
      BY <1>3, <1>6, <1>7, <2>1, <2>2 DEF Passed
  <1>8. CASE Ended(b, t, sort)
    <2>1. \A p \in P : ~Comes(o, sort, At(a), RowOf(t, p))
      BY <1>3, <1>4, <1>8 DEF Passed, Stood, Ended
    <2> QED
      BY <1>3, <1>6, <1>8, <2>1 DEF Passed
  <1> QED
    BY <1>7, <1>8 DEF Passed

RenewedTwice(a, b, c, t) == Renewed(a, b, t) /\ Renewed(b, c, t) => Renewed(a, c, t)

LEMMA RenewalsJoin == \A a, b, c, t : RenewedTwice(a, b, c, t)
  BY DEF RenewedTwice, Renewed, SameSettings

(* All turns: it ends on a row that is shown, or after the last one.       *)
LEMMA SkipHiddenPasses ==
    ASSUME setDeleted \in BOOLEAN, NEW t \in Tables, NEW sort \in {"ASC", "DESC"},
           NEW g, IsSpot(g), NEW P, NEW a, P \subseteq a.steady \cap ShownRows(a, t),
           Passed(a, t, sort, g, P)
    PROVE  LET b == SkipHidden(a, t, sort)
           IN  /\ Renewed(a, b, t)
               /\ Passed(b, t, sort, g, P)
               /\ Stood(b, t, sort) => ~IsHidden(b)
  <1> DEFINE Goes(c) == Stood(c, t, sort) /\ IsHidden(c)
             Good(c, i) == /\ Renewed(a, c, t) /\ Passed(c, t, sort, g, P)
                           /\ Goes(c) => Remaining(c, t, sort) + i <= 2 * MaxRecno
  <1>1. MaxTurns \in Nat
    BY SkippingTurns
  <1>2. PICK after : /\ SkipHidden(a, t, sort) = after[MaxTurns]
                     /\ \A i \in 0 .. MaxTurns :
                           after[i] = IF i = 0 THEN a ELSE PassHidden(after[i - 1], t, sort)
    BY SkippingTurns
  <1>3. ASSUME NEW c, ~Goes(c), Stood(c, t, sort) \/ Ended(c, t, sort)
        PROVE  PassHidden(c, t, sort) = c
    <2>1. CASE Stood(c, t, sort)
      BY <1>3, <2>1 DEF PassHidden
    <2>2. CASE Ended(c, t, sort)
      BY <2>2 DEF PassHidden, Ended
    <2> QED
      BY <1>3, <2>1, <2>2
  <1>4. ASSUME NEW c, NEW i \in Nat, Good(c, i)
        PROVE  Good(PassHidden(c, t, sort), i + 1)
    <2>1. CASE ~Goes(c)
      <3>1. Stood(c, t, sort) \/ Ended(c, t, sort)
        BY <1>4 DEF Passed
      <3>2. PassHidden(c, t, sort) = c
        BY <1>3, <2>1, <3>1
      <3> QED
        BY <1>4, <2>1, <3>2
    <2>2. CASE Goes(c)
      <3> DEFINE d == PassHidden(c, t, sort)
      <3>1. /\ Renewed(c, d, t)
            /\ Passed(d, t, sort, At(c), Sure(c, t))
            /\ Stood(d, t, sort) => Remaining(d, t, sort) < Remaining(c, t, sort)
        BY <2>2, TurnPasses
      <3> HIDE DEF d
      <3>2. P \subseteq c.steady \cap ShownRows(c, t)
        <4>1. c.block = a.block /\ c.steady \in {a.steady, DOMAIN t}
          BY <1>4 DEF Renewed, SameSettings
        <4>2. ShownRows(c, t) = ShownRows(a, t) /\ ShownRows(a, t) \subseteq DOMAIN t
          BY <4>1 DEF ShownRows
        <4> QED
          BY <4>1, <4>2
      <3>3. FilterShown(c)
        BY <2>2 DEF Stood, OnWay
      <3>4. Passed(d, t, sort, g, P)
        BY <1>4, <2>2, <3>1, <3>2, <3>3, PassedMore
      <3>5. Renewed(a, d, t)
        BY <1>4, <3>1, RenewalsJoin DEF RenewedTwice
      <3>6. ASSUME Goes(d)
            PROVE  Remaining(d, t, sort) + (i + 1) <= 2 * MaxRecno
        <4>1. Remaining(d, t, sort) \in 0 .. 2 * MaxRecno /\ Remaining(c, t, sort) \in 0 .. 2 * MaxRecno
          BY <2>2, <3>6, RemainingBound
        <4>2. Remaining(c, t, sort) + i <= 2 * MaxRecno
          BY <1>4, <2>2
        <4>3. MaxRecno \in Nat
          BY WorkAreaAssumption DEF WorkAreaAssumption
        <4> QED
          BY <3>1, <3>6, <4>1, <4>2, <4>3
      <3> QED
        BY <3>4, <3>5, <3>6 DEF d
    <2> QED
      BY <2>1, <2>2
  <1>5. Good(a, 0)
    <2>1. Renewed(a, a, t)
      BY DEF Renewed, SameSettings
    <2>2. ASSUME Goes(a)
          PROVE  Remaining(a, t, sort) + 0 <= 2 * MaxRecno
      <3>1. Remaining(a, t, sort) \in 0 .. 2 * MaxRecno
        BY <2>2, RemainingBound
      <3> QED
        BY <3>1
    <2> QED
      BY <2>1, <2>2
  <1> HIDE DEF Good
  <1> DEFINE Bad == {i \in 0 .. MaxTurns : ~Good(after[i], i)}
  <1>6. Bad = {}
    <2> SUFFICES ASSUME Bad # {}
                 PROVE  FALSE
      OBVIOUS
    <2>1. Bad \in SUBSET Nat
      OBVIOUS
    <2>2. PICK m \in Bad : \A k \in Bad : m <= k
      <3> HIDE DEF Bad
      <3> QED
        BY <2>1, LeastNumber
    <2>3. m \in 0 .. MaxTurns /\ ~Good(after[m], m)
      OBVIOUS
    <2>4. m # 0
      BY <1>2, <1>5, <2>3
    <2>5. m - 1 \in 0 .. MaxTurns /\ m - 1 \notin Bad
      BY <1>1, <2>2, <2>3, <2>4
    <2>6. Good(after[m - 1], m - 1)
      BY <2>5
    <2>7. after[m] = PassHidden(after[m - 1], t, sort)
      BY <1>2, <2>3, <2>4
    <2>8. m - 1 \in Nat /\ (m - 1) + 1 = m
      BY <1>1, <2>3, <2>4
    <2>9. Good(after[m], (m - 1) + 1)
      BY <1>4, <2>6, <2>7, <2>8
    <2> QED
      BY <2>3, <2>8, <2>9
  <1>7. Good(after[MaxTurns], MaxTurns)
    BY <1>1, <1>6
  <1> DEFINE b == after[MaxTurns]
  <1>8. Renewed(a, b, t) /\ Passed(b, t, sort, g, P)
    BY <1>7 DEF Good
  <1>9. ASSUME Goes(b)
        PROVE  FALSE
    <2>1. Remaining(b, t, sort) + MaxTurns <= 2 * MaxRecno
      BY <1>7, <1>9 DEF Good
    <2>2. Remaining(b, t, sort) \in 0 .. 2 * MaxRecno
      BY <1>9, RemainingBound
    <2>3. MaxRecno \in Nat
      BY WorkAreaAssumption DEF WorkAreaAssumption
    <2> QED
      BY <2>1, <2>2, <2>3 DEF MaxTurns
  <1> QED
    BY <1>2, <1>8, <1>9

-----------------------------------------------------------------------------
(* Where the program stands between calls.  A key that it changed there is *)
(* not yet the one the result set goes on from.                            *)
Stand(a) == [pk |-> a.record.pk, key |-> IF a.keyValue = NoKey THEN a.record.key ELSE a.keyValue]

(* What is fetched next goes on from there.                                *)
Stands(a) ==
    /\ a.current \in QueryCommand
    /\ ~a.append /\ ~a.lost /\ ~a.unpositioned /\ ~a.eof /\ a.record.pk # Blank
    /\ a.bof => CurrentStatement(a).sort # "DESC"
    /\ "key" \in a.changed => CurrentStatement(a).order = a.order

WellMarked(a) ==
    /\ FilterShown(a)
    /\ "key" \notin a.changed => a.keyValue = NoKey
    /\ a.eof /\ ~a.lost => CurrentStatement(a).sort # "DESC"
    /\ a.eof => a.changed = {}
    /\ a.append => a.unpositioned /\ ~a.immediate

Positioned(a, t) ==
    /\ WellMarked(a)
    /\ Primed(a, t)
    /\ Stands(a) => Covers(a, t, Stand(a)) /\ Ahead(a, Stand(a))

PosInv == Positioned(area, rows)

LEMMA StoodPositioned ==
    ASSUME NEW t \in Tables, NEW sort \in {"ASC", "DESC"}, NEW a, Stood(a, t, sort)
    PROVE  Positioned(a, t)
  <1>1. OnWay(a, t, sort) /\ ~a.eof /\ a.keyValue = NoKey /\ Covers(a, t, At(a)) /\ Ahead(a, At(a))
    BY DEF Stood
  <1>2. a \in Ready(t) /\ Primed(a, t) /\ FilterShown(a)
    BY <1>1 DEF OnWay
  <1>3. ~a.append
    BY <1>2, ReadyParts
  <1>4. Stand(a) = At(a)
    BY <1>1 DEF Stand, At
  <1> QED
    BY <1>1, <1>2, <1>3, <1>4 DEF Positioned, WellMarked

LEMMA EndedPositioned ==
    ASSUME NEW t \in Tables, NEW sort \in {"ASC", "DESC"}, NEW a, Ended(a, t, sort),
           "key" \notin a.changed => a.keyValue = NoKey
    PROVE  Positioned(a, t)
  <1>1. OnWay(a, t, sort) /\ (sort = "DESC" => a.bof /\ ~a.eof) /\ (sort = "ASC" => a.eof /\ a.changed = {})
    BY DEF Ended
  <1>2. a \in Ready(t) /\ Primed(a, t) /\ FilterShown(a)
    BY <1>1 DEF OnWay
  <1>3. ~a.append
    BY <1>2, ReadyParts
  <1>4. CurrentStatement(a).sort = sort
    BY <1>1, OnWayFits
  <1>5. ~Stands(a)
    <2>1. CASE sort = "ASC"
      BY <1>1, <2>1 DEF Stands
    <2>2. CASE sort = "DESC"
      BY <1>1, <1>4, <2>2 DEF Stands
    <2> QED
      BY <2>1, <2>2
  <1>6. WellMarked(a)
    BY <1>1, <1>2, <1>3, <1>4 DEF WellMarked
  <1> QED
    BY <1>2, <1>5, <1>6 DEF Positioned

(* On no row that the result set goes on from.                             *)
LEMMA NowherePositioned ==
    ASSUME NEW t, NEW a, WellMarked(a), Primed(a, t), ~Stands(a)
    PROVE  Positioned(a, t)
  BY DEF Positioned

(* Another table, of which the rows that are still steady are the same.    *)
StillSteady(a, t, b, u) ==
    /\ DOMAIN t \subseteq DOMAIN u
    /\ b.steady = {p \in a.steady : u[p] = t[p]}
    /\ b.current = a.current /\ b.commands = a.commands
    /\ b.result = a.result /\ b.fetched = a.fetched

LEMMA SteadyCovers ==
    ASSUME NEW a, NEW t, NEW b, NEW u, StillSteady(a, t, b, u), a.steady \subseteq DOMAIN t
    PROVE  /\ Primed(a, t) => Primed(b, u)
           /\ \A g : Covers(a, t, g) => Covers(b, u, g)
           /\ \A g : Ahead(a, g) => Ahead(b, g)
           /\ CurrentStatement(b) = CurrentStatement(a)
  <1> USE DEF StillSteady
  <1>1. CurrentStatement(b) = CurrentStatement(a)
    BY DEF CurrentStatement
  <1>2. \A x, y : Way(b, x, y) <=> Way(a, x, y)
    BY <1>1 DEF Way
  <1>3. MoreKeys(b) <=> MoreKeys(a)
    BY <1>1 DEF MoreKeys
  <1>4. \A p \in b.steady : p \in a.steady /\ p \in DOMAIN t /\ u[p] = t[p] /\ RowOf(u, p) = RowOf(t, p)
    BY DEF RowOf
  <1>5. \A p \in Sure(b, u) : p \in Sure(a, t)
    BY <1>1, <1>4 DEF Sure, Select
  <1>6. \A p \in Sure(b, u) : u[p] = t[p] /\ RowOf(u, p) = RowOf(t, p)
    BY <1>4 DEF Sure
  <1>7. \A g : Covers(a, t, g) => Covers(b, u, g)
    BY <1>1, <1>2, <1>3, <1>5, <1>6 DEF Covers
  <1>8. \A g : Ahead(a, g) => Ahead(b, g)
    BY <1>2 DEF Ahead
  <1>9. Primed(a, t) => Primed(b, u)
    BY <1>1, <1>4, <1>7 DEF Primed
  <1> QED
    BY <1>1, <1>7, <1>8, <1>9

-----------------------------------------------------------------------------
(* A fetch, and the rows that are skipped then.                            *)

(* The rows that a movement must not pass over.                            *)
Known(a, t) == a.steady \cap ShownRows(a, t)

(* The query goes on from g, and the next key would follow that of g.      *)
Follows(a, t, g) == GoesOn(a, t, g) /\ (a.result = {} /\ IsQueryMore(a) => g.key = a.record.key)

LEMMA KnownIsSure ==
    ASSUME NEW t \in Tables, NEW sort \in {"ASC", "DESC"}, NEW a, OnWay(a, t, sort)
    PROVE  Known(a, t) \subseteq Sure(a, t)
  <1>1. Sure(a, t) = a.steady \cap Asked(a, t)
    BY OnWayFits
  <1> QED
    BY <1>1 DEF Known, Asked, ShownRows, OnWay, FilterShown

LEMMA SomeBefore ==
    ASSUME NEW o \in Int, NEW sort, NEW x, IsSpot(x)
    PROVE  \E g : IsSpot(g) /\ Comes(o, sort, g, x)
  <1> DEFINE g == [pk |-> IF sort = "DESC" THEN x.pk + 1 ELSE x.pk - 1, key |-> x.key]
  <1>1. IsSpot(g) /\ g.key = x.key /\ (sort = "DESC" => x.pk < g.pk) /\ (sort # "DESC" => g.pk < x.pk)
    BY DEF IsSpot
  <1> HIDE DEF g
  <1>2. Comes(o, sort, g, x)
    BY <1>1 DEF Comes, Precedes
  <1> QED
    BY <1>1, <1>2

LEMMA FetchAndSkip ==
    ASSUME setDeleted \in BOOLEAN, NEW t \in Tables, NEW sort \in {"ASC", "DESC"},
           NEW a, OnWay(a, t, sort), IF sort = "DESC" THEN ~a.bof ELSE ~a.eof
    PROVE  LET b == FetchNextRecord(a, t, sort)
               c == SkipHidden(b, t, sort)
           IN  /\ Renewed(a, b, t) /\ b.bottom = a.bottom /\ Renewed(a, c, t)
               /\ Stood(b, t, sort) \/ Ended(b, t, sort)
               /\ Stood(c, t, sort) \/ Ended(c, t, sort)
               /\ Stood(c, t, sort) => ~IsHidden(c)
               /\ Ended(b, t, sort) /\ sort = "DESC" => SameRecord(a, b)
               /\ \A g : Follows(a, t, g) => /\ Passed(b, t, sort, g, Sure(a, t))
                                             /\ Passed(b, t, sort, g, Known(a, t))
                                             /\ Passed(c, t, sort, g, Known(a, t))
  <1> DEFINE b == FetchNextRecord(a, t, sort)
             c == SkipHidden(b, t, sort)
  <1>1. /\ Renewed(a, b, t) /\ b.bottom = a.bottom
        /\ Stood(b, t, sort) \/ Ended(b, t, sort)
        /\ Ended(b, t, sort) /\ sort = "DESC" => SameRecord(a, b)
        /\ \A g : Follows(a, t, g) => Passed(b, t, sort, g, Sure(a, t))
    BY FetchPasses DEF Follows
  <1> HIDE DEF b
  <1>2. Known(a, t) \subseteq b.steady \cap ShownRows(b, t)
    <2>1. b.block = a.block
      BY <1>1 DEF Renewed, SameSettings
    <2>2. ShownRows(b, t) = ShownRows(a, t) /\ ShownRows(a, t) \subseteq DOMAIN t
      BY <2>1 DEF ShownRows
    <2> QED
      BY <1>1, <2>2 DEF Known, Renewed
  <1>3. ASSUME NEW g, IsSpot(g), NEW P, P \subseteq b.steady \cap ShownRows(b, t),
               Passed(b, t, sort, g, P)
        PROVE  /\ Renewed(b, c, t)
               /\ Passed(c, t, sort, g, P)
               /\ Stood(c, t, sort) => ~IsHidden(c)
    BY <1>3, SkipHiddenPasses
  <1>4. \E g : IsSpot(g) /\ Passed(b, t, sort, g, {})
    <2>1. CASE Stood(b, t, sort)
      <3>1. b.order \in Int /\ IsSpot(At(b))
        BY <2>1, StoodParts
      <3>2. PICK g : IsSpot(g) /\ Comes(b.order, sort, g, At(b))
        BY <3>1, SomeBefore
      <3> QED
        BY <2>1, <3>2 DEF Passed
    <2>2. CASE Ended(b, t, sort)
      <3>1. IsSpot([pk |-> 0, key |-> 0])
        BY DEF IsSpot
      <3> QED
        BY <2>2, <3>1 DEF Passed
    <2> QED
      BY <1>1, <2>1, <2>2
  <1>5. /\ Renewed(b, c, t)
        /\ Stood(c, t, sort) \/ Ended(c, t, sort)
        /\ Stood(c, t, sort) => ~IsHidden(c)
    <2>1. PICK g : IsSpot(g) /\ Passed(b, t, sort, g, {})
      BY <1>4
    <2>2. {} \subseteq b.steady \cap ShownRows(b, t)
      OBVIOUS
    <2>3. /\ Renewed(b, c, t)
          /\ Passed(c, t, sort, g, {})
          /\ Stood(c, t, sort) => ~IsHidden(c)
      BY <1>3, <2>1, <2>2
    <2> QED
      BY <2>3 DEF Passed
  <1>6. ASSUME NEW g, Follows(a, t, g)
        PROVE  /\ Passed(b, t, sort, g, Known(a, t))
               /\ Passed(c, t, sort, g, Known(a, t))
    <2>1. Passed(b, t, sort, g, Sure(a, t)) /\ IsSpot(g)
      BY <1>1, <1>6 DEF Follows, GoesOn
    <2>2. Known(a, t) \subseteq Sure(a, t)
      BY KnownIsSure
    <2>3. Passed(b, t, sort, g, Known(a, t))
      BY <2>1, <2>2 DEF Passed
    <2> QED
      BY <1>2, <1>3, <2>1, <2>3
  <1> HIDE DEF c
  <1>7. Renewed(a, c, t)
    BY <1>1, <1>5, RenewalsJoin DEF RenewedTwice
  <1> QED
    BY <1>1, <1>5, <1>6, <1>7 DEF b, c

(* Nothing is hidden when nothing hides rows.                              *)
LEMMA NothingHidden ==
    ASSUME NEW a, ~(setDeleted \/ a.block)
    PROVE  ~IsHidden(a)
  BY DEF IsHidden

LEMMA MovesDown ==
    ASSUME setDeleted \in BOOLEAN, NEW t \in Tables, NEW a, OnWay(a, t, "ASC"), ~a.eof
    PROVE  LET b == FetchNextRecord(a, t, "ASC")
               c == SkipFilterDown(b, t)
           IN  /\ Renewed(a, c, t)
               /\ Stood(c, t, "ASC") \/ Ended(c, t, "ASC")
               /\ Stood(c, t, "ASC") => ~IsHidden(c)
               /\ \A g : Follows(a, t, g) => Passed(c, t, "ASC", g, Known(a, t))
  <1> DEFINE b == FetchNextRecord(a, t, "ASC")
             c == SkipFilterDown(b, t)
             d == SkipHidden(b, t, "ASC")
  <1>1. "ASC" \in {"ASC", "DESC"} /\ "ASC" # "DESC"
    OBVIOUS
  <1>2. /\ Renewed(a, b, t) /\ Renewed(a, d, t)
        /\ Stood(b, t, "ASC") \/ Ended(b, t, "ASC")
        /\ Stood(d, t, "ASC") \/ Ended(d, t, "ASC")
        /\ Stood(d, t, "ASC") => ~IsHidden(d)
        /\ \A g : Follows(a, t, g) => /\ Passed(b, t, "ASC", g, Known(a, t))
                                      /\ Passed(d, t, "ASC", g, Known(a, t))
    BY <1>1, FetchAndSkip
  <1>3. c = IF setDeleted \/ b.block THEN d ELSE b
    BY DEF SkipFilterDown
  <1>4. ~(setDeleted \/ b.block) => ~IsHidden(b)
    BY NothingHidden
  <1> HIDE DEF b, c, d
  <1> QED
    BY <1>2, <1>3, <1>4 DEF b, c

-----------------------------------------------------------------------------
(* To the top and to the bottom.                                           *)

(* On the first of the rows that are shown, in this direction.             *)
FirstShown(c, t, sort) ==
    /\ Stood(c, t, sort)
    /\ c.record.pk \in ShownRows(c, t) /\ c.record.key = t[c.record.pk].key
    /\ \A p \in ShownRows(c, t) : ~Comes(c.order, sort, RowOf(t, p), At(c))

NoneShown(c, t) == ShownRows(c, t) = {}

LEMMA StartIs ==
    ASSUME NEW a \in AreaType, NEW x \in BOOLEAN
    PROVE  LET b == [ResetFlags(a) EXCEPT !.bottom = x]
           IN  /\ SameWay(a, b) /\ SameSettings(a, b) /\ SameRecord(a, b)
               /\ b.result = a.result /\ b.fetched = a.fetched
               /\ ~b.bof /\ ~b.eof /\ ~b.found /\ b.bottom = x
               /\ b.hot = a.hot /\ b.append = a.append
  BY DEF AreaType, ResetFlags, SameWay, SameSettings, SameRecord

LEMMA SameShown ==
    ASSUME NEW a, NEW b, NEW t, SameSettings(a, b)
    PROVE  /\ ShownRows(b, t) = ShownRows(a, t)
           /\ Asked(b, t) = Asked(a, t)
           /\ FilterShown(a) <=> FilterShown(b)
           /\ b.order = a.order
  BY DEF ShownRows, Asked, FilterShown, SameSettings

LEMMA StoodShown ==
    ASSUME NEW t \in Tables, NEW sort \in {"ASC", "DESC"}, NEW c, Stood(c, t, sort),
           ~IsHidden(c), c.record.pk \in c.steady
    PROVE  c.record.pk \in ShownRows(c, t) /\ c.record.key = t[c.record.pk].key
  BY DEF Stood, IsHidden, ShownRows

LEMMA FirstIsShown ==
    ASSUME NEW t \in Tables, NEW sort \in {"ASC", "DESC"}, NEW a, a.steady = DOMAIN t,
           NEW g, \A p \in ShownRows(a, t) : Comes(a.order, sort, g, RowOf(t, p)),
           NEW c, Renewed(a, c, t), Passed(c, t, sort, g, Known(a, t)),
           Stood(c, t, sort) => ~IsHidden(c)
    PROVE  /\ c.steady = DOMAIN t
           /\ \/ FirstShown(c, t, sort)
              \/ Ended(c, t, sort) /\ NoneShown(c, t)
  <1>1. SameSettings(a, c) /\ c.steady = DOMAIN t
    BY DEF Renewed
  <1>2. ShownRows(c, t) = ShownRows(a, t) /\ c.order = a.order
    BY <1>1, SameShown
  <1>3. Known(a, t) = ShownRows(a, t)
    BY DEF Known, ShownRows
  <1>4. CASE Stood(c, t, sort)
    <2>1. c.record.pk \in DOMAIN t
      BY <1>4 DEF Stood
    <2>2. c.record.pk \in ShownRows(c, t) /\ c.record.key = t[c.record.pk].key
      BY <1>1, <1>4, <2>1, StoodShown
    <2>3. ~Ended(c, t, sort)
      BY <1>4 DEF Stood, Ended
    <2>4. \A p \in ShownRows(c, t) : ~Comes(c.order, sort, RowOf(t, p), At(c))
      BY <1>2, <1>3, <1>4, <2>3 DEF Passed
    <2> QED
      BY <1>1, <1>4, <2>2, <2>4 DEF FirstShown
  <1>5. CASE Ended(c, t, sort)
    <2>1. ~Stood(c, t, sort)
      BY <1>5 DEF Stood, Ended
    <2>2. \A p \in ShownRows(c, t) : ~Comes(c.order, sort, g, RowOf(t, p))
      BY <1>2, <1>3, <2>1 DEF Passed
    <2> QED
      BY <1>1, <1>2, <1>5, <2>2 DEF NoneShown
  <1> QED
    BY <1>4, <1>5 DEF Passed

LEMMA TopReached ==
    ASSUME setDeleted \in BOOLEAN, NEW t \in Tables, NEW a \in Settled(t), FilterShown(a)
    PROVE  LET c == GoTopOf(a, t)
           IN  /\ SameSettings(a, c) /\ c.steady = DOMAIN t
               /\ \/ FirstShown(c, t, "ASC")
                  \/ Ended(c, t, "ASC") /\ NoneShown(c, t)
  <1> DEFINE d == [ResetFlags(a) EXCEPT !.bottom = FALSE]
             q == QueryTop(d, t)
             c == GoTopOf(a, t)
  <1>1. "ASC" \in {"ASC", "DESC"} /\ "ASC" # "DESC"
    OBVIOUS
  <1>2. a \in AreaType
    BY DEF Settled, Areas
  <1>3. d \in Settled(t) /\ SameSettings(a, d) /\ ~d.eof
    BY <1>2, StartSettled, StartIs
  <1>4. c = SkipFilterDown(FetchNextRecord(q, t, "ASC"), t)
    BY DEF GoTopOf
  <1> HIDE DEF d
  <1>5. FilterShown(d)
    BY <1>3, SameShown
  <1>6. PICK g : /\ OnWay(q, t, "ASC")
                 /\ q.steady = DOMAIN t
                 /\ ~IsQueryMore(q)
                 /\ SameSettings(d, q) /\ SameFlags(d, q)
                 /\ GoesOn(q, t, g)
                 /\ \A p \in Asked(d, t) : Comes(d.order, "ASC", g, RowOf(t, p))
    BY <1>1, <1>3, <1>5, LimitReaches DEF GoesOn
  <1> HIDE DEF q, c
  <1>7. ~q.eof
    BY <1>3, <1>6 DEF SameFlags
  <1>8. Follows(q, t, g)
    BY <1>6 DEF Follows
  <1>9. /\ Renewed(q, c, t)
        /\ Stood(c, t, "ASC") => ~IsHidden(c)
        /\ Passed(c, t, "ASC", g, Known(q, t))
    BY <1>4, <1>6, <1>7, <1>8, MovesDown
  <1>10. \A p \in ShownRows(q, t) : Comes(q.order, "ASC", g, RowOf(t, p))
    <2>1. ShownRows(q, t) = ShownRows(d, t) /\ q.order = d.order
      BY <1>6, SameShown
    <2>2. ShownRows(d, t) \subseteq Asked(d, t)
      BY <1>5 DEF ShownRows, Asked, FilterShown
    <2> QED
      BY <1>6, <2>1, <2>2
  <1>11. /\ c.steady = DOMAIN t
         /\ \/ FirstShown(c, t, "ASC")
            \/ Ended(c, t, "ASC") /\ NoneShown(c, t)
    BY <1>1, <1>6, <1>9, <1>10, FirstIsShown
  <1>12. SameSettings(a, c)
    BY <1>3, <1>6, <1>9 DEF Renewed, SameSettings
  <1> QED
    BY <1>11, <1>12 DEF c

LEMMA FirstPositioned ==
    ASSUME NEW t \in Tables, NEW sort \in {"ASC", "DESC"}, NEW c,
           FirstShown(c, t, sort) \/ (Ended(c, t, sort) /\ sort = "ASC")
    PROVE  Positioned(c, t)
  <1>1. CASE FirstShown(c, t, sort)
    BY <1>1, StoodPositioned DEF FirstShown
  <1>2. CASE Ended(c, t, sort) /\ sort = "ASC"
    <2>1. c.keyValue = NoKey
      BY <1>2 DEF Ended
    <2> QED
      BY <1>2, <2>1, EndedPositioned
  <1> QED
    BY <1>1, <1>2

(* A movement that only marks what it did.                                 *)
SameButMarks(a, b) ==
    /\ SameWay(a, b) /\ b.result = a.result /\ b.fetched = a.fetched
    /\ b.record = a.record /\ b.keyValue = a.keyValue /\ b.changed = a.changed
    /\ b.append = a.append

LEMMA MarkIs ==
    ASSUME NEW a \in AreaType, NEW x \in BOOLEAN
    PROVE  /\ LET b == [a EXCEPT !.found = x]
              IN  /\ SameButMarks(a, b) /\ b.lost = a.lost /\ b.bof = a.bof /\ b.eof = a.eof
                  /\ b.bottom = a.bottom /\ b.found = x
           /\ LET b == [a EXCEPT !.bof = x]
              IN  /\ SameButMarks(a, b) /\ b.lost = a.lost /\ b.eof = a.eof /\ b.found = a.found
                  /\ b.bottom = a.bottom /\ b.bof = x
           /\ LET b == [a EXCEPT !.eof = FALSE]
              IN  /\ SameButMarks(a, b) /\ b.lost = a.lost /\ b.bof = a.bof /\ b.found = a.found
                  /\ b.bottom = a.bottom /\ ~b.eof
           /\ LET b == [a EXCEPT !.lost = x]
              IN  /\ SameButMarks(a, b) /\ b.bof = a.bof /\ b.eof = a.eof /\ b.found = a.found
                  /\ b.bottom = a.bottom /\ b.lost = x
  BY DEF AreaType, SameButMarks, SameWay, SameSettings

LEMMA MarkedPositioned ==
    ASSUME NEW t, NEW a, WellMarked(a), Primed(a, t), NEW b, SameButMarks(a, b),
           b.eof => a.eof, b.eof /\ ~b.lost => ~a.lost,
           Stands(b) => Stands(a) /\ Positioned(a, t)
    PROVE  Positioned(b, t)
  <1> USE DEF SameButMarks, SameWay, SameSettings
  <1>1. SameQuery(a, b) /\ CurrentStatement(b) = CurrentStatement(a)
    BY DEF SameQuery, CurrentStatement
  <1>2. Primed(b, t)
    BY <1>1, SameCovers
  <1>3. WellMarked(b)
    BY <1>1 DEF WellMarked, FilterShown
  <1>4. ASSUME Stands(b)
        PROVE  Covers(b, t, Stand(b)) /\ Ahead(b, Stand(b))
    <2>1. Covers(a, t, Stand(a)) /\ Ahead(a, Stand(a)) /\ Stand(b) = Stand(a)
      BY <1>4 DEF Positioned, Stand
    <2> QED
      BY <1>1, <2>1, SameCovers
  <1> QED
    BY <1>2, <1>3, <1>4 DEF Positioned

(* GOTO 0.                                                                 *)
OnNone(b) ==
    /\ b.record = BlankRecord /\ b.changed = {} /\ b.keyValue = NoKey
    /\ b.bof /\ b.eof /\ ~b.found

LEMMA GoToNoneIs ==
    ASSUME NEW t, NEW a \in Ready(t), Primed(a, t), FilterShown(a)
    PROVE  LET b == GoToNone(a)
           IN  /\ OnNone(b) /\ b.lost = (CurrentStatement(a).sort = "DESC")
               /\ SameWay(a, b) /\ SameSettings(a, b)
               /\ b.bottom = a.bottom /\ ~b.append
               /\ Positioned(b, t) /\ WellMarked(b) /\ Primed(b, t)
  <1> DEFINE f == ResetFlags(a)
             h == WithRecord(f, BlankRecord)
             gone == CurrentStatement(a).sort = "DESC"
             b == [h EXCEPT !.bof = TRUE, !.eof = TRUE, !.lost = gone]
  <1>1. a \in AreaType /\ ~a.append
    BY ReadyParts
  <1>2. GoToNone(a) = b
    BY DEF GoToNone
  <1>3. gone \in BOOLEAN
    OBVIOUS
  <1> HIDE DEF gone
  <1>4. SameWay(a, f) /\ f.result = a.result /\ f.fetched = a.fetched /\ ~f.found /\ f.append = a.append
        /\ f.bottom = a.bottom
    BY <1>1 DEF AreaType, ResetFlags, SameWay, SameSettings
  <1>5. SameWay(f, h) /\ h.result = f.result /\ h.fetched = f.fetched /\ h.found = f.found
        /\ h.append = f.append /\ h.bottom = f.bottom
        /\ h.record = BlankRecord /\ h.changed = {} /\ h.keyValue = NoKey
    BY <1>1 DEF AreaType, ResetFlags, WithRecord, SameWay, SameSettings
  <1>6. SameWay(h, b) /\ b.result = h.result /\ b.fetched = h.fetched /\ b.found = h.found
        /\ b.append = h.append /\ b.bottom = h.bottom
        /\ b.record = h.record /\ b.changed = h.changed /\ b.keyValue = h.keyValue
        /\ b.bof /\ b.eof /\ b.lost = gone
    BY <1>1 DEF AreaType, ResetFlags, WithRecord, SameWay, SameSettings
  <1> HIDE DEF f, h, b
  <1>7. OnNone(b) /\ b.lost = gone /\ ~b.append /\ b.bottom = a.bottom
    BY <1>1, <1>4, <1>5, <1>6 DEF OnNone
  <1>8. SameWay(a, b) /\ b.result = a.result /\ b.fetched = a.fetched
    BY <1>4, <1>5, <1>6 DEF SameWay, SameSettings
  <1>9. SameQuery(a, b) /\ CurrentStatement(b) = CurrentStatement(a)
    BY <1>8 DEF SameQuery, CurrentStatement, SameWay
  <1>10. Primed(b, t)
    BY <1>9, SameCovers
  <1>11. WellMarked(b)
    BY <1>7, <1>8, <1>9 DEF WellMarked, OnNone, FilterShown, SameWay, SameSettings, gone
  <1>12. ~Stands(b)
    BY <1>7 DEF OnNone, Stands
  <1> QED
    BY <1>2, <1>7, <1>8, <1>10, <1>11, <1>12 DEF gone, Positioned, SameWay

OnTop(c, t) ==
    /\ c.steady = DOMAIN t
    /\ FirstShown(c, t, "ASC") \/ (Ended(c, t, "ASC") /\ NoneShown(c, t))

(* Nothing that is shown is left.                                          *)
NoneLeft(a, t, sort) ==
    \A g : Follows(a, t, g) => \A p \in Known(a, t) : ~Comes(a.order, sort, g, RowOf(t, p))

(* What a movement back over the first row comes to.                       *)
StoppedUp(a, e, t) ==
    /\ Stood(e, t, "DESC") /\ ~IsHidden(e)
    /\ \A g : Follows(a, t, g) => Passed(e, t, "DESC", g, Known(a, t))
StayedUp(a, e, t) ==
    /\ ~(setDeleted \/ a.block)
    /\ Ended(e, t, "DESC") /\ SameRecord(a, e)
    /\ NoneLeft(a, t, "DESC")
GoneUp(a, e, t) ==
    /\ a.bottom
    /\ OnNone(e) /\ e.lost
    /\ WellMarked(e) /\ Primed(e, t)
    /\ NoneLeft(a, t, "DESC")
ToppedUp(a, e, t) ==
    /\ ~a.bottom
    /\ NoneLeft(a, t, "DESC")
    /\ \E c \in Ready(t) : OnTop(c, t) /\ e = [c EXCEPT !.bof = TRUE]

LEMMA UpReached ==
    ASSUME setDeleted \in BOOLEAN, NEW t \in Tables, NEW a, OnWay(a, t, "DESC"), ~a.bof
    PROVE  LET e == SkipFilterUp(FetchNextRecord(a, t, "DESC"), t)
           IN  /\ Renewed(a, e, t)
               /\ StoppedUp(a, e, t) \/ StayedUp(a, e, t) \/ GoneUp(a, e, t) \/ ToppedUp(a, e, t)
  <1> DEFINE b == FetchNextRecord(a, t, "DESC")
             c == SkipHidden(b, t, "DESC")
             e == SkipFilterUp(b, t)
             h == GoTopOf(c, t)
  <1>1. "DESC" \in {"ASC", "DESC"}
    OBVIOUS
  <1>2. /\ Renewed(a, b, t) /\ b.bottom = a.bottom /\ Renewed(a, c, t)
        /\ Stood(b, t, "DESC") \/ Ended(b, t, "DESC")
        /\ Stood(c, t, "DESC") \/ Ended(c, t, "DESC")
        /\ Stood(c, t, "DESC") => ~IsHidden(c)
        /\ Ended(b, t, "DESC") => SameRecord(a, b)
        /\ \A g : Follows(a, t, g) => /\ Passed(b, t, "DESC", g, Known(a, t))
                                      /\ Passed(c, t, "DESC", g, Known(a, t))
    BY <1>1, FetchAndSkip
  <1>3. e = IF ~(setDeleted \/ b.block) THEN b
            ELSE IF ~c.bof THEN c
            ELSE IF b.bottom THEN GoToNone(c)
            ELSE [h EXCEPT !.bof = TRUE]
    BY DEF SkipFilterUp
  <1>4. b.block = a.block /\ b.order = a.order /\ c.order = a.order
    BY <1>2 DEF Renewed, SameSettings
  <1> HIDE DEF b, c, e
  <1>5. ASSUME NEW x, Ended(x, t, "DESC"), x.order = a.order,
               \A g : Follows(a, t, g) => Passed(x, t, "DESC", g, Known(a, t))
        PROVE  NoneLeft(a, t, "DESC")
    <2>1. ~Stood(x, t, "DESC")
      BY <1>5 DEF Stood, Ended
    <2> QED
      BY <1>5, <2>1 DEF Passed, NoneLeft
  <1>6. CASE ~(setDeleted \/ b.block)
    <2>1. e = b
      BY <1>3, <1>6
    <2>2. ~IsHidden(b)
      BY <1>6, NothingHidden
    <2>3. Stood(b, t, "DESC") => StoppedUp(a, e, t)
      BY <1>2, <2>1, <2>2 DEF StoppedUp
    <2>4. ASSUME Ended(b, t, "DESC")
          PROVE  StayedUp(a, e, t)
      <3>1. NoneLeft(a, t, "DESC")
        BY <1>2, <1>4, <1>5, <2>4
      <3> QED
        BY <1>2, <1>4, <1>6, <2>1, <2>4, <3>1 DEF StayedUp
    <2> QED
      BY <1>2, <2>1, <2>3, <2>4 DEF e, b
  <1>7. CASE (setDeleted \/ b.block) /\ Stood(c, t, "DESC")
    <2>1. e = c
      BY <1>3, <1>7 DEF Stood
    <2> QED
      BY <1>2, <1>7, <2>1 DEF StoppedUp, e, b
  <1>8. CASE (setDeleted \/ b.block) /\ Ended(c, t, "DESC")
    <2>1. c.bof /\ OnWay(c, t, "DESC") /\ NoneLeft(a, t, "DESC")
      BY <1>2, <1>4, <1>5, <1>8 DEF Ended
    <2>2. c \in Ready(t) /\ Primed(c, t) /\ FilterShown(c) /\ c \in Settled(t)
      BY <2>1, ReadyParts DEF OnWay
    <2>3. CASE b.bottom
      <3>1. e = GoToNone(c)
        BY <1>3, <1>8, <2>1, <2>3
      <3>2. CurrentStatement(c).sort = "DESC"
        BY <2>1 DEF OnWay, DiscardCommand
      <3>3. OnNone(e) /\ e.lost /\ SameWay(c, e) /\ WellMarked(e) /\ Primed(e, t)
        BY <2>2, <3>1, <3>2, GoToNoneIs
      <3>4. Renewed(a, e, t)
        BY <1>2, <3>3 DEF Renewed, SameWay, SameSettings
      <3> QED
        BY <1>2, <2>1, <2>3, <3>3, <3>4 DEF GoneUp, e, b
    <2>4. CASE ~b.bottom
      <3>1. e = [h EXCEPT !.bof = TRUE]
        BY <1>3, <1>8, <2>1, <2>4
      <3>2. SameSettings(c, h) /\ OnTop(h, t)
        BY <2>2, TopReached DEF OnTop
      <3>3. h \in Ready(t)
        BY <2>2, GoTopReady
      <3> HIDE DEF h
      <3>4. SameButMarks(h, e)
        BY <3>1, <3>3, MarkIs, ReadyParts
      <3>5. Renewed(a, e, t)
        BY <1>2, <3>2, <3>4 DEF Renewed, SameButMarks, SameWay, SameSettings, OnTop
      <3> QED
        BY <1>2, <2>1, <2>4, <3>1, <3>2, <3>3, <3>5 DEF ToppedUp, e, b
    <2> QED
      BY <2>3, <2>4
  <1> QED
    BY <1>2, <1>6, <1>7, <1>8

(* On the last row that is shown, or on none when there is none.           *)
OnBottom(c, t) ==
    /\ c.steady = DOMAIN t /\ ~c.found
    /\ \/ FirstShown(c, t, "DESC")
       \/ NoneShown(c, t) /\ c.lost

LEMMA NoneIsShown ==
    ASSUME NEW t \in Tables, NEW a, a.steady = DOMAIN t, NoneLeft(a, t, "DESC"),
           NEW g, Follows(a, t, g),
           \A p \in ShownRows(a, t) : Comes(a.order, "DESC", g, RowOf(t, p))
    PROVE  NoneShown(a, t)
  <1>1. Known(a, t) = ShownRows(a, t)
    BY DEF Known, ShownRows
  <1> QED
    BY <1>1 DEF NoneLeft, NoneShown

LEMMA BottomReached ==
    ASSUME setDeleted \in BOOLEAN, NEW t \in Tables, NEW a \in Settled(t), FilterShown(a),
           "key" \notin a.changed => a.keyValue = NoKey
    PROVE  LET e == GoBottomOf(a, t)
           IN  /\ SameSettings(a, e) /\ OnBottom(e, t) /\ Positioned(e, t)
               /\ "key" \in e.changed => "key" \in a.changed /\ e.bof
  <1> DEFINE d == [ResetFlags(a) EXCEPT !.bottom = TRUE]
             q == QueryBottom(d, t)
             b == FetchNextRecord(q, t, "DESC")
             u == SkipFilterUp(b, t)
             e == GoBottomOf(a, t)
  <1>1. "DESC" \in {"ASC", "DESC"}
    OBVIOUS
  <1>2. a \in AreaType
    BY DEF Settled, Areas
  <1>3. d \in Settled(t) /\ SameSettings(a, d) /\ ~d.bof /\ d.bottom /\ SameRecord(a, d)
    BY <1>2, StartSettled, StartIs
  <1>4. e = IF b.bof THEN [b EXCEPT !.lost = TRUE] ELSE u
    BY DEF GoBottomOf
  <1> HIDE DEF d
  <1>5. FilterShown(d)
    BY <1>3, SameShown
  <1>6. PICK g : /\ OnWay(q, t, "DESC")
                 /\ q.steady = DOMAIN t
                 /\ ~IsQueryMore(q)
                 /\ SameSettings(d, q) /\ SameFlags(d, q) /\ SameRecord(d, q)
                 /\ GoesOn(q, t, g)
                 /\ \A p \in Asked(d, t) : Comes(d.order, "DESC", g, RowOf(t, p))
    BY <1>1, <1>3, <1>5, LimitReaches DEF GoesOn
  <1> HIDE DEF q, e
  <1>7. ~q.bof /\ q.bottom
    BY <1>3, <1>6 DEF SameFlags
  <1>8. Follows(q, t, g)
    BY <1>6 DEF Follows
  <1>9. /\ Renewed(q, b, t)
        /\ Stood(b, t, "DESC") \/ Ended(b, t, "DESC")
        /\ Ended(b, t, "DESC") => SameRecord(q, b)
        /\ Passed(b, t, "DESC", g, Known(q, t))
    BY <1>1, <1>6, <1>7, <1>8, FetchAndSkip
  <1>10. /\ Renewed(q, u, t)
         /\ StoppedUp(q, u, t) \/ StayedUp(q, u, t) \/ GoneUp(q, u, t) \/ ToppedUp(q, u, t)
    BY <1>6, <1>7, UpReached
  <1>11. u = b \/ setDeleted \/ b.block
    BY DEF SkipFilterUp
  <1> HIDE DEF b, u
  <1>12. \A p \in ShownRows(q, t) : Comes(q.order, "DESC", g, RowOf(t, p))
    <2>1. ShownRows(q, t) = ShownRows(d, t) /\ q.order = d.order
      BY <1>6, SameShown
    <2>2. ShownRows(d, t) \subseteq Asked(d, t)
      BY <1>5 DEF ShownRows, Asked, FilterShown
    <2> QED
      BY <1>6, <2>1, <2>2
  <1>13. \A x : Renewed(q, x, t) => /\ SameSettings(a, x) /\ x.steady = DOMAIN t
                                    /\ ShownRows(x, t) = ShownRows(q, t)
    <2>1. \A x : SameSettings(q, x) => ShownRows(x, t) = ShownRows(q, t)
      BY SameShown
    <2> QED
      BY <1>3, <1>6, <2>1 DEF Renewed, SameSettings
  <1>14. CASE b.bof
    <2>1. Ended(b, t, "DESC") /\ ~Stood(b, t, "DESC")
      BY <1>9, <1>14 DEF Stood
    <2>2. NoneShown(q, t)
      <3>1. Known(q, t) = ShownRows(q, t)
        BY <1>6 DEF Known, ShownRows
      <3> QED
        BY <1>9, <1>12, <1>13, <2>1, <3>1 DEF Passed, NoneShown, Renewed, SameSettings
    <2>3. b \in Ready(t) /\ b \in AreaType /\ ~b.found
      BY <2>1, ReadyParts DEF Ended, OnWay
    <2>4. b.keyValue = a.keyValue /\ b.changed = a.changed
      BY <1>3, <1>6, <1>9, <2>1 DEF SameRecord
    <2>5. Positioned(b, t)
      BY <1>1, <2>1, <2>4, EndedPositioned
    <2>6. e = [b EXCEPT !.lost = TRUE]
      BY <1>4, <1>14
    <2>7. SameButMarks(b, e) /\ e.lost /\ e.bof = b.bof /\ e.eof = b.eof /\ e.found = b.found
      BY <2>3, <2>6, MarkIs
    <2>8. ~Stands(e)
      BY <2>7 DEF Stands
    <2>9. Positioned(e, t)
      BY <2>5, <2>7, <2>8, MarkedPositioned DEF Positioned
    <2>10. SameSettings(b, e) /\ e.steady = b.steady
      BY <2>7 DEF SameButMarks, SameWay
    <2>11. SameSettings(a, e) /\ e.steady = DOMAIN t /\ NoneShown(e, t)
      <3>1. ShownRows(e, t) = ShownRows(b, t)
        BY <2>10, SameShown
      <3> QED
        BY <1>9, <1>13, <2>2, <2>10, <3>1 DEF SameSettings, NoneShown
    <2>12. OnBottom(e, t)
      BY <2>3, <2>7, <2>11 DEF OnBottom
    <2>13. "key" \in e.changed => "key" \in a.changed /\ e.bof
      BY <1>14, <2>4, <2>7 DEF SameButMarks
    <2> QED
      BY <2>9, <2>11, <2>12, <2>13 DEF e
  <1>15. CASE ~b.bof
    <2>1. e = u
      BY <1>4, <1>15
    <2>2. Stood(b, t, "DESC")
      BY <1>9, <1>15 DEF Ended
    <2>3. CASE StoppedUp(q, u, t)
      <3>1. Stood(u, t, "DESC") /\ ~IsHidden(u) /\ Passed(u, t, "DESC", g, Known(q, t))
        BY <1>8, <2>3 DEF StoppedUp
      <3>2. FirstShown(u, t, "DESC")
        <4>1. ~Ended(u, t, "DESC")
          BY <3>1 DEF Stood, Ended
        <4> QED
          BY <1>1, <1>6, <1>10, <1>12, <3>1, <4>1, FirstIsShown
      <3>3. Positioned(u, t)
        BY <1>1, <3>1, StoodPositioned
      <3>4. OnBottom(u, t) /\ "key" \notin u.changed
        BY <1>10, <1>13, <3>1, <3>2 DEF OnBottom, Stood
      <3> QED
        BY <1>10, <1>13, <2>1, <3>3, <3>4 DEF e
    <2>4. CASE GoneUp(q, u, t)
      <3>1. NoneShown(q, t)
        BY <1>6, <1>8, <1>12, <2>4, NoneIsShown DEF GoneUp
      <3>2. NoneShown(u, t) /\ u.lost /\ ~u.found /\ "key" \notin u.changed
        BY <1>10, <1>13, <2>4, <3>1 DEF NoneShown, GoneUp, OnNone
      <3>3. Positioned(u, t)
        BY <2>4, <3>2, NowherePositioned DEF GoneUp, Stands
      <3> QED
        BY <1>10, <1>13, <2>1, <3>2, <3>3 DEF e, OnBottom
    <2>5. ~ToppedUp(q, u, t)
      BY <1>7 DEF ToppedUp
    <2>6. ~StayedUp(q, u, t)
      <3>1. b.block = q.block
        BY <1>9 DEF Renewed, SameSettings
      <3> QED
        BY <1>11, <1>15, <3>1 DEF StayedUp, Ended
    <2> QED
      BY <1>10, <2>3, <2>4, <2>5, <2>6
  <1> QED
    BY <1>14, <1>15
-----------------------------------------------------------------------------
(* SKIP.                                                                   *)

(* The area that SKIP fetches from.                                        *)
SkipFrom(a, t, sort) ==
    LET b == [a EXCEPT !.bottom = FALSE]
        query == \/ b.unpositioned
                 \/ DiscardCommand(b, CurrentStatement(b), sort)
                 \/ KeyChanged(b)
                 \/ b.redo
    IN  IF query THEN FromRecno(b, t, sort) ELSE b

(* It stands on a row.                                                     *)
OnRow(a) == ~a.append /\ ~a.lost /\ ~a.eof /\ a.record.pk # Blank

(* Without an order the key of a place does not matter.                    *)
LEMMA KeyIgnored ==
    ASSUME NEW t, NEW a, Primed(a, t), a.current \in QueryCommand, CurrentStatement(a).order = 0,
           NEW g, NEW h, h.pk = g.pk
    PROVE  /\ Covers(a, t, g) => Covers(a, t, h)
           /\ Ahead(a, g) => Ahead(a, h)
  <1>1. ~(CurrentStatement(a).order > 0)
    OBVIOUS
  <1>2. ~MoreKeys(a)
    BY <1>1 DEF Primed, MoreKeys, More
  <1>3. \A x : Way(a, g, x) <=> Way(a, h, x)
    BY <1>1 DEF Way, Comes, Precedes
  <1> QED
    BY <1>2, <1>3 DEF Covers, Ahead

(* The key of the record is that of the place, or makes no difference.     *)
LEMMA StandIsAt ==
    ASSUME NEW t \in Tables, NEW sort \in {"ASC", "DESC"}, NEW a, OnWay(a, t, sort),
           Positioned(a, t), OnRow(a), a.bof => sort # "DESC", ~KeyChanged(a)
    PROVE  Follows(a, t, At(a))
  <1>1. /\ a \in AreaType /\ Primed(a, t) /\ ~a.unpositioned
        /\ a.current \in QueryCommand
        /\ CurrentStatement(a).sort = sort /\ CurrentStatement(a).order = a.order
    BY OnWayFits, ReadyParts DEF OnWay
  <1>2. Stands(a)
    BY <1>1 DEF Stands, OnRow
  <1>3. Covers(a, t, Stand(a)) /\ Ahead(a, Stand(a))
    BY <1>2 DEF Positioned
  <1>4. IsSpot(At(a)) /\ At(a).pk = a.record.pk /\ At(a).key = a.record.key /\ a.order \in Nat
    BY <1>1, AtTypes
  <1>5. Covers(a, t, At(a)) /\ Ahead(a, At(a))
    <2>1. CASE a.order > 0
      <3>1. Stand(a) = At(a)
        BY <2>1 DEF KeyChanged, Stand, At
      <3> QED
        BY <1>3, <3>1
    <2>2. CASE a.order = 0
      <3>1. Stand(a).pk = At(a).pk
        BY DEF Stand, At
      <3> QED
        BY <1>1, <1>3, <2>2, <3>1, KeyIgnored
    <2> QED
      BY <1>4, <2>1, <2>2
  <1> QED
    BY <1>4, <1>5 DEF Follows, GoesOn

(* A query from the bottom, which begins before all rows that are shown.   *)
FromBottom(d, t) ==
    /\ d.steady = DOMAIN t /\ ~d.bof /\ d.bottom
    /\ \E g : /\ Follows(d, t, g)
              /\ \A p \in ShownRows(d, t) : Comes(d.order, "DESC", g, RowOf(t, p))

LEMMA BottomAsked ==
    ASSUME setDeleted \in BOOLEAN, NEW t \in Tables, NEW a \in Settled(t), FilterShown(a)
    PROVE  LET q == QueryBottom([ResetFlags(a) EXCEPT !.bottom = TRUE], t)
           IN  OnWay(q, t, "DESC") /\ SameSettings(a, q) /\ SameRecord(a, q) /\ FromBottom(q, t)
  <1> DEFINE d == [ResetFlags(a) EXCEPT !.bottom = TRUE]
             q == QueryBottom(d, t)
  <1>1. "DESC" \in {"ASC", "DESC"} /\ a \in AreaType
    BY DEF Settled, Areas
  <1>2. d \in Settled(t) /\ SameSettings(a, d) /\ ~d.bof /\ d.bottom /\ SameRecord(a, d)
    BY <1>1, StartSettled, StartIs
  <1> HIDE DEF d
  <1>3. FilterShown(d)
    BY <1>2, SameShown
  <1>4. PICK g : /\ OnWay(q, t, "DESC")
                 /\ q.steady = DOMAIN t
                 /\ ~IsQueryMore(q)
                 /\ SameSettings(d, q) /\ SameFlags(d, q) /\ SameRecord(d, q)
                 /\ GoesOn(q, t, g)
                 /\ \A p \in Asked(d, t) : Comes(d.order, "DESC", g, RowOf(t, p))
    BY <1>1, <1>2, <1>3, LimitReaches DEF GoesOn
  <1> HIDE DEF q
  <1>5. ShownRows(q, t) = ShownRows(d, t) /\ q.order = d.order
    BY <1>4, SameShown
  <1>6. ShownRows(d, t) \subseteq Asked(d, t)
    BY <1>3 DEF ShownRows, Asked, FilterShown
  <1>7. FromBottom(q, t)
    BY <1>2, <1>4, <1>5, <1>6 DEF FromBottom, Follows, SameFlags
  <1>8. SameSettings(a, q) /\ SameRecord(a, q)
    BY <1>2, <1>4 DEF SameSettings, SameRecord
  <1> QED
    BY <1>4, <1>7, <1>8 DEF q, d

LEMMA SkipBegins ==
    ASSUME setDeleted \in BOOLEAN, NEW t \in Tables, NEW sort \in {"ASC", "DESC"},
           NEW a \in Ready(t), Positioned(a, t), sort = "ASC" => ~a.eof
    PROVE  LET d == SkipFrom(a, t, sort)
           IN  /\ OnWay(d, t, sort) /\ Renewed(a, d, t) /\ SameRecord(a, d)
               /\ \/ a.eof /\ sort = "DESC" /\ FromBottom(d, t)
                  \/ /\ d.bof = a.bof /\ d.eof = a.eof /\ ~d.bottom
                     /\ a.eof => a.lost
                     /\ OnRow(a) /\ (a.bof => sort # "DESC") => Follows(d, t, At(a))
  <1> DEFINE b == [a EXCEPT !.bottom = FALSE]
             query == \/ b.unpositioned
                      \/ DiscardCommand(b, CurrentStatement(b), sort)
                      \/ KeyChanged(b)
                      \/ b.redo
             d == SkipFrom(a, t, sort)
             bottom == QueryBottom([ResetFlags(b) EXCEPT !.bottom = TRUE], t)
             next == QueryNextRecord(b, t, sort)
  <1>1. a \in AreaType /\ ~a.append /\ WellMarked(a) /\ Primed(a, t) /\ FilterShown(a)
    BY ReadyParts DEF Positioned, WellMarked
  <1>2. /\ SameWay(a, b) /\ b.result = a.result /\ b.fetched = a.fetched
        /\ SameRecord(a, b) /\ b.bof = a.bof /\ b.eof = a.eof /\ ~b.bottom
    BY <1>1, BottomForgotten
  <1>3. b \in Ready(t)
    BY MarksReady
  <1>4. d = IF query THEN IF b.eof THEN bottom ELSE next ELSE b
    BY DEF SkipFrom, FromRecno
  <1> HIDE DEF b, d, bottom, next
  <1>5. b \in Settled(t) /\ FilterShown(b) /\ b \in AreaType /\ SameSettings(a, b) /\ b.steady = a.steady
    <2>1. SameSettings(a, b) /\ b.steady = a.steady
      BY <1>2 DEF SameWay
    <2> QED
      BY <1>1, <1>3, <2>1, ReadyParts, SameShown
  <1>6. ASSUME NEW x, SameSettings(b, x), x.steady = DOMAIN t, SameRecord(b, x)
        PROVE  Renewed(a, x, t) /\ SameRecord(a, x)
    BY <1>2, <1>5, <1>6 DEF Renewed, SameSettings, SameRecord
  <1>7. CASE query /\ b.eof
    <2>1. d = bottom /\ sort = "DESC" /\ a.eof
      BY <1>2, <1>4, <1>7
    <2>2. OnWay(d, t, "DESC") /\ SameSettings(b, d) /\ SameRecord(b, d) /\ FromBottom(d, t)
      BY <1>5, <2>1, BottomAsked DEF bottom
    <2>3. Renewed(a, d, t) /\ SameRecord(a, d)
      BY <1>6, <2>2 DEF FromBottom
    <2> QED
      BY <2>1, <2>2, <2>3 DEF d
  <1>8. CASE query /\ ~b.eof
    <2>1. d = next
      BY <1>4, <1>8
    <2>2. /\ OnWay(d, t, sort)
          /\ Covers(d, t, At(b)) /\ Ahead(d, At(b))
          /\ d.steady = DOMAIN t
          /\ SameSettings(b, d) /\ SameRecord(b, d) /\ SameFlags(b, d)
      BY <1>5, <2>1, NextRecordReaches DEF next
    <2>3. Renewed(a, d, t) /\ SameRecord(a, d)
      BY <1>6, <2>2
    <2>4. At(b) = At(a) /\ IsSpot(At(a)) /\ At(a).key = d.record.key
      BY <1>1, <1>2, <2>3, AtTypes DEF At, SameRecord
    <2>5. Follows(d, t, At(a))
      BY <2>2, <2>4 DEF Follows, GoesOn
    <2>6. d.bof = a.bof /\ d.eof = a.eof /\ ~d.bottom /\ ~a.eof
      BY <1>2, <1>8, <2>2 DEF SameFlags
    <2> QED
      BY <2>2, <2>3, <2>5, <2>6 DEF d
  <1>9. CASE ~query
    <2>1. d = b
      BY <1>4, <1>9
    <2>2. Primed(b, t) /\ CurrentStatement(b) = CurrentStatement(a) /\ SameQuery(a, b)
      <3>1. CurrentStatement(b) = CurrentStatement(a)
        BY <1>2 DEF SameWay, CurrentStatement
      <3>2. SameQuery(a, b)
        BY <1>2, <3>1 DEF SameQuery, SameWay
      <3> QED
        BY <1>1, <3>1, <3>2, SameCovers
    <2>3. OnWay(b, t, sort) /\ ~KeyChanged(b)
      BY <1>3, <1>5, <1>9, <2>2 DEF OnWay
    <2>4. a.eof => a.lost
      BY <1>1, <2>2, <2>3 DEF WellMarked, OnWay, DiscardCommand
    <2>5. ASSUME OnRow(a), a.bof => sort # "DESC"
          PROVE  Follows(b, t, At(a))
      <3>1. OnRow(b) /\ At(b) = At(a)
        BY <1>1, <1>2, <1>3, <2>5, ReadyParts DEF OnRow, SameRecord, At
      <3>2. Positioned(b, t)
        <4>1. Stands(b) => Stands(a)
          BY <1>1, <1>2, <2>2 DEF Stands, SameRecord, SameWay, SameSettings
        <4>2. Stand(b) = Stand(a)
          BY <1>2 DEF SameRecord, Stand
        <4>3. Stands(a) => Covers(b, t, Stand(a)) /\ Ahead(b, Stand(a))
          BY <2>2, SameCovers DEF Positioned
        <4>4. WellMarked(b)
          BY <1>1, <1>2, <1>3, <1>5, <2>2, ReadyParts DEF WellMarked, SameRecord
        <4> QED
          BY <2>2, <4>1, <4>2, <4>3, <4>4 DEF Positioned
      <3>3. Follows(b, t, At(b))
        BY <1>2, <2>3, <2>5, <3>1, <3>2, StandIsAt
      <3> QED
        BY <3>1, <3>3
    <2>6. Renewed(a, b, t)
      BY <1>5 DEF Renewed
    <2> QED
      BY <1>2, <2>1, <2>3, <2>4, <2>5, <2>6 DEF d
  <1> QED
    BY <1>7, <1>8, <1>9

LEMMA MarkKept ==
    ASSUME NEW a \in AreaType
    PROVE  /\ ~a.bof => [a EXCEPT !.bof = FALSE] = a
           /\ ~a.eof => [a EXCEPT !.eof = FALSE] = a
  BY DEF AreaType

LEMMA SkipHiddenStays ==
    ASSUME NEW a, a.bof \/ a.eof, NEW t, NEW sort
    PROVE  SkipHidden(a, t, sort) = a
  <1>1. \A b \in {a} : PassHidden(b, t, sort) \in {a}
    BY DEF PassHidden
  <1>2. SkipHidden(a, t, sort) \in {a}
    BY <1>1, SkippingKeeps
  <1> QED
    BY <1>2

(* A query later, the rows that a movement must not pass over include      *)
(* those it must not pass over now.                                        *)
LEMMA KnownRenewed ==
    ASSUME NEW t \in Tables, NEW a, a.steady \subseteq DOMAIN t, NEW b, Renewed(a, b, t)
    PROVE  /\ Known(a, t) \subseteq Known(b, t)
           /\ b.order = a.order /\ ShownRows(b, t) = ShownRows(a, t)
  <1>1. SameSettings(a, b)
    BY DEF Renewed
  <1> QED
    BY <1>1, SameShown DEF Renewed, Known

LEMMA SkipsDown ==
    ASSUME setDeleted \in BOOLEAN, NEW t \in Tables, NEW a \in Ready(t), Positioned(a, t)
    PROVE  LET e == SkipOf(a, t, "ASC")
           IN  /\ Renewed(a, e, t) /\ Positioned(e, t) /\ ~e.bof /\ "key" \notin e.changed
               /\ a.eof => e.eof /\ e.lost = a.lost
               /\ OnRow(a) => /\ Passed(e, t, "ASC", At(a), Known(a, t))
                              /\ Stood(e, t, "ASC") => ~IsHidden(e)
  <1> DEFINE b == [a EXCEPT !.bottom = FALSE]
             d == SkipFrom(a, t, "ASC")
             x == SkipRaw(a, t, "ASC")
             c == SkipFilterDown(x, t)
             e == SkipOf(a, t, "ASC")
  <1>1. "ASC" \in {"ASC", "DESC"} /\ "ASC" # "DESC"
    OBVIOUS
  <1>2. a \in AreaType /\ ~a.append /\ a.steady \subseteq DOMAIN t /\ WellMarked(a) /\ Primed(a, t)
    BY ReadyParts DEF Positioned, OfTable
  <1>3. x = IF b.eof THEN b ELSE FetchNextRecord(d, t, "ASC")
    BY <1>1 DEF SkipRaw, SkipFrom
  <1>4. e = [c EXCEPT !.bof = FALSE]
    BY <1>1 DEF SkipOf, SkipFilter
  <1>5. /\ SameWay(a, b) /\ b.result = a.result /\ b.fetched = a.fetched
        /\ SameRecord(a, b) /\ b.bof = a.bof /\ b.eof = a.eof
    BY <1>2, BottomForgotten
  <1>6. b \in Ready(t)
    BY MarksReady
  <1>7. c = IF setDeleted \/ x.block THEN SkipHidden(x, t, "ASC") ELSE x
    BY DEF SkipFilterDown
  <1> HIDE DEF b, d, x, c, e
  <1>8. CASE a.eof
    <2>1. c = b
      <3>1. x = b
        BY <1>3, <1>5, <1>8
      <3>2. SkipHidden(b, t, "ASC") = b
        BY <1>5, <1>8, SkipHiddenStays
      <3> QED
        BY <1>7, <3>1, <3>2
    <2>2. /\ SameButMarks(b, e) /\ e.lost = b.lost /\ e.eof = b.eof /\ ~e.bof
      <3>1. e = [b EXCEPT !.bof = FALSE] /\ b \in AreaType
        BY <1>4, <1>6, <2>1, ReadyParts
      <3> QED
        BY <3>1, MarkIs
    <2>3. ~b.append /\ e.append = b.append
      BY <1>6, <2>2, ReadyParts DEF SameButMarks
    <2>4. SameSettings(a, b) /\ SameSettings(b, e) /\ e.steady = a.steady
      BY <1>5, <2>2 DEF SameButMarks, SameWay
    <2>5. e.eof /\ e.lost = a.lost /\ e.changed = a.changed /\ e.keyValue = a.keyValue
      BY <1>5, <1>8, <2>2 DEF SameRecord, SameButMarks
    <2>6. CurrentStatement(e) = CurrentStatement(a) /\ SameQuery(a, e)
      <3>1. CurrentStatement(e) = CurrentStatement(a)
        BY <1>5, <2>2 DEF SameButMarks, SameWay, CurrentStatement
      <3> QED
        BY <1>5, <2>2, <3>1 DEF SameQuery, SameButMarks, SameWay
    <2>7. Primed(e, t)
      BY <1>2, <2>6, SameCovers
    <2>8. Renewed(a, e, t)
      BY <2>4 DEF Renewed, SameSettings
    <2>9. FilterShown(e)
      BY <1>2, <2>8, SameShown DEF WellMarked, Renewed
    <2>10. WellMarked(e)
      BY <1>2, <1>8, <2>3, <2>5, <2>6, <2>9 DEF WellMarked
    <2>11. Positioned(e, t)
      BY <2>5, <2>7, <2>10, NowherePositioned DEF Stands
    <2>12. "key" \notin e.changed
      BY <1>2, <1>8, <2>5 DEF WellMarked
    <2> QED
      BY <1>8, <2>2, <2>5, <2>8, <2>11, <2>12 DEF e, OnRow
  <1>9. CASE ~a.eof
    <2>1. x = FetchNextRecord(d, t, "ASC")
      BY <1>3, <1>5, <1>9
    <2>2. /\ OnWay(d, t, "ASC") /\ Renewed(a, d, t) /\ d.eof = a.eof
          /\ OnRow(a) => Follows(d, t, At(a))
      BY <1>1, <1>9, SkipBegins DEF d
    <2>3. /\ Renewed(d, c, t)
          /\ Stood(c, t, "ASC") \/ Ended(c, t, "ASC")
          /\ Stood(c, t, "ASC") => ~IsHidden(c)
          /\ \A g : Follows(d, t, g) => Passed(c, t, "ASC", g, Known(d, t))
      BY <1>9, <2>1, <2>2, MovesDown DEF c
    <2>4. c \in AreaType /\ ~c.bof /\ "key" \notin c.changed
      BY <1>1, <2>3, ReadyParts DEF Stood, Ended, OnWay
    <2>5. e = c
      BY <1>4, <2>4, MarkKept
    <2>6. Renewed(a, c, t)
      BY <2>2, <2>3, RenewalsJoin DEF RenewedTwice
    <2>7. Positioned(c, t)
      <3>1. CASE Stood(c, t, "ASC")
        BY <1>1, <3>1, StoodPositioned
      <3>2. CASE Ended(c, t, "ASC")
        BY <1>1, <3>2, FirstPositioned
      <3> QED
        BY <2>3, <3>1, <3>2
    <2>8. OnRow(a) => Passed(c, t, "ASC", At(a), Known(a, t))
      <3>1. Known(a, t) \subseteq Known(d, t)
        BY <1>2, <2>2, KnownRenewed
      <3> QED
        BY <2>2, <2>3, <3>1 DEF Passed
    <2> QED
      BY <1>9, <2>3, <2>4, <2>5, <2>6, <2>7, <2>8 DEF e
  <1> QED
    BY <1>8, <1>9

(* On no place in the order.                                               *)
Placeless(a) == a.append \/ a.lost \/ (a.record.pk = Blank /\ ~a.eof)

(* On the first of the rows that are shown now, whatever its flags.        *)
OnFirst(e, t, sort) ==
    /\ OnRow(e)
    /\ e.record.pk \in ShownRows(e, t) /\ e.record.key = t[e.record.pk].key
    /\ \A p \in ShownRows(e, t) : ~Comes(e.order, sort, RowOf(t, p), At(e))

LEMMA FirstIsOnFirst ==
    ASSUME NEW t \in Tables, NEW sort, NEW c, FirstShown(c, t, sort)
    PROVE  OnFirst(c, t, sort)
  <1>1. c \in Ready(t) /\ ~c.lost /\ ~c.eof /\ c.record.pk \in DOMAIN t
    BY DEF FirstShown, Stood, OnWay
  <1>2. c.record.pk # Blank
    BY <1>1, RowTypes
  <1> QED
    BY <1>1, <1>2, ReadyParts DEF FirstShown, OnFirst, OnRow

(* The first row, to which a movement back before it leads.                *)
LEMMA TopMarked ==
    ASSUME NEW t \in Tables, NEW h \in Ready(t), OnTop(h, t)
    PROVE  LET u == [h EXCEPT !.bof = TRUE]
               e == [u EXCEPT !.eof = FALSE]
           IN  /\ SameSettings(h, e) /\ e.steady = DOMAIN t /\ Positioned(e, t)
               /\ "key" \notin e.changed /\ e.bof
               /\ OnFirst(e, t, "ASC") \/ (NoneShown(e, t) /\ Placeless(e))
  <1> DEFINE u == [h EXCEPT !.bof = TRUE]
             e == [u EXCEPT !.eof = FALSE]
  <1>1. "ASC" \in {"ASC", "DESC"} /\ "ASC" # "DESC" /\ h \in AreaType /\ ~h.append
    BY ReadyParts
  <1>2. SameButMarks(h, u) /\ u.lost = h.lost /\ u.eof = h.eof /\ u.bof
    BY <1>1, MarkIs
  <1>3. u \in AreaType
    BY MarksReady, ReadyParts
  <1> HIDE DEF u
  <1>4. SameButMarks(u, e) /\ e.lost = u.lost /\ e.bof = u.bof /\ ~e.eof
    BY <1>3, MarkIs
  <1> HIDE DEF e
  <1>5. SameButMarks(h, e) /\ e.lost = h.lost /\ e.bof /\ ~e.eof
    BY <1>2, <1>4 DEF SameButMarks, SameWay, SameSettings
  <1>6. SameSettings(h, e) /\ e.steady = DOMAIN t
    BY <1>5 DEF SameButMarks, SameWay, OnTop
  <1>7. ShownRows(e, t) = ShownRows(h, t) /\ e.order = h.order
    BY <1>6, SameShown
  <1>8. OnWay(h, t, "ASC") /\ "key" \notin h.changed /\ ~h.lost
    BY <1>1 DEF OnTop, FirstShown, Stood, Ended
  <1>9. Positioned(h, t)
    BY <1>1, FirstPositioned DEF OnTop
  <1>10. CASE FirstShown(h, t, "ASC")
    <2>1. Stands(e) => Stands(h)
      <3>1. ~h.bof /\ ~h.eof
        BY <1>10 DEF FirstShown, Stood
      <3>2. CurrentStatement(e) = CurrentStatement(h)
        BY <1>5 DEF SameButMarks, SameWay, CurrentStatement
      <3> QED
        BY <1>5, <1>8, <3>1, <3>2 DEF Stands, SameButMarks, SameWay
    <2>2. Positioned(e, t)
      BY <1>5, <1>9, <2>1, MarkedPositioned DEF Positioned
    <2>3. OnFirst(h, t, "ASC")
      BY <1>10, FirstIsOnFirst
    <2>4. OnFirst(e, t, "ASC")
      <3>1. OnRow(e) /\ At(e) = At(h)
        BY <1>5, <2>3 DEF OnRow, OnFirst, At, SameButMarks
      <3> QED
        BY <1>5, <1>7, <2>3, <3>1 DEF OnFirst, SameButMarks
    <2> QED
      BY <1>5, <1>6, <1>8, <2>2, <2>4 DEF SameButMarks, e, u
  <1>11. CASE Ended(h, t, "ASC") /\ NoneShown(h, t)
    <2>1. h.record = BlankRecord
      BY <1>1, <1>11 DEF Ended
    <2>2. e.record = BlankRecord
      BY <1>5, <2>1 DEF SameButMarks
    <2>3. e.record.pk = Blank
      BY <2>2 DEF BlankRecord
    <2>4. ~Stands(e) /\ Placeless(e) /\ NoneShown(e, t)
      BY <1>5, <1>7, <1>11, <2>3 DEF Stands, Placeless, NoneShown
    <2>5. Positioned(e, t)
      BY <1>5, <1>9, <2>4, MarkedPositioned DEF Positioned
    <2> QED
      BY <1>5, <1>6, <1>8, <2>4, <2>5 DEF SameButMarks, e, u
  <1> QED
    BY <1>10, <1>11 DEF OnTop

(* No row is left before the place.                                        *)
Barred(a, t) == \A p \in Known(a, t) : ~Comes(a.order, "DESC", At(a), RowOf(t, p))

(* What a movement back from a row comes to.                               *)
StepsUp(a, e, t) ==
    \/ /\ e.bof
       /\ a.bof \/ Barred(a, t)
       /\ \/ OnRow(e) /\ At(e) = At(a)
          \/ OnFirst(e, t, "ASC")
          \/ NoneShown(e, t) /\ Placeless(e)
    \/ /\ Stood(e, t, "DESC") /\ ~IsHidden(e)
       /\ Passed(e, t, "DESC", At(a), Known(a, t))

(* From after the last row.                                                *)
FromEnd(e, t) ==
    /\ e.steady = DOMAIN t
    /\ OnFirst(e, t, "DESC") \/ (NoneShown(e, t) /\ Placeless(e))

(* A movement back that does not begin, at the first row.                  *)
LEMMA StaysAtTop ==
    ASSUME setDeleted \in BOOLEAN, NEW t \in Tables, NEW a \in Ready(t), Positioned(a, t),
           NEW d, OnWay(d, t, "DESC"), Renewed(a, d, t), SameRecord(a, d),
           a.bof, d.bof, ~d.bottom
    PROVE  LET x == [d EXCEPT !.found = FALSE]
               e == [SkipFilterUp(x, t) EXCEPT !.eof = FALSE]
           IN  /\ Renewed(a, e, t) /\ Positioned(e, t)
               /\ "key" \in e.changed => "key" \in a.changed /\ e.bof
               /\ OnRow(a) => StepsUp(a, e, t)
  <1> DEFINE x == [d EXCEPT !.found = FALSE]
             u == SkipFilterUp(x, t)
             e == [u EXCEPT !.eof = FALSE]
  <1>1. /\ d \in Ready(t) /\ d \in AreaType /\ Primed(d, t) /\ FilterShown(d) /\ ~d.append
        /\ CurrentStatement(d).sort = "DESC" /\ ~a.append
    BY ReadyParts DEF OnWay, DiscardCommand
  <1>2. /\ SameButMarks(d, x) /\ x.lost = d.lost /\ x.bof = d.bof /\ x.eof = d.eof
        /\ x.bottom = d.bottom
    BY <1>1, MarkIs
  <1>3. x \in Ready(t)
    BY <1>1, MarksReady
  <1>4. u = LET b == SkipHidden(x, t, "DESC")
            IN  IF ~(setDeleted \/ x.block) THEN x
                ELSE IF ~b.bof THEN b
                ELSE IF x.bottom THEN GoToNone(b)
                ELSE [GoTopOf(b, t) EXCEPT !.bof = TRUE]
    BY DEF SkipFilterUp
  <1> HIDE DEF x
  <1>5. SkipHidden(x, t, "DESC") = x
    BY <1>2, SkipHiddenStays
  <1>6. u = IF setDeleted \/ x.block THEN [GoTopOf(x, t) EXCEPT !.bof = TRUE] ELSE x
    BY <1>2, <1>4, <1>5
  <1>7. Renewed(a, x, t) /\ FilterShown(x) /\ CurrentStatement(x) = CurrentStatement(d)
    <2>1. SameSettings(d, x) /\ x.steady = d.steady /\ CurrentStatement(x) = CurrentStatement(d)
      BY <1>2 DEF SameButMarks, SameWay, CurrentStatement
    <2>2. FilterShown(x)
      BY <1>1, <2>1, SameShown
    <2> QED
      BY <2>1, <2>2 DEF Renewed, SameSettings
  <1>8. Primed(x, t)
    <2>1. SameQuery(d, x)
      BY <1>2, <1>7 DEF SameQuery, SameButMarks, SameWay
    <2> QED
      BY <1>1, <2>1, SameCovers
  <1>9. CASE ~(setDeleted \/ x.block)
    <2> HIDE DEF u, e
    <2>1. u = x
      BY <1>6, <1>9
    <2>2. /\ SameButMarks(x, e) /\ e.lost = x.lost /\ e.bof = x.bof /\ ~e.eof
      <3>1. e = [x EXCEPT !.eof = FALSE] /\ x \in AreaType
        BY <1>3, <2>1, ReadyParts DEF e
      <3> QED
        BY <3>1, MarkIs
    <2>3. /\ e.record = a.record /\ e.keyValue = a.keyValue /\ e.changed = a.changed
          /\ e.lost = a.lost /\ e.bof /\ ~e.eof /\ ~e.append
      BY <1>1, <1>2, <2>2 DEF SameButMarks, SameRecord
    <2>4. SameQuery(x, e) /\ SameSettings(x, e) /\ CurrentStatement(e) = CurrentStatement(x)
      <3>1. CurrentStatement(e) = CurrentStatement(x)
        BY <2>2 DEF SameButMarks, SameWay, CurrentStatement
      <3> QED
        BY <2>2, <3>1 DEF SameQuery, SameButMarks, SameWay
    <2>5. Primed(e, t) /\ FilterShown(e)
      BY <1>7, <1>8, <2>4, SameCovers, SameShown
    <2>6. WellMarked(e)
      BY <2>3, <2>5 DEF WellMarked, Positioned
    <2>7. ~Stands(e)
      BY <1>1, <1>7, <2>3, <2>4 DEF Stands
    <2>8. Positioned(e, t)
      BY <2>5, <2>6, <2>7, NowherePositioned
    <2>9. Renewed(a, e, t)
      BY <1>7, <2>2, <2>4 DEF Renewed, SameSettings, SameButMarks, SameWay
    <2>10. OnRow(a) => OnRow(e) /\ At(e) = At(a)
      BY <2>3 DEF OnRow, At
    <2> QED
      BY <2>3, <2>8, <2>9, <2>10 DEF StepsUp, e, u, x
  <1>10. CASE setDeleted \/ x.block
    <2> DEFINE h == GoTopOf(x, t)
    <2>1. x \in Settled(t)
      BY <1>3, ReadyParts
    <2>2. h \in Ready(t) /\ SameSettings(x, h) /\ OnTop(h, t)
      BY <1>7, <2>1, GoTopReady, TopReached DEF OnTop
    <2>3. u = [h EXCEPT !.bof = TRUE]
      BY <1>6, <1>10
    <2> HIDE DEF h, u, e
    <2>4. /\ SameSettings(h, e) /\ e.steady = DOMAIN t /\ Positioned(e, t)
          /\ "key" \notin e.changed /\ e.bof
          /\ OnFirst(e, t, "ASC") \/ (NoneShown(e, t) /\ Placeless(e))
      BY <2>2, <2>3, TopMarked DEF e
    <2>5. Renewed(a, e, t)
      BY <1>7, <2>2, <2>4 DEF Renewed, SameSettings
    <2> QED
      BY <2>4, <2>5 DEF StepsUp, e, u, x
  <1> QED
    BY <1>9, <1>10

(* A movement back that begins.                                            *)
LEMMA GoesUp ==
    ASSUME setDeleted \in BOOLEAN, NEW t \in Tables, NEW a \in Ready(t), Positioned(a, t),
           NEW d, OnWay(d, t, "DESC"), Renewed(a, d, t), SameRecord(a, d), ~d.bof,
           \/ a.eof /\ FromBottom(d, t)
           \/ ~d.bottom /\ (a.eof => a.lost) /\ (OnRow(a) => Follows(d, t, At(a)))
    PROVE  LET e == [SkipFilterUp(FetchNextRecord(d, t, "DESC"), t) EXCEPT !.eof = FALSE]
           IN  /\ Renewed(a, e, t) /\ Positioned(e, t)
               /\ "key" \in e.changed => "key" \in a.changed /\ e.bof
               /\ OnRow(a) => StepsUp(a, e, t)
               /\ a.eof /\ ~a.lost => FromEnd(e, t)
  <1> DEFINE u == SkipFilterUp(FetchNextRecord(d, t, "DESC"), t)
             e == [u EXCEPT !.eof = FALSE]
  <1>1. "DESC" \in {"ASC", "DESC"}
    OBVIOUS
  <1>2. /\ a \in AreaType /\ ~a.append /\ a.steady \subseteq DOMAIN t /\ WellMarked(a)
        /\ a.eof => a.record = BlankRecord
    BY ReadyParts DEF Positioned, OfTable
  <1>3. /\ Renewed(d, u, t)
        /\ StoppedUp(d, u, t) \/ StayedUp(d, u, t) \/ GoneUp(d, u, t) \/ ToppedUp(d, u, t)
    BY UpReached
  <1> HIDE DEF u, e
  <1>4. Renewed(a, u, t)
    BY <1>3, RenewalsJoin DEF RenewedTwice
  <1>5. /\ Known(a, t) \subseteq Known(d, t) /\ d.order = a.order /\ ShownRows(d, t) = ShownRows(a, t)
        /\ u.order = a.order /\ ShownRows(u, t) = ShownRows(a, t)
    BY <1>2, <1>4, KnownRenewed
  <1>6. OnRow(a) /\ NoneLeft(d, t, "DESC") => Barred(a, t)
    <2>1. OnRow(a) => ~a.eof
      BY DEF OnRow
    <2> QED
      BY <1>5, <2>1 DEF NoneLeft, Barred
  <1>7. a.eof /\ ~a.lost => FromBottom(d, t)
    OBVIOUS
  <1>8. FromBottom(d, t) /\ NoneLeft(d, t, "DESC") => NoneShown(u, t)
    <2>1. FromBottom(d, t) /\ NoneLeft(d, t, "DESC") => NoneShown(d, t)
      BY NoneIsShown DEF FromBottom
    <2> QED
      BY <1>5, <2>1 DEF NoneShown
  <1>9. FromBottom(d, t) /\ Renewed(d, u, t) => u.steady = DOMAIN t
    BY DEF FromBottom, Renewed
  <1>10. CASE StoppedUp(d, u, t)
    <2>1. Stood(u, t, "DESC") /\ ~IsHidden(u) /\ u \in AreaType /\ ~u.eof /\ "key" \notin u.changed
      BY <1>10, ReadyParts DEF StoppedUp, Stood, OnWay
    <2>2. e = u
      BY <2>1, MarkKept DEF e
    <2>3. Positioned(u, t)
      BY <1>1, <2>1, StoodPositioned
    <2>4. OnRow(a) => StepsUp(a, u, t)
      <3>1. ASSUME OnRow(a)
            PROVE  Passed(u, t, "DESC", At(a), Known(a, t))
        <4>1. Passed(u, t, "DESC", At(a), Known(d, t))
          BY <1>10, <3>1 DEF StoppedUp, OnRow
        <4> QED
          BY <1>5, <4>1 DEF Passed
      <3> QED
        BY <2>1, <3>1 DEF StepsUp
    <2>5. a.eof /\ ~a.lost => FromEnd(u, t)
      <3>1. SUFFICES ASSUME FromBottom(d, t)
                     PROVE  FromEnd(u, t)
        BY <1>7
      <3>2. PICK g : /\ Follows(d, t, g)
                     /\ \A p \in ShownRows(d, t) : Comes(d.order, "DESC", g, RowOf(t, p))
        BY <3>1 DEF FromBottom
      <3>3. d.steady = DOMAIN t /\ Passed(u, t, "DESC", g, Known(d, t)) /\ ~Ended(u, t, "DESC")
        BY <1>10, <2>1, <3>1, <3>2 DEF StoppedUp, FromBottom, Stood, Ended
      <3>4. FirstShown(u, t, "DESC") /\ u.steady = DOMAIN t
        BY <1>1, <1>3, <2>1, <3>2, <3>3, FirstIsShown
      <3> QED
        BY <3>4, FirstIsOnFirst DEF FromEnd
    <2> QED
      BY <1>4, <2>1, <2>2, <2>3, <2>4, <2>5 DEF e, u
  <1>11. CASE StayedUp(d, u, t)
    <2>1. /\ Ended(u, t, "DESC") /\ SameRecord(a, u) /\ NoneLeft(d, t, "DESC")
          /\ u.bof /\ ~u.eof /\ u \in AreaType /\ ~u.append
      BY <1>11, ReadyParts DEF StayedUp, Ended, SameRecord, OnWay
    <2>2. e = u
      BY <2>1, MarkKept DEF e
    <2>3. Positioned(u, t)
      BY <1>1, <1>2, <2>1, EndedPositioned DEF SameRecord, WellMarked
    <2>4. "key" \in u.changed => "key" \in a.changed
      BY <2>1 DEF SameRecord
    <2>5. OnRow(a) => StepsUp(a, u, t)
      <3>1. OnRow(a) => OnRow(u) /\ At(u) = At(a)
        BY <2>1 DEF SameRecord, OnRow, At
      <3> QED
        BY <1>6, <2>1, <3>1 DEF StepsUp
    <2>6. a.eof /\ ~a.lost => FromEnd(u, t)
      <3>1. a.eof => u.record = BlankRecord
        BY <1>2, <2>1 DEF SameRecord
      <3>2. a.eof => Placeless(u)
        BY <2>1, <3>1 DEF BlankRecord, Placeless
      <3> QED
        BY <1>3, <1>7, <1>8, <1>9, <2>1, <3>2 DEF FromEnd
    <2> QED
      BY <1>4, <2>1, <2>2, <2>3, <2>4, <2>5, <2>6 DEF e, u
  <1>12. CASE GoneUp(d, u, t)
    <2>1. u.lost /\ u.changed = {} /\ a.eof /\ NoneLeft(d, t, "DESC") /\ FromBottom(d, t)
      BY <1>12 DEF GoneUp, OnNone
    <2>2. WellMarked(u) /\ Primed(u, t)
      BY <1>12 DEF GoneUp
    <2>3. u \in AreaType
      <3>1. FetchNextRecord(d, t, "DESC") \in Ready(t)
        BY <1>1, FetchReady DEF OnWay
      <3>2. u \in Ready(t)
        BY <1>1, <3>1, SkipFilterReady DEF u
      <3> QED
        BY <3>2, ReadyParts
    <2>4. SameButMarks(u, e) /\ e.lost /\ ~e.eof
      <3>1. e = [u EXCEPT !.eof = FALSE]
        BY DEF e
      <3>2. SameButMarks(u, e) /\ e.lost = u.lost /\ ~e.eof
        BY <2>3, <3>1, MarkIs
      <3> QED
        BY <2>1, <3>2
    <2>5. Positioned(e, t)
      BY <2>2, <2>4, MarkedPositioned DEF Stands
    <2>6. e.steady = u.steady /\ SameSettings(u, e) /\ e.changed = {}
      BY <2>1, <2>4 DEF SameButMarks, SameWay
    <2>7. Renewed(a, e, t)
      BY <1>4, <2>6 DEF Renewed, SameSettings
    <2>8. FromEnd(e, t)
      <3>1. ShownRows(e, t) = ShownRows(u, t)
        BY <2>6, SameShown
      <3> QED
        BY <1>3, <1>8, <1>9, <2>1, <2>4, <2>6, <3>1 DEF FromEnd, Placeless, NoneShown
    <2> QED
      BY <2>1, <2>5, <2>6, <2>7, <2>8 DEF e, u, OnRow
  <1>13. CASE ToppedUp(d, u, t)
    <2>1. PICK h \in Ready(t) : OnTop(h, t) /\ u = [h EXCEPT !.bof = TRUE]
      BY <1>13 DEF ToppedUp
    <2>2. ~d.bottom /\ NoneLeft(d, t, "DESC")
      BY <1>13 DEF ToppedUp
    <2>3. /\ SameSettings(h, e) /\ e.steady = DOMAIN t /\ Positioned(e, t)
          /\ "key" \notin e.changed /\ e.bof
          /\ OnFirst(e, t, "ASC") \/ (NoneShown(e, t) /\ Placeless(e))
      BY <2>1, TopMarked DEF e
    <2>4. SameSettings(h, u)
      BY <2>1, MarkIs, ReadyParts DEF SameButMarks, SameWay
    <2>5. Renewed(a, e, t)
      BY <1>4, <2>3, <2>4 DEF Renewed, SameSettings
    <2>6. OnRow(a) => StepsUp(a, e, t)
      BY <1>6, <2>2, <2>3 DEF StepsUp
    <2>7. ~(a.eof /\ ~a.lost)
      BY <1>7, <2>2 DEF FromBottom
    <2> QED
      BY <2>3, <2>5, <2>6, <2>7 DEF e, u
  <1> QED
    BY <1>3, <1>10, <1>11, <1>12, <1>13

LEMMA SkipsUp ==
    ASSUME setDeleted \in BOOLEAN, NEW t \in Tables, NEW a \in Ready(t), Positioned(a, t)
    PROVE  LET e == SkipOf(a, t, "DESC")
           IN  /\ Renewed(a, e, t) /\ Positioned(e, t)
               /\ "key" \in e.changed => "key" \in a.changed /\ e.bof
               /\ OnRow(a) => StepsUp(a, e, t)
               /\ a.eof /\ ~a.lost => FromEnd(e, t)
  <1> DEFINE d == SkipFrom(a, t, "DESC")
             e == SkipOf(a, t, "DESC")
  <1>1. "DESC" \in {"ASC", "DESC"} /\ "DESC" # "ASC"
    OBVIOUS
  <1>2. e = [SkipFilterUp(FetchNextRecord(d, t, "DESC"), t) EXCEPT !.eof = FALSE]
    BY <1>1 DEF SkipOf, SkipFilter, SkipRaw, SkipFrom
  <1>3. /\ OnWay(d, t, "DESC") /\ Renewed(a, d, t) /\ SameRecord(a, d)
        /\ \/ a.eof /\ FromBottom(d, t)
           \/ /\ d.bof = a.bof /\ d.eof = a.eof /\ ~d.bottom
              /\ a.eof => a.lost
              /\ OnRow(a) /\ ~a.bof => Follows(d, t, At(a))
    BY <1>1, SkipBegins
  <1> HIDE DEF d
  <1>4. CASE d.bof
    <2>1. FetchNextRecord(d, t, "DESC") = [d EXCEPT !.found = FALSE]
      BY <1>4 DEF FetchNextRecord
    <2>2. a.bof /\ ~d.bottom /\ (a.eof => a.lost)
      BY <1>3, <1>4 DEF FromBottom
    <2> DEFINE f == [SkipFilterUp([d EXCEPT !.found = FALSE], t) EXCEPT !.eof = FALSE]
    <2>3. /\ Renewed(a, f, t) /\ Positioned(f, t)
          /\ "key" \in f.changed => "key" \in a.changed /\ f.bof
          /\ OnRow(a) => StepsUp(a, f, t)
      BY <1>3, <1>4, <2>2, StaysAtTop
    <2>4. e = f
      BY <1>2, <2>1
    <2> HIDE DEF f
    <2> QED
      BY <2>2, <2>3, <2>4
  <1>5. CASE ~d.bof
    <2>1. \/ a.eof /\ FromBottom(d, t)
          \/ ~d.bottom /\ (a.eof => a.lost) /\ (OnRow(a) => Follows(d, t, At(a)))
      BY <1>3, <1>5
    <2> DEFINE f == [SkipFilterUp(FetchNextRecord(d, t, "DESC"), t) EXCEPT !.eof = FALSE]
    <2>2. /\ Renewed(a, f, t) /\ Positioned(f, t)
          /\ "key" \in f.changed => "key" \in a.changed /\ f.bof
          /\ OnRow(a) => StepsUp(a, f, t)
          /\ a.eof /\ ~a.lost => FromEnd(f, t)
      BY <1>3, <1>5, <2>1, GoesUp
    <2>3. e = f
      BY <1>2
    <2> HIDE DEF f
    <2> QED
      BY <2>2, <2>3
  <1> QED
    BY <1>4, <1>5
-----------------------------------------------------------------------------
(* SEEK.                                                                   *)

Sought(a, t, k, soft) ==
    {p \in ShownRows(a, t) : t[p].key = k \/ (soft /\ t[p].key > k)}

(* It ends on the first of the rows it seeks, or on none.                  *)
SeekEnds(e, t, sort, k, soft) ==
    \/ /\ e.found /\ OnRow(e)
       /\ e.record.pk \in Sought(e, t, k, soft) /\ e.record.key = t[e.record.pk].key
       /\ \A p \in Sought(e, t, k, soft) : ~Comes(e.order, sort, RowOf(t, p), At(e))
    \/ ~e.found /\ ~OnRow(e) /\ Sought(e, t, k, soft) = {}

SameSought(a, e, t, k, soft) == Sought(e, t, k, soft) = Sought(a, t, k, soft)

LEMMA SettingsSeek ==
    ASSUME NEW a, NEW e, NEW t, SameSettings(a, e), NEW k, NEW soft
    PROVE  SameSought(a, e, t, k, soft) /\ e.order = a.order
  BY SameShown DEF Sought, SameSought

(* The rows it seeks are after the place it begins at, and before the      *)
(* other rows there.                                                       *)
LEMMA SoughtFirst ==
    ASSUME NEW t \in Tables, NEW sort \in {"ASC", "DESC"}, NEW a, a.order \in Int, a.order > 0,
           NEW k \in Int, NEW soft \in BOOLEAN, sort = "DESC" => ~soft
    PROVE  /\ IsSpot(Start(sort, k))
           /\ \A p \in Sought(a, t, k, soft) :
                 /\ p \in ShownRows(a, t)
                 /\ Comes(a.order, sort, Start(sort, k), RowOf(t, p))
           /\ \A p \in ShownRows(a, t) : Comes(a.order, sort, Start(sort, k), RowOf(t, p)) =>
                 \/ p \in Sought(a, t, k, soft)
                 \/ ~soft /\ \A q \in Sought(a, t, k, soft) : Comes(a.order, sort, RowOf(t, q), RowOf(t, p))
  <1>1. Sought(a, t, k, soft) \subseteq ShownRows(a, t) /\ ShownRows(a, t) \subseteq DOMAIN t
    BY DEF Sought, ShownRows
  <1>2. IsSpot(Start(sort, k))
    BY WorkAreaAssumption DEF Start, IsSpot, Blank, WorkAreaAssumption
  <1>3. ASSUME NEW p \in DOMAIN t
        PROVE  /\ Comes(a.order, sort, Start(sort, k), RowOf(t, p)) <=> t[p].key = k \/ Beyond(sort, k, t[p].key)
               /\ t[p].key \in Int /\ RowOf(t, p).key = t[p].key
    <2> DEFINE o == a.order
    <2>1. o \in Int /\ o > 0
      OBVIOUS
    <2>2. t[p].key \in Int /\ RowOf(t, p).key = t[p].key
      BY RowTypes
    <2> HIDE DEF o
    <2>3. Comes(o, sort, Start(sort, k), RowOf(t, p)) <=> t[p].key = k \/ Beyond(sort, k, t[p].key)
      BY <2>1, KeyBounds
    <2> QED
      BY <2>2, <2>3 DEF o
  <1>4. ASSUME NEW p \in Sought(a, t, k, soft)
        PROVE  Comes(a.order, sort, Start(sort, k), RowOf(t, p))
    <2>1. p \in DOMAIN t /\ (t[p].key = k \/ (soft /\ t[p].key > k))
      BY <1>1 DEF Sought
    <2>2. soft /\ t[p].key > k => Beyond(sort, k, t[p].key)
      BY DEF Beyond
    <2> QED
      BY <1>3, <2>1, <2>2
  <1>5. ASSUME NEW p \in ShownRows(a, t), Comes(a.order, sort, Start(sort, k), RowOf(t, p)),
               p \notin Sought(a, t, k, soft), NEW q \in Sought(a, t, k, soft)
        PROVE  ~soft /\ Comes(a.order, sort, RowOf(t, q), RowOf(t, p))
    <2>1. p \in DOMAIN t /\ q \in DOMAIN t
      BY <1>1
    <2>2. t[p].key = k \/ Beyond(sort, k, t[p].key)
      BY <1>3, <1>5, <2>1
    <2>3. t[p].key # k /\ ~(soft /\ t[p].key > k)
      BY <1>5 DEF Sought
    <2>4. ~soft
      BY <2>2, <2>3 DEF Beyond
    <2>5. t[q].key = k
      BY <2>4 DEF Sought
    <2>6. RowOf(t, q).key = k /\ RowOf(t, p).key = t[p].key /\ t[p].key \in Int
      BY <1>3, <2>1, <2>5
    <2> QED
      BY <2>2, <2>3, <2>4, <2>6 DEF Beyond, Comes, Precedes
  <1>6. ASSUME NEW p \in ShownRows(a, t), Comes(a.order, sort, Start(sort, k), RowOf(t, p)),
               p \notin Sought(a, t, k, soft)
        PROVE  ~soft
    <2>1. p \in DOMAIN t
      BY <1>1
    <2>2. t[p].key = k \/ Beyond(sort, k, t[p].key)
      BY <1>3, <1>6, <2>1
    <2>3. t[p].key # k /\ ~(soft /\ t[p].key > k)
      BY <1>6 DEF Sought
    <2> QED
      BY <2>2, <2>3 DEF Beyond
  <1> QED
    BY <1>1, <1>2, <1>4, <1>5, <1>6

LEMMA SeekFindsNone ==
    ASSUME NEW t \in Tables, NEW sort \in {"ASC", "DESC"}, NEW a, a.order \in Int, a.order > 0,
           NEW k \in Int, NEW soft \in BOOLEAN, sort = "DESC" => ~soft, a.steady = DOMAIN t,
           \A p \in Known(a, t) : ~Comes(a.order, sort, Start(sort, k), RowOf(t, p))
    PROVE  Sought(a, t, k, soft) = {}
  <1>1. Known(a, t) = ShownRows(a, t)
    BY DEF Known, ShownRows
  <1> QED
    BY <1>1, SoughtFirst

(* It stopped on a row.                                                    *)
LEMMA SeekStops ==
    ASSUME NEW t \in Tables, NEW sort \in {"ASC", "DESC"}, NEW a, a.order \in Int, a.order > 0,
           NEW k \in Int, NEW soft \in BOOLEAN, sort = "DESC" => ~soft, a.steady = DOMAIN t,
           NEW c, Renewed(a, c, t), Stood(c, t, sort), ~IsHidden(c),
           Passed(c, t, sort, Start(sort, k), Known(a, t))
    PROVE  LET e == IF soft \/ c.record.key = k THEN [c EXCEPT !.found = TRUE]
                    ELSE GoToNone([c EXCEPT !.found = FALSE])
           IN  /\ SameSettings(a, e) /\ e.steady = DOMAIN t /\ Positioned(e, t)
               /\ e.changed = {} /\ SeekEnds(e, t, sort, k, soft)
  <1> DEFINE g == Start(sort, k)
             e == IF soft \/ c.record.key = k THEN [c EXCEPT !.found = TRUE]
                  ELSE GoToNone([c EXCEPT !.found = FALSE])
  <1>1. /\ SameSettings(a, c) /\ c.steady = DOMAIN t /\ c.order = a.order
        /\ ShownRows(c, t) = ShownRows(a, t) /\ Sought(c, t, k, soft) = Sought(a, t, k, soft)
    BY SameShown, SettingsSeek DEF Renewed, SameSought
  <1>2. /\ c \in Ready(t) /\ c \in AreaType /\ ~c.append /\ ~c.lost /\ ~c.eof /\ c.changed = {}
        /\ OnWay(c, t, sort) /\ c.record.pk \in DOMAIN t /\ c.record.pk # Blank
        /\ Primed(c, t) /\ FilterShown(c)
    <2>1. /\ c \in Ready(t) /\ OnWay(c, t, sort) /\ ~c.lost /\ ~c.eof /\ c.changed = {}
          /\ c.record.pk \in DOMAIN t
      BY DEF Stood, OnWay
    <2> QED
      BY <2>1, ReadyParts, RowTypes DEF OnWay
  <1>3. c.record.pk \in ShownRows(c, t) /\ c.record.key = t[c.record.pk].key
    BY <1>1, <1>2, StoodShown
  <1>4. Known(a, t) = ShownRows(a, t)
    BY DEF Known, ShownRows
  <1>5. /\ Comes(a.order, sort, g, At(c))
        /\ \A p \in ShownRows(a, t) : Comes(a.order, sort, g, RowOf(t, p)) =>
               ~Comes(a.order, sort, RowOf(t, p), At(c))
    <2>1. ~Ended(c, t, sort)
      BY DEF Stood, Ended
    <2> QED
      BY <1>1, <1>4, <2>1 DEF Passed
  <1>6. \A x : /\ Comes(a.order, sort, x, At(c)) <=> Comes(a.order, sort, x, RowOf(t, c.record.pk))
               /\ Comes(a.order, sort, At(c), x) <=> Comes(a.order, sort, RowOf(t, c.record.pk), x)
    BY <1>1, <1>2, StoodParts
  <1>7. /\ \A p \in Sought(a, t, k, soft) : p \in ShownRows(a, t) /\ Comes(a.order, sort, g, RowOf(t, p))
        /\ c.record.pk \in Sought(a, t, k, soft) \/
              (~soft /\ \A q \in Sought(a, t, k, soft) : Comes(a.order, sort, RowOf(t, q), RowOf(t, c.record.pk)))
    BY <1>1, <1>3, <1>5, <1>6, SoughtFirst
  <1>8. \A p \in Sought(a, t, k, soft) : ~Comes(a.order, sort, RowOf(t, p), At(c))
    BY <1>5, <1>7
  <1> HIDE DEF e
  <1>9. CASE soft \/ c.record.key = k
    <2>1. e = [c EXCEPT !.found = TRUE]
      BY <1>9 DEF e
    <2>2. /\ SameButMarks(c, e) /\ e.lost = c.lost /\ e.bof = c.bof /\ e.eof = c.eof /\ e.found
      BY <1>2, <2>1, MarkIs
    <2>3. c.record.pk \in Sought(a, t, k, soft)
      BY <1>1, <1>3, <1>6, <1>7, <1>8, <1>9 DEF Sought
    <2>4. Positioned(e, t)
      <3>1. Positioned(c, t)
        BY StoodPositioned
      <3>2. Stands(e) => Stands(c)
        <4>1. CurrentStatement(e) = CurrentStatement(c)
          BY <2>2 DEF SameButMarks, SameWay, CurrentStatement
        <4> QED
          BY <2>2, <4>1 DEF Stands, SameButMarks, SameWay, SameSettings
      <3> QED
        BY <2>2, <3>1, <3>2, MarkedPositioned DEF Positioned
    <2>5. SameSettings(a, e) /\ e.steady = DOMAIN t /\ e.changed = {} /\ e.record = c.record
      BY <1>1, <1>2, <2>2 DEF SameButMarks, SameWay, SameSettings
    <2>6. Sought(e, t, k, soft) = Sought(a, t, k, soft) /\ e.order = a.order
      BY <2>5, SettingsSeek DEF SameSought
    <2>7. OnRow(e) /\ At(e) = At(c)
      BY <1>2, <2>2, <2>5 DEF OnRow, At, SameButMarks
    <2>8. SeekEnds(e, t, sort, k, soft)
      BY <1>3, <1>8, <2>2, <2>3, <2>5, <2>6, <2>7 DEF SeekEnds
    <2> QED
      BY <2>4, <2>5, <2>8 DEF e
  <1>10. CASE ~(soft \/ c.record.key = k)
    <2> DEFINE f == [c EXCEPT !.found = FALSE]
    <2>1. e = GoToNone(f)
      BY <1>10 DEF e
    <2>2. f \in Ready(t) /\ SameButMarks(c, f)
      BY <1>2, MarksReady, MarkIs
    <2> HIDE DEF f
    <2>3. /\ SameSettings(c, f) /\ f.steady = c.steady /\ SameQuery(c, f)
          /\ CurrentStatement(f) = CurrentStatement(c)
      <3>1. CurrentStatement(f) = CurrentStatement(c)
        BY <2>2 DEF SameButMarks, SameWay, CurrentStatement
      <3> QED
        BY <2>2, <3>1 DEF SameButMarks, SameWay, SameQuery
    <2>4. Primed(f, t) /\ FilterShown(f)
      BY <1>2, <2>3, SameCovers, SameShown
    <2>5. OnNone(e) /\ SameWay(f, e) /\ SameSettings(f, e) /\ Positioned(e, t)
      BY <2>1, <2>2, <2>4, GoToNoneIs
    <2>6. SameSettings(a, e) /\ e.steady = DOMAIN t
      BY <1>1, <2>3, <2>5 DEF SameSettings, SameWay
    <2>7. Sought(a, t, k, soft) = {}
      <3>1. c.record.pk \notin Sought(a, t, k, soft)
        BY <1>3, <1>10 DEF Sought
      <3> QED
        BY <1>6, <1>7, <1>8, <3>1
    <2>8. Sought(e, t, k, soft) = {}
      BY <2>6, <2>7, SettingsSeek DEF SameSought
    <2> QED
      BY <2>5, <2>6, <2>8 DEF e, OnNone, SeekEnds, OnRow
  <1> QED
    BY <1>9, <1>10

(* It came to no row.                                                      *)
LEMMA SeekComesToNone ==
    ASSUME NEW t \in Tables, NEW sort \in {"ASC", "DESC"}, NEW a, a.steady = DOMAIN t,
           NEW k, NEW soft, NEW b, Renewed(a, b, t), Ended(b, t, sort),
           "key" \notin b.changed => b.keyValue = NoKey, Sought(a, t, k, soft) = {}
    PROVE  LET e == [b EXCEPT !.lost = b.bof]
           IN  /\ SameSettings(a, e) /\ e.steady = DOMAIN t /\ Positioned(e, t)
               /\ e.changed = b.changed /\ e.bof = b.bof /\ SeekEnds(e, t, sort, k, soft)
  <1> DEFINE e == [b EXCEPT !.lost = b.bof]
  <1>1. b \in Ready(t) /\ b \in AreaType /\ Positioned(b, t) /\ ~b.found /\ ~b.append
    BY EndedPositioned, ReadyParts DEF Ended, OnWay
  <1>2. /\ SameButMarks(b, e) /\ e.lost = b.bof /\ e.bof = b.bof /\ e.eof = b.eof /\ e.found = b.found
    BY <1>1 DEF AreaType, SameButMarks, SameWay, SameSettings
  <1> HIDE DEF e
  <1>3. \/ b.eof /\ ~b.bof /\ ~b.lost
        \/ b.bof /\ ~b.eof
    BY DEF Ended
  <1>4. ~OnRow(e) /\ ~Stands(e)
    BY <1>2, <1>3 DEF OnRow, Stands
  <1>5. Positioned(e, t)
    BY <1>1, <1>2, <1>3, <1>4, MarkedPositioned DEF Positioned
  <1>6. SameSettings(a, e) /\ e.steady = DOMAIN t
    BY <1>2 DEF SameButMarks, SameWay, SameSettings, Renewed
  <1>7. Sought(e, t, k, soft) = {}
    BY <1>6, SettingsSeek DEF SameSought
  <1> QED
    BY <1>1, <1>2, <1>4, <1>5, <1>6, <1>7 DEF e, SeekEnds, SameButMarks

(* It went back over the first row, to the top.                            *)
LEMMA SeekTops ==
    ASSUME NEW t \in Tables, NEW a, a.steady = DOMAIN t, NEW k, NEW soft, ~soft,
           NEW h \in Ready(t), OnTop(h, t), SameSettings(a, h), Sought(a, t, k, soft) = {}
    PROVE  LET c == [h EXCEPT !.bof = TRUE]
               e == IF c.eof THEN [c EXCEPT !.found = FALSE]
                    ELSE IF soft \/ c.record.key = k THEN [c EXCEPT !.found = TRUE]
                    ELSE GoToNone([c EXCEPT !.found = FALSE])
           IN  /\ SameSettings(a, e) /\ e.steady = DOMAIN t /\ Positioned(e, t)
               /\ e.changed = {} /\ SeekEnds(e, t, "DESC", k, soft)
  <1> DEFINE c == [h EXCEPT !.bof = TRUE]
             f == [c EXCEPT !.found = FALSE]
             e == IF c.eof THEN f
                  ELSE IF soft \/ c.record.key = k THEN [c EXCEPT !.found = TRUE]
                  ELSE GoToNone(f)
  <1>1. "ASC" \in {"ASC", "DESC"} /\ "ASC" # "DESC" /\ h \in AreaType /\ ~h.append
    BY ReadyParts
  <1>2. SameButMarks(h, c) /\ c.lost = h.lost /\ c.eof = h.eof /\ c.bof
    BY <1>1, MarkIs
  <1>3. c \in Ready(t) /\ c \in AreaType
    BY MarksReady, ReadyParts
  <1> HIDE DEF c
  <1>4. SameButMarks(c, f) /\ f.lost = c.lost /\ f.eof = c.eof /\ f.bof = c.bof /\ ~f.found
    BY <1>3, MarkIs
  <1>5. f \in Ready(t)
    BY <1>3, MarksReady
  <1>6. e = IF c.eof THEN f
            ELSE IF soft \/ c.record.key = k THEN [c EXCEPT !.found = TRUE]
            ELSE GoToNone(f)
    OBVIOUS
  <1> HIDE DEF f, e
  <1>7. SameButMarks(h, f) /\ f.lost = h.lost /\ f.eof = h.eof /\ f.bof /\ ~f.found
    BY <1>2, <1>4 DEF SameButMarks, SameWay, SameSettings
  <1>8. /\ SameSettings(h, f) /\ f.steady = DOMAIN t /\ SameQuery(h, f)
        /\ CurrentStatement(f) = CurrentStatement(h)
    <2>1. CurrentStatement(f) = CurrentStatement(h)
      BY <1>7 DEF SameButMarks, SameWay, CurrentStatement
    <2> QED
      BY <1>7, <2>1 DEF SameButMarks, SameWay, SameQuery, OnTop
  <1>9. OnWay(h, t, "ASC") /\ h.changed = {} /\ ~h.lost
    BY <1>1 DEF OnTop, FirstShown, Stood, Ended
  <1>10. Positioned(h, t)
    BY <1>1, FirstPositioned DEF OnTop
  <1>11. ASSUME NEW x, SameSettings(f, x), x.steady = DOMAIN t, ~x.found, ~OnRow(x)
         PROVE  SameSettings(a, x) /\ SeekEnds(x, t, "DESC", k, soft)
    <2>1. SameSettings(a, x)
      BY <1>8, <1>11 DEF SameSettings
    <2> QED
      BY <1>11, <2>1, SettingsSeek DEF SameSought, SeekEnds
  <1>12. CASE FirstShown(h, t, "ASC")
    <2>1. ~c.eof /\ c.record = h.record
      BY <1>2, <1>12 DEF FirstShown, Stood, SameButMarks
    <2>2. h.record.key # k
      <3>1. ShownRows(h, t) = ShownRows(a, t)
        BY SameShown
      <3> QED
        BY <1>12, <3>1 DEF FirstShown, Sought
    <2>3. e = GoToNone(f)
      BY <1>6, <2>1, <2>2
    <2>4. Primed(f, t) /\ FilterShown(f)
      BY <1>8, <1>9, SameCovers, SameShown DEF OnWay
    <2>5. OnNone(e) /\ SameWay(f, e) /\ SameSettings(f, e) /\ Positioned(e, t)
      BY <1>5, <2>3, <2>4, GoToNoneIs
    <2>6. e.steady = DOMAIN t /\ ~e.found /\ ~OnRow(e) /\ e.changed = {}
      BY <1>8, <2>5 DEF SameWay, OnNone, OnRow
    <2> QED
      BY <1>11, <2>5, <2>6 DEF e, f, c
  <1>13. CASE Ended(h, t, "ASC")
    <2>1. c.eof
      BY <1>1, <1>2, <1>13 DEF Ended
    <2>2. e = f
      BY <1>6, <2>1
    <2>3. f.eof /\ ~Stands(f) /\ ~OnRow(f) /\ f.changed = {}
      BY <1>2, <1>7, <1>9, <2>1 DEF Stands, OnRow, SameButMarks
    <2>4. Positioned(f, t)
      BY <1>7, <1>9, <1>10, <2>3, MarkedPositioned DEF Positioned
    <2>5. SameSettings(f, f)
      BY DEF SameSettings
    <2> QED
      BY <1>7, <1>8, <1>11, <2>2, <2>3, <2>4, <2>5 DEF e, f, c
  <1> QED
    BY <1>12, <1>13 DEF OnTop

(* What a SEEK ends with, whatever it started from.                        *)
SeekDone(a, e, t, sort, k, soft) ==
    /\ SameSettings(a, e) /\ e.steady = DOMAIN t /\ Positioned(e, t)
    /\ "key" \in e.changed => "key" \in a.changed /\ e.bof
    /\ SeekEnds(e, t, sort, k, soft)

(* From the row that it fetched.                                           *)
LEMMA SeekGoesOn ==
    ASSUME setDeleted \in BOOLEAN, NEW t \in Tables, NEW sort \in {"ASC", "DESC"},
           NEW q, OnWay(q, t, sort), q.steady = DOMAIN t, ~q.bof, ~q.eof, ~q.bottom, q.order > 0,
           NEW k \in Int, NEW soft \in BOOLEAN, sort = "DESC" => ~soft,
           Follows(q, t, Start(sort, k)),
           Stood(FetchNextRecord(q, t, sort), t, sort)
    PROVE  LET c == SkipFilter(FetchNextRecord(q, t, sort), t, sort)
               e == IF c.eof THEN [c EXCEPT !.found = FALSE]
                    ELSE IF soft \/ c.record.key = k THEN [c EXCEPT !.found = TRUE]
                    ELSE GoToNone([c EXCEPT !.found = FALSE])
           IN  SeekDone(q, e, t, sort, k, soft)
  <1> DEFINE b == FetchNextRecord(q, t, sort)
             c == SkipFilter(b, t, sort)
             g == Start(sort, k)
             stop == IF soft \/ c.record.key = k THEN [c EXCEPT !.found = TRUE]
                     ELSE GoToNone([c EXCEPT !.found = FALSE])
             e == IF c.eof THEN [c EXCEPT !.found = FALSE] ELSE stop
  <1>1. "ASC" # "DESC" /\ q.order \in Int
    BY OnWayFits
  <1>2. ASSUME Stood(c, t, sort), ~IsHidden(c), Renewed(q, c, t), Passed(c, t, sort, g, Known(q, t))
        PROVE  SeekDone(q, e, t, sort, k, soft)
    <2>1. e = stop
      BY <1>2 DEF Stood
    <2> HIDE DEF e, c
    <2>2. /\ SameSettings(q, stop) /\ stop.steady = DOMAIN t /\ Positioned(stop, t)
          /\ stop.changed = {} /\ SeekEnds(stop, t, sort, k, soft)
      BY <1>1, <1>2, SeekStops
    <2> HIDE DEF stop
    <2> QED
      BY <2>1, <2>2 DEF SeekDone
  <1>3. CASE sort = "ASC"
    <2>1. c = SkipFilterDown(b, t)
      BY <1>1, <1>3 DEF SkipFilter
    <2> HIDE DEF c, e
    <2>2. /\ Renewed(q, c, t)
          /\ Stood(c, t, sort) \/ Ended(c, t, sort)
          /\ Stood(c, t, sort) => ~IsHidden(c)
          /\ Passed(c, t, sort, g, Known(q, t))
      BY <1>3, <2>1, MovesDown
    <2>3. CASE Stood(c, t, sort)
      BY <1>2, <2>2, <2>3 DEF e, c
    <2>4. CASE Ended(c, t, sort)
      <3>1. /\ c \in AreaType /\ c.eof /\ ~c.bof /\ ~c.lost /\ ~c.found /\ c.changed = {}
            /\ c.keyValue = NoKey
        BY <1>3, <2>4, ReadyParts DEF Ended, OnWay
      <3>2. ~Stood(c, t, sort) /\ c.order = q.order
        BY <2>2, <3>1 DEF Stood, Renewed, SameSettings
      <3>3. Sought(q, t, k, soft) = {}
        BY <1>1, <2>2, <3>2, SeekFindsNone DEF Passed
      <3> DEFINE f == [c EXCEPT !.lost = c.bof]
      <3>4. /\ SameSettings(q, f) /\ f.steady = DOMAIN t /\ Positioned(f, t)
            /\ f.changed = c.changed /\ SeekEnds(f, t, sort, k, soft)
        BY <2>2, <2>4, <3>1, <3>3, SeekComesToNone
      <3>5. f = c
        BY <3>1 DEF AreaType
      <3>6. e = c
        BY <3>1 DEF AreaType, e
      <3> HIDE DEF f
      <3> QED
        BY <3>1, <3>4, <3>5, <3>6 DEF SeekDone, e, c
    <2> QED
      BY <2>2, <2>3, <2>4
  <1>4. CASE sort = "DESC"
    <2>1. c = SkipFilterUp(b, t)
      BY <1>4 DEF SkipFilter
    <2>2. ~b.bof /\ b.block = q.block
      <3>1. Renewed(q, b, t)
        BY <1>4, FetchAndSkip
      <3> QED
        BY <3>1 DEF Renewed, SameSettings, Stood
    <2>3. c = b \/ setDeleted \/ q.block
      BY <2>1, <2>2 DEF SkipFilterUp
    <2> HIDE DEF c, e, b
    <2>4. /\ Renewed(q, c, t)
          /\ StoppedUp(q, c, t) \/ StayedUp(q, c, t) \/ GoneUp(q, c, t) \/ ToppedUp(q, c, t)
      BY <1>4, <2>1, UpReached DEF b
    <2>5. CASE StoppedUp(q, c, t)
      BY <1>2, <1>4, <2>4, <2>5 DEF StoppedUp, e, c, b
    <2>6. ~StayedUp(q, c, t)
      BY <2>2, <2>3 DEF StayedUp, Ended
    <2>7. ~GoneUp(q, c, t)
      BY DEF GoneUp
    <2>8. CASE ToppedUp(q, c, t)
      <3>1. PICK h \in Ready(t) : OnTop(h, t) /\ c = [h EXCEPT !.bof = TRUE]
        BY <2>8 DEF ToppedUp
      <3>2. \A p \in Known(q, t) : ~Comes(q.order, sort, g, RowOf(t, p))
        BY <1>4, <2>8 DEF ToppedUp, NoneLeft
      <3>3. Sought(q, t, k, soft) = {}
        BY <1>1, <3>2, SeekFindsNone
      <3>4. SameSettings(q, h)
        <4>1. SameButMarks(h, c)
          BY <3>1, MarkIs, ReadyParts
        <4> QED
          BY <2>4, <4>1 DEF Renewed, SameButMarks, SameWay, SameSettings
      <3> DEFINE u == [h EXCEPT !.bof = TRUE]
                 f == IF u.eof THEN [u EXCEPT !.found = FALSE]
                      ELSE IF soft \/ u.record.key = k THEN [u EXCEPT !.found = TRUE]
                      ELSE GoToNone([u EXCEPT !.found = FALSE])
      <3>5. /\ SameSettings(q, f) /\ f.steady = DOMAIN t /\ Positioned(f, t)
            /\ f.changed = {} /\ SeekEnds(f, t, "DESC", k, soft)
        BY <1>4, <3>1, <3>3, <3>4, SeekTops
      <3>6. e = f
        BY <3>1 DEF e
      <3> HIDE DEF f
      <3> QED
        BY <1>4, <3>5, <3>6 DEF SeekDone, e, c, b
    <2> QED
      BY <2>4, <2>5, <2>6, <2>7, <2>8
  <1> QED
    BY <1>3, <1>4

LEMMA SeekReached ==
    ASSUME setDeleted \in BOOLEAN, NEW t \in Tables, NEW a \in Settled(t), FilterShown(a),
           "key" \notin a.changed => a.keyValue = NoKey, a.order > 0,
           NEW k \in Int, NEW soft \in BOOLEAN, NEW last \in BOOLEAN, ~(soft /\ last)
    PROVE  SeekDone(a, SeekOf(a, t, k, soft, last), t, IF last THEN "DESC" ELSE "ASC", k, soft)
  <1> DEFINE sort == IF last THEN "DESC" ELSE "ASC"
             d == [ResetFlags(a) EXCEPT !.bottom = FALSE]
             q == QuerySeek(d, t, k, sort, soft)
             b == FetchNextRecord(q, t, sort)
             c == SkipFilter(b, t, sort)
             g == Start(sort, k)
             end == IF c.eof THEN [c EXCEPT !.found = FALSE]
                    ELSE IF soft \/ c.record.key = k THEN [c EXCEPT !.found = TRUE]
                    ELSE GoToNone([c EXCEPT !.found = FALSE])
             none == [b EXCEPT !.lost = b.bof]
             e == SeekOf(a, t, k, soft, last)
  <1>1. /\ sort \in {"ASC", "DESC"} /\ (sort = "DESC" => ~soft) /\ a \in AreaType /\ a.order \in Int
        /\ "ASC" # "DESC"
    BY AtTypes DEF Settled, Areas
  <1>2. d \in Settled(t) /\ SameSettings(a, d) /\ ~d.bof /\ ~d.eof /\ ~d.bottom /\ SameRecord(a, d)
    BY <1>1, StartSettled, StartIs
  <1>3. e = IF b.bof \/ b.eof THEN none ELSE end
    BY DEF SeekOf
  <1> HIDE DEF d, e, sort
  <1>4. FilterShown(d) /\ d.order > 0
    BY <1>2, SameShown
  <1>5. /\ OnWay(q, t, sort) /\ q.steady = DOMAIN t /\ ~IsQueryMore(q)
        /\ SameSettings(d, q) /\ SameRecord(d, q) /\ SameFlags(d, q)
        /\ \/ q.result = {} /\ ~soft /\ \A p \in Asked(d, t) : t[p].key # k
           \/ Covers(q, t, g) /\ Ahead(q, g)
    BY <1>1, <1>2, <1>4, SeekReaches
  <1> HIDE DEF q
  <1>6. /\ ~q.bof /\ ~q.eof /\ ~q.bottom /\ q.order = a.order /\ SameSettings(a, q) /\ SameRecord(a, q)
        /\ FilterShown(q) /\ Asked(d, t) = Asked(q, t)
    <2>1. SameSettings(a, q) /\ SameRecord(a, q) /\ ~q.bof /\ ~q.eof /\ ~q.bottom
      BY <1>2, <1>5 DEF SameFlags, SameSettings, SameRecord
    <2> QED
      BY <1>5, <2>1, SameShown
  <1>7. /\ Renewed(q, b, t)
        /\ Stood(b, t, sort) \/ Ended(b, t, sort)
        /\ Ended(b, t, sort) /\ sort = "DESC" => SameRecord(q, b)
        /\ \A f : Follows(q, t, f) => Passed(b, t, sort, f, Known(q, t))
    <2>1. IF sort = "DESC" THEN ~q.bof ELSE ~q.eof
      BY <1>6
    <2> QED
      BY <1>1, <1>5, <2>1, FetchAndSkip
  <1>8. ASSUME NEW x, SeekDone(q, x, t, sort, k, soft)
        PROVE  SeekDone(a, x, t, sort, k, soft)
    BY <1>6, <1>8 DEF SeekDone, SameSettings, SameRecord
  <1>9. CASE Ended(b, t, sort)
    <2>1. /\ b.eof \/ b.bof
          /\ "key" \notin b.changed => b.keyValue = NoKey
          /\ "key" \in b.changed => "key" \in a.changed /\ b.bof
      BY <1>1, <1>6, <1>7, <1>9 DEF Ended, SameRecord
    <2>2. Sought(q, t, k, soft) = {}
      <3>1. CASE Covers(q, t, g) /\ Ahead(q, g)
        <4>1. Follows(q, t, g)
          BY <1>1, <1>5, <1>6, <3>1, SoughtFirst DEF Follows, GoesOn
        <4>2. ~Stood(b, t, sort) /\ b.order = q.order
          BY <1>7, <2>1 DEF Stood, Renewed, SameSettings
        <4>3. \A p \in Known(q, t) : ~Comes(q.order, sort, g, RowOf(t, p))
          BY <1>7, <4>1, <4>2 DEF Passed
        <4> QED
          BY <1>1, <1>5, <1>6, <4>3, SeekFindsNone
      <3>2. CASE ~soft /\ \A p \in Asked(d, t) : t[p].key # k
        BY <1>6, <3>2 DEF Sought, ShownRows, Asked, FilterShown
      <3> QED
        BY <1>5, <3>1, <3>2
    <2>3. /\ SameSettings(q, none) /\ none.steady = DOMAIN t /\ Positioned(none, t)
          /\ none.changed = b.changed /\ none.bof = b.bof /\ SeekEnds(none, t, sort, k, soft)
      BY <1>1, <1>5, <1>7, <1>9, <2>1, <2>2, SeekComesToNone
    <2>4. e = none
      BY <1>3, <2>1
    <2> HIDE DEF none
    <2>5. SeekDone(a, e, t, sort, k, soft)
      BY <1>6, <2>1, <2>3, <2>4 DEF SeekDone, SameSettings
    <2> QED
      BY <2>5 DEF e, sort
  <1>10. CASE Stood(b, t, sort)
    <2>1. e = end
      BY <1>3, <1>10 DEF Stood
    <2>2. Follows(q, t, g)
      <3>1. q.result # {}
        <4>1. ASSUME q.result = {}
              PROVE  b = NothingFetched(q, sort)
          BY <1>1, <1>5, <1>6, <4>1 DEF FetchNextRecord
        <4>2. q.result = {} => Ended(NothingFetched(q, sort), t, sort)
          BY <1>1, <1>5, FindsNothing
        <4>3. ~Ended(b, t, sort)
          BY <1>1, <1>10 DEF Stood, Ended
        <4> HIDE DEF b
        <4> QED
          BY <4>1, <4>2, <4>3
      <3> QED
        BY <1>1, <1>5, <1>6, <3>1, SoughtFirst DEF Follows, GoesOn
    <2>3. SeekDone(q, end, t, sort, k, soft)
      BY <1>1, <1>5, <1>6, <1>10, <2>2, SeekGoesOn
    <2> HIDE DEF end
    <2> QED
      BY <1>8, <2>1, <2>3 DEF e, sort
  <1> QED
    BY <1>7, <1>9, <1>10
-----------------------------------------------------------------------------
(* GOTO, RLOCK and SKIP 0: the row of a number.                            *)

LEMMA NumberCommands ==
    /\ {"GO_TO_RECNO", "LOCK_RECNO"} \subseteq Command /\ "NO" \in Sort /\ "YES" \in More /\ "NO" \in More
    /\ \A cmd \in {"GO_TO_RECNO", "LOCK_RECNO"} :
          cmd \in ByNumber /\ "NO" \in UsesOf(cmd) /\ cmd \notin QueryCommand
  BY DEF Command, ByNumber, QueryCommand, UsesOf, Sort, More

LEMMA NumberReaches ==
    ASSUME setDeleted \in BOOLEAN, NEW t \in Tables, NEW a \in Settled(t), NEW n \in DOMAIN t
    PROVE  LET q == QueryNumber(a, t, n)
           IN  /\ q \in Ready(t) /\ q.current \notin QueryCommand
               /\ q.result = {RowOf(t, n)} /\ q.steady = DOMAIN t
               /\ CurrentStatement(q) \in Statement /\ CurrentStatement(q).sort = "NO"
               /\ SameSettings(a, q) /\ SameFlags(a, q)
  <1> DEFINE q == QueryNumber(a, t, n)
             sql == SqlNow(a, "GO_TO_RECNO", "NO")
             limited == {p \in DOMAIN t : sql.limits => t[p].key \in LimitKeys(t, sql)}
  <1>1. q = RunQuery(a, t, "GO_TO_RECNO", "NO", "YES", {n})
    BY DEF QueryNumber
  <1>2. q \in Ready(t)
    <2>1. "ASC" \in {"ASC", "DESC"}
      OBVIOUS
    <2> QED
      BY <2>1, QueriesReady
  <1> HIDE DEF q
  <1>3. /\ q.current = "GO_TO_RECNO"
        /\ CurrentStatement(q) = StatementNow(a, "GO_TO_RECNO", "NO", "YES")
        /\ CurrentStatement(q) \in Statement
        /\ q.result = {RowOf(t, p) : p \in Select(t, sql) \cap limited \cap {n}}
        /\ q.steady = DOMAIN t
        /\ SameSettings(a, q) /\ SameFlags(a, q)
    BY <1>1, NumberCommands, RunQueryIs
  <1>4. ~sql.deleted /\ sql.filter = NoFilter /\ ~sql.limits
    <2>1. sql.deleted = ("GO_TO_RECNO" \notin ByNumber /\ setDeleted)
      BY DEF SqlNow
    <2>2. sql.filter = IF "GO_TO_RECNO" \in ByNumber THEN NoFilter ELSE a.filter
      BY DEF SqlNow
    <2>3. sql.limits = ("GO_TO_RECNO" \in {"GO_TOP", "GO_BOTTOM"} /\ a.limits /\ a.order > 0)
      BY DEF SqlNow
    <2>4. "GO_TO_RECNO" \notin {"GO_TOP", "GO_BOTTOM"} /\ "GO_TO_RECNO" \in ByNumber
      BY NumberCommands
    <2> QED
      BY <2>1, <2>2, <2>3, <2>4
  <1> HIDE DEF sql
  <1>5. n \in Select(t, sql) /\ n \in limited
    BY <1>4 DEF Select
  <1> HIDE DEF limited
  <1>6. q.result = {RowOf(t, n)}
    BY <1>3, <1>5
  <1>7. CurrentStatement(q).sort = "NO"
    BY <1>3 DEF StatementNow
  <1> QED
    BY <1>2, <1>3, <1>6, <1>7, NumberCommands DEF q

LEMMA GoToReached ==
    ASSUME setDeleted \in BOOLEAN, NEW t \in Tables, NEW a \in Settled(t), FilterShown(a),
           NEW n \in DOMAIN t
    PROVE  LET e == FetchNextRecord(QueryNumber(ResetFlags(a), t, n), t, "ASC")
           IN  /\ SameSettings(a, e) /\ e.steady = DOMAIN t /\ Positioned(e, t)
               /\ e.changed = {} /\ OnRow(e) /\ e.record.pk = n /\ e.record.key = t[n].key
  <1> DEFINE d == ResetFlags(a)
             q == QueryNumber(d, t, n)
             e == FetchNextRecord(q, t, "ASC")
             r == RowOf(t, n)
  <1>1. d \in Settled(t) /\ SameSettings(a, d) /\ ~d.eof
    <2>1. a \in AreaType /\ Noted(a) /\ OfTable(a, t) /\ ~a.hot
      BY DEF Settled, Areas
    <2>2. d \in AreaType
      BY <2>1, ZenonT(30) DEF AreaType, ResetFlags
    <2>3. /\ d.result = a.result /\ d.steady = a.steady /\ d.record = a.record /\ d.hot = a.hot
          /\ d.append = a.append /\ d.changed = a.changed /\ d.eof = FALSE
      BY <2>1 DEF AreaType, ResetFlags
    <2>4. SameStatements(a, d) /\ SameSettings(a, d)
      BY <2>1 DEF AreaType, ResetFlags, SameStatements, SameSettings
    <2> HIDE DEF d
    <2>5. Noted(d)
      BY <2>1, <2>4, StatementsNoted
    <2>6. OfTable(d, t)
      BY <2>1, <2>3 DEF OfTable, AsTheRow
    <2> QED
      BY <2>1, <2>2, <2>3, <2>4, <2>5, <2>6 DEF Settled, Areas
  <1> HIDE DEF d
  <1>2. /\ q \in Ready(t) /\ q.current \notin QueryCommand
        /\ q.result = {r} /\ q.steady = DOMAIN t
        /\ CurrentStatement(q) \in Statement /\ CurrentStatement(q).sort = "NO"
        /\ SameSettings(d, q) /\ SameFlags(d, q)
    BY <1>1, NumberReaches
  <1> HIDE DEF q
  <1>3. NextOf(q) = r /\ q \in AreaType
    <2>1. NextOf(q) \in q.result
      BY <1>2, NextInResult
    <2> QED
      BY <1>2, <2>1, ReadyParts
  <1>4. e = FetchRow(q)
    <2>1. ~q.eof
      BY <1>1, <1>2 DEF SameFlags
    <2> QED
      BY <1>2, <2>1 DEF FetchNextRecord
  <1>5. e \in Ready(t)
    BY <1>2, FetchReady
  <1> HIDE DEF e
  <1>6. /\ e.result = {} /\ e.record.pk = n /\ e.record.key = t[n].key
        /\ e.changed = {} /\ e.keyValue = NoKey /\ ~e.lost /\ ~e.bof /\ ~e.eof
        /\ SameWay(q, e)
    <2>1. LET b == FetchRow(q)
          IN  /\ b.result = q.result \ {r}
              /\ b.record.pk = r.pk /\ b.record.key = r.key
              /\ b.changed = {} /\ b.keyValue = NoKey /\ ~b.lost /\ ~b.bof /\ ~b.eof
              /\ SameWay(q, b)
      BY <1>3, FetchRowIs
    <2>2. r.pk = n /\ r.key = t[n].key
      BY RowTypes
    <2> HIDE DEF r
    <2> QED
      BY <1>2, <1>4, <2>1, <2>2
  <1>7. SameSettings(a, e) /\ e.steady = DOMAIN t
    BY <1>1, <1>2, <1>6 DEF SameWay, SameSettings
  <1>8. ~e.append /\ n # Blank
    BY <1>5, ReadyParts, RowTypes
  <1>9. CurrentStatement(e) = CurrentStatement(q) /\ e.current = q.current
    BY <1>6 DEF SameWay, CurrentStatement
  <1>10. Primed(e, t)
    BY <1>2, <1>6, <1>9 DEF Primed
  <1>11. FilterShown(e)
    BY <1>7, SameShown
  <1>12. Positioned(e, t)
    BY <1>2, <1>6, <1>8, <1>9, <1>10, <1>11 DEF Positioned, WellMarked, Stands
  <1>13. OnRow(e)
    BY <1>6, <1>8 DEF OnRow
  <1> QED
    BY <1>6, <1>7, <1>12, <1>13 DEF e, q, d
-----------------------------------------------------------------------------
(* The save that a call begins with.                                       *)

LEMMA FlushIs ==
    ASSUME WorkInv
    PROVE  /\ Flushed \in Ready(FlushedRows) /\ FlushedRows \in Tables
           /\ SameSettings(area, Flushed)
           /\ Flushed.steady = {p \in area.steady : FlushedRows[p] = rows[p]}
           /\ Flushed.changed = area.changed /\ Flushed.keyValue = area.keyValue
           /\ Flushed.bof = area.bof /\ Flushed.eof = area.eof /\ Flushed.found = area.found
           /\ Flushed.current = area.current /\ Flushed.commands = area.commands
           /\ Flushed.result = area.result /\ Flushed.fetched = area.fetched
           /\ Flushed.unpositioned = area.unpositioned
           /\ Flushed.record.key = area.record.key
           /\ area.append => Flushed.record.pk = NextRecno(rows) /\ ~Flushed.lost
           /\ ~area.append => Flushed.record = area.record /\ Flushed.lost = area.lost
           /\ DOMAIN rows \subseteq DOMAIN FlushedRows
           /\ area.steady \subseteq DOMAIN rows
           /\ area.append => area.hot
           /\ area.hot => ~area.eof
  <1>1. /\ rows \in Tables /\ area \in AreaType /\ OfTable(area, rows)
        /\ FlushedRows \in Tables /\ DOMAIN rows \subseteq DOMAIN FlushedRows
        /\ Flushed \in Ready(FlushedRows)
    BY InvParts, SavedRows, SavedReady
  <1>2. /\ area.steady \subseteq DOMAIN rows /\ (area.append => area.hot)
        /\ area.hot => area.record.locked
        /\ area.eof => area.record = BlankRecord
    BY <1>1 DEF OfTable
  <1>3. area.hot => ~area.eof
    BY <1>2 DEF BlankRecord
  <1>4. CASE ~area.hot
    <2>1. Flushed = area /\ FlushedRows = rows
      BY <1>4 DEF Flushed, FlushedRows
    <2> QED
      BY <1>1, <1>2, <1>3, <1>4, <2>1 DEF SameSettings
  <1>5. CASE area.hot
    <2> DEFINE pk == IF area.append THEN NextRecno(rows) ELSE area.record.pk
               steady == {p \in area.steady : FlushedRows[p] = rows[p]}
               lost == area.lost /\ ~area.append
    <2>1. Flushed = [area EXCEPT !.hot = FALSE, !.append = FALSE, !.record.pk = pk,
                                 !.steady = steady, !.lost = lost]
      BY <1>5 DEF Flushed
    <2>2. lost \in BOOLEAN
      OBVIOUS
    <2> HIDE DEF steady, pk, lost
    <2>3. /\ Flushed.steady = steady /\ Flushed.lost = lost
          /\ Flushed.changed = area.changed /\ Flushed.keyValue = area.keyValue
          /\ Flushed.bof = area.bof /\ Flushed.eof = area.eof /\ Flushed.found = area.found
          /\ Flushed.current = area.current /\ Flushed.commands = area.commands
          /\ Flushed.result = area.result /\ Flushed.fetched = area.fetched
          /\ Flushed.unpositioned = area.unpositioned
      BY <1>1, <2>1, <2>2 DEF AreaType
    <2>4. SameSettings(area, Flushed)
      BY <1>1, <2>1 DEF AreaType, SameSettings
    <2>5. Flushed.record = [area.record EXCEPT !.pk = pk]
      BY <1>1, <2>1 DEF AreaType
    <2>6. /\ Flushed.record.pk = pk /\ Flushed.record.key = area.record.key
          /\ pk = area.record.pk => Flushed.record = area.record
      BY <1>1, <2>5 DEF AreaType, Record
    <2>7. /\ area.append => ~Flushed.lost
          /\ ~area.append => Flushed.lost = area.lost
      <3>1. area.lost \in BOOLEAN /\ area.append \in BOOLEAN
        BY <1>1 DEF AreaType
      <3> QED
        BY <2>3, <3>1 DEF lost
    <2> QED
      BY <1>1, <1>2, <1>3, <1>5, <2>3, <2>4, <2>6, <2>7 DEF pk, steady
  <1> QED
    BY <1>4, <1>5

LEMMA FlushPositioned ==
    ASSUME WorkInv, PosInv
    PROVE  Positioned(Flushed, FlushedRows)
  <1>1. WellMarked(area) /\ Primed(area, rows)
        /\ (Stands(area) => Covers(area, rows, Stand(area)) /\ Ahead(area, Stand(area)))
    BY DEF PosInv, Positioned
  <1>2. Flushed \in Ready(FlushedRows) /\ ~Flushed.append
    BY FlushIs, ReadyParts
  <1>3. StillSteady(area, rows, Flushed, FlushedRows)
    BY FlushIs DEF StillSteady
  <1>4. /\ Primed(Flushed, FlushedRows)
        /\ \A g : Covers(area, rows, g) => Covers(Flushed, FlushedRows, g)
        /\ \A g : Ahead(area, g) => Ahead(Flushed, g)
        /\ CurrentStatement(Flushed) = CurrentStatement(area)
    <2>1. area.steady \subseteq DOMAIN rows
      BY FlushIs
    <2> QED
      BY <1>1, <1>3, <2>1, SteadyCovers
  <1>5. FilterShown(Flushed)
    BY <1>1, FlushIs, SameShown DEF WellMarked
  <1>6. WellMarked(Flushed)
    <2>1. /\ area.eof => ~area.append
          /\ Flushed.changed = area.changed /\ Flushed.keyValue = area.keyValue
          /\ Flushed.eof = area.eof
          /\ ~area.append => Flushed.lost = area.lost
      BY FlushIs
    <2> QED
      BY <1>1, <1>2, <1>4, <1>5, <2>1 DEF WellMarked
  <1>7. Stands(Flushed) => Stands(area) /\ Stand(Flushed) = Stand(area)
    <2>1. area.append => area.unpositioned
      BY <1>1 DEF WellMarked
    <2> QED
      BY <1>4, <2>1, FlushIs DEF Stands, Stand, SameSettings
  <1> QED
    BY <1>1, <1>4, <1>6, <1>7 DEF Positioned
-----------------------------------------------------------------------------
(* What the steps are to RowCursor.                                        *)

PlaceIn(a) ==
    IF Placeless(a) THEN Nowhere
    ELSE IF a.eof THEN End
    ELSE [pk |-> a.record.pk, key |-> a.record.key]

LEMMA Places ==
    ASSUME NEW a
    PROVE  /\ Placeless(a) => PlaceIn(a) = Nowhere
           /\ ~Placeless(a) /\ a.eof => PlaceIn(a) = End
           /\ ~Placeless(a) /\ ~a.eof => PlaceIn(a) = At(a)
           /\ OnRow(a) <=> ~Placeless(a) /\ ~a.eof
           /\ Place = PlaceIn(area)
           /\ Place' = PlaceIn(area')
           /\ End # Nowhere
  <1>1. Place = PlaceIn(area) /\ Place' = PlaceIn(area')
    BY DEF Place, PlaceIn, Placeless
  <1>2. OnRow(a) <=> ~Placeless(a) /\ ~a.eof
    BY DEF OnRow, Placeless
  <1>3. End # Nowhere
    <2>1. End.pk = Blank + 1 /\ Nowhere.pk = 0 /\ Blank + 1 # 0
      BY WorkAreaAssumption DEF WorkAreaAssumption, Blank, End, Nowhere
    <2> QED
      BY <2>1
  <1> QED
    BY <1>1, <1>2, <1>3 DEF PlaceIn, At

(* The place of a row.                                                     *)
RowPlace(t, p) == [pk |-> p, key |-> t[p].key]

LEMMA CursorTerms ==
    /\ \A x, y : Cursor!Before(x, y) <=> Precedes(area'.order, x, y)
    /\ \A x : x \in Cursor!ShownPlaces <=> \E p \in ShownRows(area, rows') : x = RowPlace(rows', p)
    /\ Cursor!Untouched = {p \in area.steady : rows'[p] = rows[p]}
    /\ \A x : x \in Cursor!KnownPlaces <=>
                 \E p \in ShownRows(area, rows') : x = RowPlace(rows', p) /\ p \in Cursor!Untouched
    /\ Cursor!Changed = {p \in DOMAIN rows' : p \notin DOMAIN rows \/ rows'[p] # rows[p]}
    /\ \A x : Cursor!IsPlace(x) <=> x # End /\ x # Nowhere
    /\ \A t, p : Cursor!PlaceOf(t, p) = RowPlace(t, p)
  <1>1. \A x, y : Cursor!Before(x, y) <=> Precedes(area'.order, x, y)
    BY DEF Cursor!Before, Precedes
  <1>2. \A x : x \in Cursor!ShownPlaces <=> \E p \in ShownRows(area, rows') : x = RowPlace(rows', p)
    BY DEF Cursor!ShownPlaces, Cursor!Shown, Cursor!PlaceOf, ShownRows, RowPlace
  <1>3. Cursor!Untouched = {p \in area.steady : rows'[p] = rows[p]}
    BY DEF Cursor!Untouched
  <1>4. \A x : x \in Cursor!KnownPlaces <=> x \in Cursor!ShownPlaces /\ x.pk \in Cursor!Untouched
    BY DEF Cursor!KnownPlaces
  <1>5. \A x : x \in Cursor!KnownPlaces <=>
                 \E p \in ShownRows(area, rows') : x = RowPlace(rows', p) /\ p \in Cursor!Untouched
    BY <1>2, <1>4 DEF RowPlace
  <1>6. Cursor!Changed = {p \in DOMAIN rows' : p \notin DOMAIN rows \/ rows'[p] # rows[p]}
    BY DEF Cursor!Changed
  <1>7. /\ \A x : Cursor!IsPlace(x) <=> x # End /\ x # Nowhere
        /\ \A t, p : Cursor!PlaceOf(t, p) = RowPlace(t, p)
    BY DEF Cursor!IsPlace, Cursor!PlaceOf, RowPlace
  <1> QED
    BY <1>1, <1>2, <1>3, <1>5, <1>6, <1>7

(* The rows that the flush changes.                                        *)
FlushChanged == {p \in DOMAIN FlushedRows : p \notin DOMAIN rows \/ FlushedRows[p] # rows[p]}

LEMMA FlushChanges ==
    ASSUME WorkInv
    PROVE  /\ Cursor!Saved(FlushChanged)
           /\ DOMAIN rows \subseteq DOMAIN FlushedRows
  <1> DEFINE x == IF area.append THEN NextRecno(rows) ELSE area.record.pk
  <1>1. /\ rows \in Tables /\ FlushedRows \in Tables /\ DOMAIN rows \subseteq DOMAIN FlushedRows
        /\ area.hot /\ ~area.append => /\ area.record.pk \in DOMAIN rows
                                       /\ FlushedRows = [rows EXCEPT ![area.record.pk] = FlushedRow(area.record)]
        /\ area.append => FlushedRows = Inserted(rows, FlushedRow(area.record))
        /\ ~area.hot => FlushedRows = rows
        /\ area.append => area.hot
        /\ area.hot => ~area.eof
    BY InvParts, SavedRows, FlushIs
  <1>2. FlushChanged \subseteq {x}
    <2>1. CASE ~area.hot
      BY <1>1, <2>1 DEF FlushChanged
    <2>2. CASE area.hot /\ ~area.append
      <3>1. DOMAIN FlushedRows = DOMAIN rows
        BY <1>1, <2>2
      <3>2. \A p \in DOMAIN rows : p # area.record.pk => FlushedRows[p] = rows[p]
        BY <1>1, <2>2
      <3> QED
        BY <2>2, <3>1, <3>2 DEF FlushChanged
    <2>3. CASE area.append
      <3>1. \A p \in DOMAIN FlushedRows : p \in DOMAIN rows => FlushedRows[p] = rows[p]
        BY <1>1, <2>3 DEF Inserted
      <3>2. DOMAIN FlushedRows = 1 .. NextRecno(rows) /\ NextRecno(rows) \in Nat
        BY <1>1, <2>3, TableNumbers DEF Inserted
      <3>3. \A p \in DOMAIN FlushedRows : p \in DOMAIN rows \/ p = NextRecno(rows)
        BY <1>1, <3>2, TableNumbers
      <3> QED
        BY <1>1, <2>3, <3>1, <3>3 DEF FlushChanged
    <2> QED
      BY <1>1, <2>1, <2>2, <2>3
  <1>3. \A p, q \in FlushChanged : p = q
    BY <1>2
  <1>4. ASSUME Cursor!IsPlace(Place)
        PROVE  FlushChanged \subseteq {Place.pk}
    <2>1. Place # Nowhere /\ Place # End
      BY <1>4, CursorTerms
    <2>2. ~Placeless(area) /\ ~area.eof /\ Place = At(area)
      BY <2>1, Places
    <2>3. ~area.append
      BY <2>2 DEF Placeless
    <2> QED
      BY <1>2, <2>2, <2>3 DEF At
  <1> QED
    BY <1>1, <1>3, <1>4 DEF Cursor!Saved

LEMMA FlushSaves ==
    ASSUME WorkInv, rows' = FlushedRows
    PROVE  /\ Cursor!Saves
           /\ Cursor!Untouched = Flushed.steady
  <1>1. Cursor!Untouched = Flushed.steady
    BY FlushIs, CursorTerms
  <1>2. Cursor!Changed = FlushChanged
    BY CursorTerms DEF FlushChanged
  <1> QED
    BY <1>1, <1>2, FlushChanges DEF Cursor!Saves

LEMMA RowPlaceIs ==
    ASSUME NEW t, NEW p, NEW o, NEW x
    PROVE  /\ Comes(o, "ASC", RowOf(t, p), x) <=> Precedes(o, RowPlace(t, p), x)
           /\ Comes(o, "ASC", x, RowOf(t, p)) <=> Precedes(o, x, RowPlace(t, p))
           /\ Comes(o, "DESC", RowOf(t, p), x) <=> Precedes(o, x, RowPlace(t, p))
           /\ Comes(o, "DESC", x, RowOf(t, p)) <=> Precedes(o, RowPlace(t, p), x)
  <1>1. /\ RowOf(t, p).pk = RowPlace(t, p).pk
        /\ RowOf(t, p).key = RowPlace(t, p).key
    BY DEF RowOf, RowPlace
  <1>2. "ASC" # "DESC"
    OBVIOUS
  <1> QED
    BY <1>1, <1>2 DEF Comes, Precedes

(* A movement: the flush, and then what it does on the rows that have it.  *)
LEMMA MoveTerms ==
    ASSUME WorkInv, rows' = FlushedRows
    PROVE  /\ \A x : x \in Cursor!ShownPlaces <=>
                 \E p \in ShownRows(Flushed, FlushedRows) : x = RowPlace(FlushedRows, p)
           /\ \A x : x \in Cursor!KnownPlaces <=>
                 \E p \in Known(Flushed, FlushedRows) : x = RowPlace(FlushedRows, p)
           /\ \A t : ShownRows(Flushed, t) = ShownRows(area, t)
  <1>1. \A t : ShownRows(Flushed, t) = ShownRows(area, t)
    BY FlushIs, SameShown
  <1>2. Cursor!Untouched = Flushed.steady
    BY FlushSaves
  <1>3. \A x : x \in Cursor!ShownPlaces <=>
                 \E p \in ShownRows(area, FlushedRows) : x = RowPlace(FlushedRows, p)
    BY CursorTerms
  <1>4. \A x : x \in Cursor!KnownPlaces <=>
                 \E p \in ShownRows(area, FlushedRows) :
                     x = RowPlace(FlushedRows, p) /\ p \in Flushed.steady
    BY <1>2, CursorTerms
  <1>5. \A p : p \in Known(Flushed, FlushedRows) <=>
                 p \in ShownRows(Flushed, FlushedRows) /\ p \in Flushed.steady
    BY DEF Known
  <1> QED
    BY <1>1, <1>3, <1>4, <1>5

LEMMA CursorArrives ==
    ASSUME WorkInv, rows' = FlushedRows, setDeleted' = setDeleted,
           area'.steady \in {Flushed.steady, DOMAIN FlushedRows}, area'.block = area.block,
           "key" \in area'.changed => "key" \in Flushed.changed /\ area'.bof
    PROVE  /\ Cursor!Arrives
           /\ area'.order = area.order => Cursor!Keeps
  <1>1. Cursor!Saves /\ Cursor!Untouched = Flushed.steady
    BY FlushSaves
  <1>2. Cursor!Refreshes
    BY <1>1 DEF Cursor!Refreshes
  <1>3. Flushed.changed = area.changed
    BY FlushIs
  <1>4. Cursor!Arrives
    BY <1>1, <1>2, <1>3 DEF Cursor!Arrives
  <1> QED
    BY <1>4 DEF Cursor!Keeps

(* The first and the last place of those that are shown.                   *)
LEMMA FirstPlace ==
    ASSUME WorkInv, rows' = FlushedRows, OnFirst(area', FlushedRows, "ASC"),
           ShownRows(area', FlushedRows) = ShownRows(area, FlushedRows)
    PROVE  Place' \in Cursor!Firsts(Cursor!ShownPlaces) /\ Cursor!ShownPlaces # {}
  <1> DEFINE e == area'
             t == FlushedRows
  <1>1. /\ OnRow(e) /\ e.record.pk \in ShownRows(e, t) /\ e.record.key = t[e.record.pk].key
        /\ \A p \in ShownRows(e, t) : ~Comes(e.order, "ASC", RowOf(t, p), At(e))
    BY DEF OnFirst
  <1>2. Place' = At(e) /\ Place' = RowPlace(t, e.record.pk)
    BY <1>1, Places DEF At, RowPlace
  <1>3. \A x : x \in Cursor!ShownPlaces <=> \E p \in ShownRows(e, t) : x = RowPlace(t, p)
    BY CursorTerms
  <1>4. Place' \in Cursor!ShownPlaces
    BY <1>1, <1>2, <1>3
  <1>5. \A y \in Cursor!ShownPlaces : ~Cursor!Before(y, Place')
    BY <1>1, <1>2, <1>3, CursorTerms, RowPlaceIs
  <1> QED
    BY <1>4, <1>5 DEF Cursor!Firsts

LEMMA LastPlace ==
    ASSUME WorkInv, rows' = FlushedRows, OnFirst(area', FlushedRows, "DESC"),
           ShownRows(area', FlushedRows) = ShownRows(area, FlushedRows)
    PROVE  Place' \in Cursor!Lasts(Cursor!ShownPlaces) /\ Cursor!ShownPlaces # {}
  <1> DEFINE e == area'
             t == FlushedRows
  <1>1. /\ OnRow(e) /\ e.record.pk \in ShownRows(e, t) /\ e.record.key = t[e.record.pk].key
        /\ \A p \in ShownRows(e, t) : ~Comes(e.order, "DESC", RowOf(t, p), At(e))
    BY DEF OnFirst
  <1>2. Place' = At(e) /\ Place' = RowPlace(t, e.record.pk)
    BY <1>1, Places DEF At, RowPlace
  <1>3. \A x : x \in Cursor!ShownPlaces <=> \E p \in ShownRows(e, t) : x = RowPlace(t, p)
    BY CursorTerms
  <1>4. Place' \in Cursor!ShownPlaces
    BY <1>1, <1>2, <1>3
  <1>5. \A y \in Cursor!ShownPlaces : ~Cursor!Before(Place', y)
    BY <1>1, <1>2, <1>3, CursorTerms, RowPlaceIs
  <1> QED
    BY <1>4, <1>5 DEF Cursor!Lasts

LEMMA NoPlaces ==
    ASSUME rows' = FlushedRows, NEW a, ShownRows(a, FlushedRows) = ShownRows(area, FlushedRows),
           NoneShown(a, FlushedRows)
    PROVE  Cursor!ShownPlaces = {}
  BY CursorTerms DEF NoneShown

(* GO TOP, and the opening of an index.                                    *)
LEMMA TopStep ==
    ASSUME WorkInv, rows' = FlushedRows, setDeleted' = setDeleted,
           NEW b \in Settled(FlushedRows), FilterShown(b), b.block = area.block,
           area.order > 0 => b.order > 0, area' = GoTopOf(b, FlushedRows)
    PROVE  (call' = <<"GO TOP">> => Cursor!Top) /\ PosInv'
  <1> DEFINE t == FlushedRows
             e == area'
  <1>1. setDeleted \in BOOLEAN /\ t \in Tables
    BY InvParts, SavedRows
  <1>2. /\ SameSettings(b, e) /\ e.steady = DOMAIN t
        /\ FirstShown(e, t, "ASC") \/ (Ended(e, t, "ASC") /\ NoneShown(e, t))
    <2> DEFINE c == GoTopOf(b, t)
    <2>1. /\ SameSettings(b, c) /\ c.steady = DOMAIN t
          /\ FirstShown(c, t, "ASC") \/ (Ended(c, t, "ASC") /\ NoneShown(c, t))
      BY <1>1, TopReached
    <2> HIDE DEF c
    <2>2. e = c
      BY DEF c
    <2> QED
      BY <2>1, <2>2
  <1>3. PosInv'
    <2>1. Positioned(e, t)
      BY <1>1, <1>2, FirstPositioned
    <2> QED
      BY <2>1 DEF PosInv
  <1>4. e.block = area.block /\ e.order = b.order /\ ShownRows(e, t) = ShownRows(area, t)
    BY <1>2 DEF SameSettings, ShownRows
  <1>5. /\ ~e.found /\ e.changed = {}
        /\ FirstShown(e, t, "ASC") => Stood(e, t, "ASC")
    BY <1>2 DEF FirstShown, Stood, Ended
  <1>6. Cursor!Arrives
    BY <1>2, <1>4, <1>5, CursorArrives
  <1>7. Place' \in IF Cursor!ShownPlaces = {} THEN {End} ELSE Cursor!Firsts(Cursor!ShownPlaces)
    <2>1. CASE FirstShown(e, t, "ASC")
      BY <1>1, <1>4, <2>1, FirstIsOnFirst, FirstPlace
    <2>2. CASE Ended(e, t, "ASC") /\ NoneShown(e, t)
      <3>1. Cursor!ShownPlaces = {}
        BY <1>4, <2>2, NoPlaces
      <3>2. e.eof /\ ~e.lost /\ e.record = BlankRecord /\ e \in Ready(t)
        BY <2>2 DEF Ended, OnWay
      <3>3. ~Placeless(e)
        BY <3>2, ReadyParts DEF Placeless
      <3>4. Place' = End
        BY <3>2, <3>3, Places
      <3> QED
        BY <3>1, <3>4
    <2> QED
      BY <1>2, <2>1, <2>2
  <1> HIDE DEF e
  <1>8. (area.order > 0) => (area'.order > 0)
    BY <1>4 DEF e
  <1>9. ~area'.found
    BY <1>5 DEF e
  <1>10. call' = <<"GO TOP">> => Cursor!Top
    BY <1>6, <1>7, <1>8, <1>9, Zenon DEF Cursor!Top
  <1> QED
    BY <1>3, <1>10, Zenon

(* What a movement begins with.                                            *)
LEMMA MoveBegins ==
    ASSUME WorkInv, PosInv
    PROVE  /\ FlushedRows \in Tables /\ setDeleted \in BOOLEAN
           /\ Flushed \in Ready(FlushedRows) /\ Flushed \in Settled(FlushedRows)
           /\ Positioned(Flushed, FlushedRows) /\ FilterShown(Flushed)
           /\ "key" \notin Flushed.changed => Flushed.keyValue = NoKey
           /\ Flushed.block = area.block /\ Flushed.order = area.order
           /\ Flushed.order \in Int /\ IsSpot(At(Flushed))
  <1>1. /\ FlushedRows \in Tables /\ setDeleted \in BOOLEAN /\ Flushed \in Ready(FlushedRows)
    BY InvParts, SavedRows, SavedReady
  <1>2. Positioned(Flushed, FlushedRows)
    BY FlushPositioned
  <1>3. /\ Flushed.block = area.block /\ Flushed.order = area.order
        /\ Flushed \in Settled(FlushedRows) /\ Flushed \in AreaType
    BY <1>1, FlushIs, ReadyParts DEF SameSettings
  <1>4. Flushed.order \in Int /\ IsSpot(At(Flushed))
    BY <1>3, AtTypes
  <1> QED
    BY <1>1, <1>2, <1>3, <1>4 DEF Positioned, WellMarked

LEMMA GoTopStep ==
    ASSUME WorkInv, PosInv, GoTop
    PROVE  (call' = <<"GO TOP">> => Cursor!Top) /\ PosInv'
  <1>1. rows' = FlushedRows /\ setDeleted' = setDeleted /\ area' = GoTopOf(Flushed, FlushedRows)
    BY DEF GoTop, Moves, Becomes
  <1> QED
    BY <1>1, MoveBegins, TopStep, Zenon

LEMMA OrderListAddStep ==
    ASSUME WorkInv, PosInv, OrderListAdd
    PROVE  (call' = <<"GO TOP">> => Cursor!Top) /\ PosInv'
  <1> DEFINE a == [Flushed EXCEPT !.orders = TRUE, !.order = 1]
             t == FlushedRows
  <1>1. rows' = t /\ setDeleted' = setDeleted /\ area' = GoTopOf(a, t)
    BY DEF OrderListAdd, Becomes
  <1>2. /\ Flushed \in AreaType /\ Noted(Flushed) /\ OfTable(Flushed, t) /\ ~Flushed.hot
    BY MoveBegins, ReadyParts
  <1>3. 1 \in Order
    BY WorkAreaAssumption DEF WorkAreaAssumption, Order
  <1>4. a \in AreaType
    BY <1>2, <1>3 DEF AreaType
  <1>5. /\ a.result = Flushed.result /\ a.steady = Flushed.steady
        /\ a.record = Flushed.record /\ a.hot = Flushed.hot /\ a.append = Flushed.append
        /\ a.changed = Flushed.changed /\ a.eof = Flushed.eof
        /\ a.limits = Flushed.limits /\ a.filter = Flushed.filter
        /\ a.commands = Flushed.commands /\ a.redo = Flushed.redo
        /\ a.block = Flushed.block /\ a.order = 1
    BY <1>2 DEF AreaType
  <1> HIDE DEF a
  <1>6. OfTable(a, t) /\ Noted(a)
    BY <1>2, <1>5 DEF OfTable, AsTheRow, Noted, QueryNoted
  <1>7. a \in Settled(t)
    BY <1>2, <1>4, <1>5, <1>6 DEF Settled, Areas
  <1>8. FilterShown(a) /\ a.block = area.block /\ a.order > 0
    BY <1>5, MoveBegins DEF FilterShown
  <1> QED
    BY <1>1, <1>7, <1>8, TopStep, Zenon

LEMMA GoBottomStep ==
    ASSUME WorkInv, PosInv, GoBottom
    PROVE  (call' = <<"GO BOTTOM">> => Cursor!Bottom) /\ PosInv'
  <1> DEFINE t == FlushedRows
             e == area'
             c == GoBottomOf(Flushed, t)
  <1>1. rows' = t /\ setDeleted' = setDeleted /\ area' = c
    BY DEF GoBottom, Moves, Becomes
  <1>2. /\ SameSettings(Flushed, c) /\ OnBottom(c, t) /\ Positioned(c, t)
        /\ "key" \in c.changed => "key" \in Flushed.changed /\ c.bof
    BY MoveBegins, BottomReached
  <1> HIDE DEF c
  <1>3. PosInv'
    BY <1>1, <1>2 DEF PosInv
  <1>4. e.block = area.block /\ e.order = area.order /\ ShownRows(e, t) = ShownRows(area, t)
    BY <1>1, <1>2, MoveBegins DEF SameSettings, ShownRows
  <1>5. /\ e.steady = DOMAIN t /\ ~e.found
        /\ FirstShown(e, t, "DESC") \/ (NoneShown(e, t) /\ e.lost)
    BY <1>1, <1>2 DEF OnBottom
  <1>6. Cursor!Keeps
    BY <1>1, <1>2, <1>4, <1>5, CursorArrives
  <1>7. Place' \in IF Cursor!ShownPlaces = {} THEN {End, Nowhere} ELSE Cursor!Lasts(Cursor!ShownPlaces)
    <2>1. CASE FirstShown(e, t, "DESC")
      BY <1>1, <1>4, <2>1, MoveBegins, FirstIsOnFirst, LastPlace
    <2>2. CASE NoneShown(e, t) /\ e.lost
      <3>1. Cursor!ShownPlaces = {}
        BY <1>1, <1>4, <2>2, NoPlaces
      <3>2. Place' = Nowhere
        BY <2>2, Places DEF Placeless
      <3> QED
        BY <3>1, <3>2
    <2> QED
      BY <1>5, <2>1, <2>2
  <1> HIDE DEF e
  <1>8. ~area'.found
    BY <1>5 DEF e
  <1>9. call' = <<"GO BOTTOM">> => Cursor!Bottom
    BY <1>6, <1>7, <1>8, Zenon DEF Cursor!Bottom
  <1> QED
    BY <1>3, <1>9, Zenon

(* The area between two calls and after the save.                          *)
LEMMA SavedPlace ==
    ASSUME WorkInv
    PROVE  /\ ~Placeless(area) => /\ Flushed.record = area.record /\ Flushed.lost = area.lost
                                  /\ Flushed.eof = area.eof
           /\ OnRow(area) => OnRow(Flushed) /\ At(Flushed) = Place /\ Cursor!IsPlace(Place)
           /\ Place = End => ~Placeless(area) /\ area.eof /\ Flushed.eof /\ ~Flushed.lost
           /\ Place = Nowhere \/ Place = End \/ OnRow(area)
  <1>1. /\ Flushed \in Ready(FlushedRows) /\ Flushed.eof = area.eof
        /\ ~area.append => Flushed.record = area.record /\ Flushed.lost = area.lost
    BY FlushIs
  <1>2. ~Flushed.append
    BY <1>1, ReadyParts
  <1>3. ~Placeless(area) => /\ Flushed.record = area.record /\ Flushed.lost = area.lost
                            /\ Flushed.eof = area.eof
    BY <1>1 DEF Placeless
  <1>4. OnRow(area) => Place = At(area) /\ ~Placeless(area)
    BY Places
  <1>5. ASSUME OnRow(area)
        PROVE  OnRow(Flushed) /\ At(Flushed) = Place
    BY <1>2, <1>3, <1>4, <1>5 DEF OnRow, At
  <1>6. ASSUME OnRow(area)
        PROVE  Cursor!IsPlace(Place)
    <2>1. Place = At(area) /\ area.record.pk # Blank /\ area \in AreaType
      BY <1>4, <1>6, InvParts DEF OnRow
    <2>2. area.record.pk \in 1 .. Blank
      BY <2>1, AtTypes
    <2>3. Place.pk # Blank + 1 /\ Place.pk # 0
      BY <2>1, <2>2, WorkAreaAssumption DEF At, WorkAreaAssumption, Blank
    <2> QED
      BY <2>3, CursorTerms DEF End, Nowhere
  <1>7. Place = End => ~OnRow(area) /\ Place # Nowhere
    BY <1>6, Places, CursorTerms
  <1>8. Place = End => ~Placeless(area) /\ area.eof
    BY <1>7, Places
  <1>9. Place = Nowhere \/ Place = End \/ OnRow(area)
    BY Places
  <1> QED
    BY <1>1, <1>3, <1>5, <1>6, <1>8, <1>9 DEF Placeless

(* On a row that is shown.                                                 *)
LEMMA StepPlace ==
    ASSUME WorkInv, rows' = FlushedRows, NEW sort \in {"ASC", "DESC"},
           Stood(area', FlushedRows, sort), ~IsHidden(area'), Renewed(Flushed, area', FlushedRows)
    PROVE  /\ Place' = At(area') /\ Cursor!IsPlace(Place') /\ Cursor!StandsShown(Place')
           /\ IsSpot(At(area')) /\ area'.order \in Int
  <1> DEFINE t == FlushedRows
             e == area'
  <1>1. t \in Tables /\ Flushed.steady \subseteq DOMAIN t
    BY FlushIs, ReadyParts DEF OfTable
  <1>2. /\ e \in Ready(t) /\ e.order \in Int /\ IsSpot(At(e)) /\ e.record.pk \in DOMAIN t
        /\ ~e.eof /\ ~e.lost
    BY <1>1, StoodParts DEF Stood
  <1>3. e.record.pk \in 1 .. MaxRecno
    BY <1>1, <1>2, RowTypes
  <1>4. e.record.pk # Blank /\ e.record.pk # 0 /\ e.record.pk # Blank + 1
    BY <1>3, WorkAreaAssumption DEF WorkAreaAssumption, Blank
  <1>5. OnRow(e)
    BY <1>2, <1>4, ReadyParts DEF OnRow
  <1>6. Place' = At(e)
    BY <1>5, Places
  <1>7. Cursor!IsPlace(Place')
    BY <1>4, <1>6, CursorTerms DEF At, End, Nowhere
  <1>8. ASSUME Place'.pk \in Cursor!Untouched
        PROVE  Place' \in Cursor!KnownPlaces
    <2>1. e.record.pk \in Flushed.steady
      BY <1>6, <1>8, FlushSaves DEF At
    <2>2. e.record.pk \in e.steady
      BY <1>1, <2>1 DEF Renewed
    <2>3. e.record.pk \in ShownRows(e, t) /\ e.record.key = t[e.record.pk].key
      BY <1>1, <2>2, StoodShown
    <2>4. e.record.pk \in Known(Flushed, t)
      BY <2>1, <2>3, SameShown DEF Known, Renewed
    <2>5. Place' = RowPlace(t, e.record.pk)
      BY <1>6, <2>3 DEF At, RowPlace
    <2> QED
      BY <2>4, <2>5, MoveTerms
  <1>9. Cursor!StandsShown(Place')
    BY <1>8 DEF Cursor!StandsShown
  <1> QED
    BY <1>2, <1>6, <1>7, <1>9

LEMMA SkipDownStep ==
    ASSUME WorkInv, PosInv, Skip("ASC"), call' = <<"SKIP", "ASC">>
    PROVE  Cursor!Forward /\ PosInv'
  <1> DEFINE t == FlushedRows
             e == area'
             f == SkipOf(Flushed, t, "ASC")
  <1>1. rows' = t /\ setDeleted' = setDeleted /\ e = f
    BY DEF Skip, Moves, Becomes
  <1>2. /\ Renewed(Flushed, f, t) /\ Positioned(f, t) /\ ~f.bof /\ "key" \notin f.changed
        /\ Flushed.eof => f.eof /\ f.lost = Flushed.lost
        /\ OnRow(Flushed) => /\ Passed(f, t, "ASC", At(Flushed), Known(Flushed, t))
                             /\ Stood(f, t, "ASC") => ~IsHidden(f)
    BY MoveBegins, SkipsDown
  <1>3. f \in Ready(t)
    BY MoveBegins, SkipReady
  <1> HIDE DEF f
  <1>4. PosInv'
    BY <1>1, <1>2 DEF PosInv
  <1>5. e.block = area.block /\ e.order = area.order /\ e.order = Flushed.order /\ ~e.append
    BY <1>1, <1>2, <1>3, MoveBegins, ReadyParts DEF Renewed, SameSettings
  <1>6. Cursor!Keeps
    BY <1>1, <1>2, <1>5, CursorArrives DEF Renewed
  <1>7. ASSUME Place = End
        PROVE  Place' = End
    BY <1>1, <1>2, <1>5, <1>7, SavedPlace, Places DEF Placeless
  <1>8. ASSUME OnRow(area)
        PROVE  LET after == {x \in Cursor!KnownPlaces : Cursor!Before(Place, x)}
               IN  \/ /\ Place' = End
                      /\ after = {}
                   \/ /\ Cursor!IsPlace(Place')
                      /\ Cursor!Before(Place, Place')
                      /\ \A x \in after : ~Cursor!Before(x, Place')
                      /\ Cursor!StandsShown(Place')
    <2>1. Place = At(Flushed) /\ OnRow(Flushed)
      BY <1>8, SavedPlace
    <2>2. CASE Stood(e, t, "ASC")
      <3>1. /\ Place' = At(e) /\ Cursor!IsPlace(Place') /\ Cursor!StandsShown(Place')
            /\ IsSpot(At(e)) /\ e.order \in Int
        BY <1>1, <1>2, <2>1, <2>2, StepPlace
      <3>2. /\ Comes(e.order, "ASC", Place, Place')
            /\ \A p \in Known(Flushed, t) : Comes(e.order, "ASC", Place, RowOf(t, p)) =>
                  ~Comes(e.order, "ASC", RowOf(t, p), Place')
        BY <1>1, <1>2, <2>1, <2>2, <3>1 DEF Passed, Stood, Ended
      <3>3. Cursor!Before(Place, Place')
        BY <3>2, CursorTerms DEF Comes
      <3>4. \A x \in Cursor!KnownPlaces : Cursor!Before(Place, x) => ~Cursor!Before(x, Place')
        BY <1>1, <3>2, MoveTerms, CursorTerms, RowPlaceIs
      <3> QED
        BY <3>1, <3>3, <3>4
    <2>3. CASE Ended(e, t, "ASC") /\ \A p \in Known(Flushed, t) : ~Comes(e.order, "ASC", Place, RowOf(t, p))
      <3>1. e.eof /\ ~e.lost
        BY <2>3 DEF Ended
      <3>2. Place' = End
        BY <1>5, <3>1, Places DEF Placeless
      <3>3. \A x \in Cursor!KnownPlaces : ~Cursor!Before(Place, x)
        BY <1>1, <2>3, MoveTerms, CursorTerms, RowPlaceIs
      <3> QED
        BY <3>2, <3>3
    <2> QED
      BY <1>1, <1>2, <2>1, <2>2, <2>3 DEF Passed
  <1> HIDE DEF e
  <1>9. ~area'.bof
    BY <1>1, <1>2 DEF e
  <1>10. Place = End \/ OnRow(area) => Place # Nowhere
    BY SavedPlace, Places, CursorTerms
  <1>11. Cursor!IsPlace(Place) => OnRow(area)
    BY SavedPlace, CursorTerms
  <1>12. OnRow(area) => Cursor!IsPlace(Place)
    BY SavedPlace
  <1>13. Cursor!IsPlace(Place) <=> Place # End /\ Place # Nowhere
    BY CursorTerms
  <1> QED
    BY <1>4, <1>6, <1>7, <1>8, <1>9, <1>10, <1>11, <1>12, <1>13 DEF Cursor!Forward

LEMMA SkipUpStep ==
    ASSUME WorkInv, PosInv, Skip("DESC"), call' = <<"SKIP", "DESC">>
    PROVE  Cursor!Backward /\ PosInv'
  <1> DEFINE t == FlushedRows
             e == area'
             f == SkipOf(Flushed, t, "DESC")
  <1>1. rows' = t /\ setDeleted' = setDeleted /\ e = f
    BY DEF Skip, Moves, Becomes
  <1>2. /\ Renewed(Flushed, f, t) /\ Positioned(f, t)
        /\ "key" \in f.changed => "key" \in Flushed.changed /\ f.bof
        /\ OnRow(Flushed) => StepsUp(Flushed, f, t)
        /\ Flushed.eof /\ ~Flushed.lost => FromEnd(f, t)
    BY MoveBegins, SkipsUp
  <1> HIDE DEF f
  <1>3. PosInv'
    BY <1>1, <1>2 DEF PosInv
  <1>4. /\ e.block = area.block /\ e.order = area.order /\ e.order = Flushed.order
        /\ ShownRows(e, t) = ShownRows(area, t)
    BY <1>1, <1>2, MoveBegins DEF Renewed, SameSettings, ShownRows
  <1>5. Cursor!Keeps
    BY <1>1, <1>2, <1>4, CursorArrives DEF Renewed
  <1>6. NoneShown(e, t) /\ Placeless(e) => Cursor!ShownPlaces = {} /\ Place' = Nowhere
    BY <1>1, <1>4, NoPlaces, Places
  <1>7. ASSUME Place = End
        PROVE  Place' \in IF Cursor!ShownPlaces = {} THEN {End, Nowhere} ELSE Cursor!Lasts(Cursor!ShownPlaces)
    <2>1. OnFirst(e, t, "DESC") \/ (NoneShown(e, t) /\ Placeless(e))
      BY <1>1, <1>2, <1>7, SavedPlace DEF FromEnd
    <2> QED
      BY <1>1, <1>4, <1>6, <2>1, LastPlace
  <1>8. ASSUME OnRow(area)
        PROVE  LET before == {x \in Cursor!KnownPlaces : Cursor!Before(x, Place)}
               IN  \/ /\ e.bof
                      /\ area.bof \/ before = {}
                      /\ \/ Place' = Place
                         \/ Place' \in Cursor!Firsts(Cursor!ShownPlaces)
                         \/ Place' = Nowhere /\ Cursor!ShownPlaces = {}
                   \/ /\ ~e.bof
                      /\ Cursor!IsPlace(Place')
                      /\ Cursor!Before(Place', Place)
                      /\ \A x \in before : ~Cursor!Before(Place', x)
                      /\ Cursor!StandsShown(Place')
    <2>1. Place = At(Flushed) /\ OnRow(Flushed) /\ Flushed.bof = area.bof
      BY <1>8, SavedPlace, FlushIs
    <2>2. StepsUp(Flushed, e, t)
      BY <1>1, <1>2, <2>1
    <2>3. CASE Stood(e, t, "DESC") /\ ~IsHidden(e) /\ Passed(e, t, "DESC", At(Flushed), Known(Flushed, t))
      <3>1. /\ Place' = At(e) /\ Cursor!IsPlace(Place') /\ Cursor!StandsShown(Place')
            /\ IsSpot(At(e)) /\ e.order \in Int
        BY <1>1, <1>2, <2>3, StepPlace
      <3>2. /\ Comes(e.order, "DESC", Place, Place')
            /\ \A p \in Known(Flushed, t) : Comes(e.order, "DESC", Place, RowOf(t, p)) =>
                  ~Comes(e.order, "DESC", RowOf(t, p), Place')
        BY <2>1, <2>3, <3>1 DEF Passed, Stood, Ended
      <3>3. Cursor!Before(Place', Place)
        BY <3>2, CursorTerms DEF Comes
      <3>4. \A x \in Cursor!KnownPlaces : Cursor!Before(x, Place) => ~Cursor!Before(Place', x)
        BY <1>1, <3>2, MoveTerms, CursorTerms, RowPlaceIs
      <3>5. ~e.bof
        BY <2>3 DEF Stood
      <3> QED
        BY <3>1, <3>3, <3>4, <3>5
    <2>4. CASE /\ e.bof
               /\ area.bof \/ Barred(Flushed, t)
               /\ \/ OnRow(e) /\ At(e) = At(Flushed)
                  \/ OnFirst(e, t, "ASC")
                  \/ NoneShown(e, t) /\ Placeless(e)
      <3>1. Barred(Flushed, t) => \A x \in Cursor!KnownPlaces : ~Cursor!Before(x, Place)
        BY <1>1, <1>4, <2>1, MoveTerms, CursorTerms, RowPlaceIs DEF Barred
      <3>2. \/ Place' = Place
            \/ Place' \in Cursor!Firsts(Cursor!ShownPlaces)
            \/ Place' = Nowhere /\ Cursor!ShownPlaces = {}
        BY <1>1, <1>4, <1>6, <2>1, <2>4, FirstPlace, Places
      <3> QED
        BY <2>4, <3>1, <3>2
    <2> QED
      BY <2>1, <2>2, <2>3, <2>4 DEF StepsUp
  <1> HIDE DEF e
  <1>9. OnRow(area) <=> Cursor!IsPlace(Place)
    BY SavedPlace, CursorTerms
  <1>10. Cursor!IsPlace(Place) <=> Place # End /\ Place # Nowhere
    BY CursorTerms
  <1>11. End # Nowhere
    BY Places
  <1> QED
    BY <1>3, <1>5, <1>7, <1>8, <1>9, <1>10, <1>11 DEF e, Cursor!Backward

LEMMA SeekStep ==
    ASSUME WorkInv, PosInv, NEW k \in 1 .. MaxKey, NEW soft \in BOOLEAN, NEW last \in BOOLEAN,
           ~(soft /\ last), Seek(k, soft, last), call' = <<"SEEK", k, soft, last>>
    PROVE  Cursor!Seek(k, soft, last) /\ PosInv'
  <1> DEFINE t == FlushedRows
             e == area'
             f == SeekOf(Flushed, t, k, soft, last)
             sort == IF last THEN "DESC" ELSE "ASC"
             S == {x \in Cursor!ShownPlaces : x.key = k \/ (soft /\ x.key > k)}
  <1>1. rows' = t /\ setDeleted' = setDeleted /\ e = f /\ area.order > 0
    BY DEF Seek, Moves, Becomes
  <1>2. k \in Int /\ Flushed.order > 0
    BY <1>1, MoveBegins, WorkAreaAssumption DEF WorkAreaAssumption
  <1>3. SeekDone(Flushed, f, t, sort, k, soft)
    BY <1>2, MoveBegins, SeekReached
  <1> HIDE DEF f
  <1>4. /\ SameSettings(Flushed, e) /\ e.steady = DOMAIN t /\ Positioned(e, t)
        /\ "key" \in e.changed => "key" \in Flushed.changed /\ e.bof
        /\ SeekEnds(e, t, sort, k, soft)
    BY <1>1, <1>3 DEF SeekDone
  <1>5. PosInv'
    BY <1>1, <1>4 DEF PosInv
  <1>6. /\ e.block = area.block /\ e.order = area.order
        /\ ShownRows(e, t) = ShownRows(area, t)
    BY <1>4, MoveBegins DEF SameSettings, ShownRows
  <1>7. Cursor!Keeps
    BY <1>1, <1>4, <1>6, CursorArrives
  <1>8. \A x : x \in S <=> \E p \in Sought(e, t, k, soft) : x = RowPlace(t, p)
    <2>1. \A x : x \in Cursor!ShownPlaces <=> \E p \in ShownRows(e, t) : x = RowPlace(t, p)
      BY <1>1, <1>6, CursorTerms
    <2>2. \A p : RowPlace(t, p).key = t[p].key
      BY DEF RowPlace
    <2> QED
      BY <2>1, <2>2 DEF Sought
  <1> HIDE DEF S
  <1>9. /\ area'.found = (S # {})
        /\ Place' \in IF S = {} THEN {End, Nowhere} ELSE IF last THEN Cursor!Lasts(S) ELSE Cursor!Firsts(S)
    <2>1. CASE ~e.found /\ ~OnRow(e) /\ Sought(e, t, k, soft) = {}
      <3>1. S = {}
        BY <1>8, <2>1
      <3>2. Place' = End \/ Place' = Nowhere
        BY <2>1, Places
      <3>3. e.found = FALSE
        <4>1. e \in AreaType
          <5>1. f \in Ready(t)
            BY MoveBegins, SeekReady DEF f
          <5> QED
            BY <1>1, <5>1, ReadyParts
        <4> QED
          BY <2>1, <4>1, AreaParts
      <3> QED
        BY <3>1, <3>2, <3>3
    <2>2. CASE /\ e.found /\ OnRow(e)
               /\ e.record.pk \in Sought(e, t, k, soft) /\ e.record.key = t[e.record.pk].key
               /\ \A p \in Sought(e, t, k, soft) : ~Comes(e.order, sort, RowOf(t, p), At(e))
      <3>1. Place' = At(e) /\ Place' = RowPlace(t, e.record.pk)
        BY <2>2, Places DEF At, RowPlace
      <3>2. Place' \in S
        BY <1>8, <2>2, <3>1
      <3>3. ~last => \A y \in S : ~Cursor!Before(y, Place')
        BY <1>8, <2>2, <3>1, CursorTerms, RowPlaceIs
      <3>4. last => \A y \in S : ~Cursor!Before(Place', y)
        BY <1>8, <2>2, <3>1, CursorTerms, RowPlaceIs
      <3>5. e.found = TRUE
        <4>1. f \in Ready(t)
          BY MoveBegins, SeekReady DEF f
        <4>2. e \in AreaType
          BY <1>1, <4>1, ReadyParts
        <4> QED
          BY <2>2, <4>2, AreaParts
      <3> QED
        BY <3>2, <3>3, <3>4, <3>5 DEF Cursor!Firsts, Cursor!Lasts
    <2> QED
      BY <1>4, <2>1, <2>2 DEF SeekEnds
  <1> HIDE DEF e
  <1>10. Cursor!Seek(k, soft, last)
    BY <1>1, <1>7, <1>9 DEF S, Cursor!Seek
  <1> QED
    BY <1>5, <1>10

LEMMA GoToStep ==
    ASSUME WorkInv, PosInv, NEW n \in 0 .. MaxRecno, GoTo(n), call' = <<"GOTO", n>>
    PROVE  /\ IF n = 0 THEN Cursor!GoToNone ELSE n \in DOMAIN rows /\ Cursor!GoTo(n)
           /\ PosInv'
  <1> DEFINE t == FlushedRows
             e == area'
             b == FetchNextRecord(QueryNumber(ResetFlags(Flushed), t, n), t, "ASC")
             c == GoToNone(Flushed)
  <1>1. rows' = t /\ setDeleted' = setDeleted /\ e = GoToOf(Flushed, t, n) /\ n \in DOMAIN rows \cup {0}
    BY DEF GoTo, Moves, Becomes
  <1>2. CASE n = 0
    <2>1. e = c
      BY <1>1, <1>2 DEF GoToOf
    <2>2. /\ OnNone(c) /\ SameWay(Flushed, c) /\ SameSettings(Flushed, c)
          /\ ~c.append /\ Positioned(c, t)
      BY MoveBegins, GoToNoneIs DEF Positioned
    <2> HIDE DEF c
    <2>3. PosInv'
      BY <1>1, <2>1, <2>2 DEF PosInv
    <2>4. /\ e.block = area.block /\ e.order = area.order /\ e.steady = Flushed.steady
          /\ e.changed = {} /\ ~OnRow(e)
      BY <2>1, <2>2, MoveBegins DEF SameSettings, SameWay, OnNone, OnRow
    <2>5. Cursor!Keeps
      BY <1>1, <2>4, CursorArrives
    <2>6. Place' \in {End, Nowhere}
      BY <2>4, Places
    <2> QED
      BY <1>2, <2>3, <2>5, <2>6 DEF Cursor!GoToNone
  <1>3. CASE n # 0
    <2>1. e = b /\ n \in DOMAIN rows /\ n \in DOMAIN t
      BY <1>1, <1>3, FlushIs DEF GoToOf
    <2>2. /\ SameSettings(Flushed, b) /\ b.steady = DOMAIN t /\ Positioned(b, t)
          /\ b.changed = {} /\ OnRow(b) /\ b.record.pk = n /\ b.record.key = t[n].key
      BY <2>1, MoveBegins, GoToReached
    <2> HIDE DEF b
    <2>3. PosInv'
      BY <1>1, <2>1, <2>2 DEF PosInv
    <2>4. e.block = area.block /\ e.order = area.order
      BY <2>1, <2>2, MoveBegins DEF SameSettings
    <2>5. Cursor!Keeps
      BY <1>1, <2>1, <2>2, <2>4, CursorArrives
    <2>6. Place' = At(e)
      BY <2>1, <2>2, Places
    <2>7. Place' = Cursor!PlaceOf(t, n)
      BY <2>1, <2>2, <2>6, CursorTerms DEF At, RowPlace
    <2> QED
      BY <1>1, <1>3, <2>1, <2>3, <2>5, <2>7 DEF Cursor!GoTo
  <1> QED
    BY <1>2, <1>3

-----------------------------------------------------------------------------
(* The other calls.                                                        *)

(* A step that makes no query.                                             *)
SameQueryAndSettings(a, b) ==
    /\ SameSettings(a, b)
    /\ b.current = a.current /\ b.commands = a.commands
    /\ b.result = a.result /\ b.fetched = a.fetched

LEMMA AppendStep ==
    ASSUME WorkInv, PosInv, Append, call' = <<"APPEND">>
    PROVE  Cursor!Append /\ PosInv'
  <1> DEFINE t == FlushedRows
             n == NextRecno(t)
             f == ResetFlags(Flushed)
             rec == [BlankRecord EXCEPT !.locked = TRUE]
             w == WithRecord(f, rec)
             a == [w EXCEPT !.hot = TRUE, !.append = TRUE, !.unpositioned = TRUE]
             row == FlushedRow(BlankRecord)
             now == [rec EXCEPT !.pk = n]
             b == [a EXCEPT !.hot = FALSE, !.append = FALSE, !.record = now, !.lost = FALSE]
  <1>1. /\ t \in Tables /\ Flushed \in Ready(t) /\ Flushed \in AreaType
        /\ Flushed.steady \subseteq DOMAIN t
        /\ Positioned(Flushed, t) /\ SameSettings(area, Flushed)
    BY MoveBegins, FlushIs, ReadyParts DEF OfTable
  <1>2. n <= MaxRecno /\ setDeleted' = setDeleted
    BY DEF Append, Becomes
  <1>3. IF area.immediate
        THEN rows' = Inserted(t, row) /\ area' = [a EXCEPT !.hot = FALSE, !.append = FALSE,
                                                           !.record.pk = n, !.lost = FALSE]
        ELSE rows' = t /\ area' = a
    BY DEF Append, Becomes
  <1>4. f \in Ready(t) /\ f \in AreaType
    BY <1>1, FlagsReset, ReadyParts
  <1>5. /\ f.order = Flushed.order /\ f.filter = Flushed.filter /\ f.block = Flushed.block
        /\ f.limits = Flushed.limits /\ f.exact = Flushed.exact /\ f.immediate = Flushed.immediate
        /\ f.current = Flushed.current /\ f.commands = Flushed.commands
        /\ f.result = Flushed.result /\ f.fetched = Flushed.fetched /\ f.steady = Flushed.steady
        /\ ~f.eof
    BY <1>1 DEF AreaType, ResetFlags
  <1>6. rec \in Record /\ rec.key = 0 /\ row \in Row /\ row.key = 0
    BY BlankIsRecord DEF Record, FlushedRow, Row, BlankRecord
  <1>7. n \in Nat /\ n >= 1 /\ n \in 1 .. Blank
    BY <1>1, <1>2, TableNumbers, WorkAreaAssumption DEF WorkAreaAssumption, Blank
  <1>8. now \in Record /\ now.pk = n /\ now.key = 0
    BY <1>6, <1>7 DEF Record
  <1> HIDE DEF t, n, f, rec, row, now
  <1>9. a \in AreaType
    BY <1>4, <1>6 DEF AreaType, WithRecord
  <1>10. /\ a.order = f.order /\ a.filter = f.filter /\ a.block = f.block
         /\ a.limits = f.limits /\ a.exact = f.exact /\ a.immediate = f.immediate
         /\ a.current = f.current /\ a.commands = f.commands
         /\ a.result = f.result /\ a.fetched = f.fetched /\ a.steady = f.steady
         /\ a.eof = f.eof /\ a.record = rec /\ a.changed = {} /\ a.keyValue = NoKey
         /\ a.append = TRUE /\ a.unpositioned = TRUE
    BY <1>4 DEF AreaType, WithRecord
  <1>11. /\ b.order = a.order /\ b.filter = a.filter /\ b.block = a.block
         /\ b.limits = a.limits /\ b.exact = a.exact /\ b.immediate = a.immediate
         /\ b.current = a.current /\ b.commands = a.commands
         /\ b.result = a.result /\ b.fetched = a.fetched /\ b.steady = a.steady
         /\ b.eof = a.eof /\ b.record = now /\ b.changed = a.changed /\ b.keyValue = a.keyValue
         /\ b.append = FALSE /\ b.unpositioned = a.unpositioned /\ b.lost = FALSE
    BY <1>9 DEF AreaType
  <1>12. area' = IF area.immediate THEN b ELSE a
    BY <1>3, <1>9, <1>10, ZenonT(30) DEF now, AreaType
  <1>13. rows' = IF area.immediate THEN Inserted(t, row) ELSE t
    BY <1>3
  <1> HIDE DEF a, b
  <1>14. /\ SameQueryAndSettings(Flushed, area') /\ area'.steady = Flushed.steady
         /\ area'.changed = {} /\ area'.keyValue = NoKey /\ ~area'.eof /\ area'.unpositioned
         /\ area'.append <=> ~area.immediate
    <2>1. CASE area.immediate
      <3>1. area' = b
        BY <1>12, <2>1
      <3> QED
        BY <1>5, <1>10, <1>11, <2>1, <3>1 DEF SameQueryAndSettings, SameSettings
    <2>2. CASE ~area.immediate
      <3>1. area' = a
        BY <1>12, <2>2
      <3> QED
        BY <1>5, <1>10, <2>2, <3>1 DEF SameQueryAndSettings, SameSettings
    <2> QED
      BY <2>1, <2>2
  <1>15. /\ DOMAIN t \subseteq DOMAIN rows'
         /\ \A p \in DOMAIN t : rows'[p] = t[p]
         /\ area.immediate => DOMAIN rows' = DOMAIN t \cup {n} /\ n \notin DOMAIN t /\ rows'[n] = row
    <2>1. /\ DOMAIN Inserted(t, row) = DOMAIN t \cup {n} /\ n \notin DOMAIN t
          /\ Inserted(t, row)[n] = row
          /\ \A p \in DOMAIN t : Inserted(t, row)[p] = t[p]
      BY <1>1, <1>2, <1>6, InsertedTable DEF n
    <2>2. CASE area.immediate
      <3>1. rows' = Inserted(t, row)
        BY <1>13, <2>2
      <3> QED
        BY <2>1, <3>1
    <2>3. CASE ~area.immediate
      BY <1>13, <2>3
    <2> QED
      BY <2>2, <2>3
  <1>16. PosInv'
    <2>1. area'.steady = {p \in Flushed.steady : rows'[p] = t[p]}
      BY <1>1, <1>14, <1>15
    <2>2. StillSteady(Flushed, t, area', rows')
      BY <1>14, <1>15, <2>1 DEF StillSteady, SameQueryAndSettings
    <2>3. Primed(area', rows')
      BY <1>1, <2>2, SteadyCovers DEF Positioned
    <2>4. area'.immediate = area.immediate /\ FilterShown(area')
      BY <1>1, <1>14 DEF SameQueryAndSettings, SameSettings, FilterShown, Positioned, WellMarked
    <2>5. WellMarked(area')
      BY <1>14, <2>4 DEF WellMarked
    <2>6. ~Stands(area')
      BY <1>14 DEF Stands
    <2>7. Positioned(area', rows')
      BY <2>3, <2>5, <2>6, NowherePositioned
    <2> QED
      BY <2>7 DEF PosInv
  <1>17. /\ area'.block = area.block /\ area'.order = area.order
         /\ "key" \notin area'.changed
    BY <1>1, <1>14 DEF SameQueryAndSettings, SameSettings
  <1>18. Cursor!Untouched = area'.steady
    <2>1. /\ Flushed.steady = {p \in area.steady : t[p] = rows[p]}
          /\ area.steady \subseteq DOMAIN t
      BY FlushIs DEF t
    <2>2. \A p \in area.steady : rows'[p] = t[p]
      BY <1>15, <2>1
    <2> QED
      BY <1>14, <2>1, <2>2, CursorTerms
  <1>19. CASE ~area.immediate
    <2>1. rows' = FlushedRows
      BY <1>3, <1>19 DEF t
    <2>2. Cursor!Saves
      BY <2>1, FlushSaves
    <2>3. Place' = Nowhere
      BY <1>14, <1>19, Places DEF Placeless
    <2> QED
      BY <1>2, <1>16, <1>17, <1>18, <2>2, <2>3 DEF Cursor!Append, Cursor!settings
  <1>20. CASE area.immediate
    <2>1. ~area.append
      BY <1>20 DEF PosInv, Positioned, WellMarked
    <2>2. DOMAIN t = DOMAIN rows
      BY <2>1, SavedRows, InvParts DEF t
    <2>3. DOMAIN rows' = DOMAIN rows \cup {n} /\ n \in DOMAIN rows' \ DOMAIN rows
      BY <1>15, <1>20, <2>2
    <2>4. /\ area'.record.pk = n /\ area'.record.key = 0 /\ ~area'.lost /\ ~area'.append /\ ~area'.eof
      BY <1>8, <1>11, <1>12, <1>14, <1>20
    <2>5. n # Blank
      BY <1>2, <1>7, WorkAreaAssumption DEF WorkAreaAssumption, Blank
    <2>6. Place' = At(area')
      BY <2>4, <2>5, Places DEF Placeless
    <2>7. Place' = RowPlace(rows', n)
      BY <1>6, <1>15, <1>20, <2>4, <2>6 DEF At, RowPlace
    <2>8. Cursor!Changed \ {n} = FlushChanged
      <3>1. \A p : p \in Cursor!Changed <=> p \in DOMAIN rows' /\ (p \notin DOMAIN rows \/ rows'[p] # rows[p])
        BY CursorTerms
      <3>2. \A p : p \in FlushChanged <=> p \in DOMAIN rows /\ t[p] # rows[p]
        BY <2>2 DEF FlushChanged, t
      <3> QED
        BY <1>15, <2>2, <2>3, <3>1, <3>2
    <2>9. \E p \in DOMAIN rows' \ DOMAIN rows : /\ DOMAIN rows' = DOMAIN rows \cup {p}
                                              /\ Cursor!Saved(Cursor!Changed \ {p})
                                              /\ Place' = Cursor!PlaceOf(rows', p)
      BY <2>3, <2>7, <2>8, FlushChanges, CursorTerms
    <2> QED
      BY <1>2, <1>16, <1>17, <1>18, <2>9 DEF Cursor!Append, Cursor!settings
  <1> QED
    BY <1>19, <1>20

(* A step after which the result set goes on from the same place, or from  *)
(* another key there when the order of the result set has no key.          *)
LEMMA StaysPositioned ==
    ASSUME NEW a, NEW t, Positioned(a, t), a.steady \subseteq DOMAIN t, NEW b, NEW u,
           StillSteady(a, t, b, u), WellMarked(b),
           Stands(b) => /\ Stands(a)
                        /\ Stand(b).pk = Stand(a).pk
                        /\ Stand(b).key = Stand(a).key \/ CurrentStatement(a).order = 0
    PROVE  Positioned(b, u)
  <1>1. /\ Primed(b, u)
        /\ \A g : Covers(a, t, g) => Covers(b, u, g)
        /\ \A g : Ahead(a, g) => Ahead(b, g)
    BY SteadyCovers DEF Positioned
  <1>2. ASSUME Stands(b)
        PROVE  Covers(b, u, Stand(b)) /\ Ahead(b, Stand(b))
    <2>1. /\ Stands(a) /\ Covers(a, t, Stand(a)) /\ Ahead(a, Stand(a))
          /\ Primed(a, t) /\ a.current \in QueryCommand
      BY <1>2 DEF Positioned, Stands
    <2>2. CASE CurrentStatement(a).order = 0
      <3>1. Covers(a, t, Stand(b)) /\ Ahead(a, Stand(b))
        BY <1>2, <2>1, <2>2, KeyIgnored
      <3> QED
        BY <1>1, <3>1
    <2>3. CASE Stand(b).key = Stand(a).key
      <3>1. Stand(b).pk = Stand(a).pk
        BY <1>2
      <3>2. Covers(a, t, Stand(b)) /\ Ahead(a, Stand(b))
        BY <2>1, <2>3, <3>1, SpotCovers
      <3> QED
        BY <1>1, <3>2
    <2> QED
      BY <1>2, <2>2, <2>3
  <1> QED
    BY <1>1, <1>2 DEF Positioned

(* The marks that say where the program stands.                            *)
SameMarks(a, b) ==
    /\ b.append = a.append /\ b.lost = a.lost /\ b.eof = a.eof /\ b.bof = a.bof
    /\ b.unpositioned = a.unpositioned /\ b.immediate = a.immediate

LEMMA MarksKept ==
    ASSUME NEW a, NEW t, Positioned(a, t), a.steady \subseteq DOMAIN t, NEW b, NEW u,
           StillSteady(a, t, b, u), SameMarks(a, b), b.order = a.order, FilterShown(b),
           b.record = a.record, b.keyValue = a.keyValue, b.changed = a.changed
    PROVE  Positioned(b, u)
  <1>1. CurrentStatement(b) = CurrentStatement(a) /\ b.current = a.current
    BY SteadyCovers DEF StillSteady
  <1>2. WellMarked(b)
    BY <1>1 DEF Positioned, WellMarked, SameMarks
  <1>3. Stands(b) => Stands(a)
    BY <1>1 DEF Stands, SameMarks
  <1>4. Stand(b) = Stand(a)
    BY DEF Stand
  <1> QED
    BY <1>2, <1>3, <1>4, StaysPositioned

LEMMA RowsAsTheyWere ==
    ASSUME rows' = rows, area.steady \subseteq DOMAIN rows
    PROVE  Cursor!Untouched = area.steady /\ Cursor!Saves
  <1>1. Cursor!Untouched = area.steady
    BY CursorTerms
  <1>2. Cursor!Changed = {}
    BY CursorTerms
  <1> QED
    BY <1>1, <1>2 DEF Cursor!Saves, Cursor!Saved

(* The place after a save.                                                 *)
LEMMA FlushedPlace ==
    ASSUME WorkInv, rows' = FlushedRows
    PROVE  LET p == PlaceIn(Flushed)
           IN  \/ p = Place
               \/ Place = Nowhere /\ Cursor!IsPlace(p) /\ Cursor!Changed = {p.pk}
  <1>1. /\ Flushed \in Ready(FlushedRows) /\ Flushed.eof = area.eof
        /\ ~area.append => Flushed.record = area.record /\ Flushed.lost = area.lost
        /\ area.append => Flushed.record.pk = NextRecno(rows) /\ ~Flushed.lost
        /\ area.append => area.hot
        /\ area.hot => ~area.eof
    BY FlushIs
  <1>2. ~Flushed.append
    BY <1>1, ReadyParts
  <1>3. CASE ~area.append
    <2>1. PlaceIn(Flushed) = PlaceIn(area)
      BY <1>1, <1>2, <1>3 DEF PlaceIn, Placeless
    <2> QED
      BY <2>1, Places
  <1>4. CASE area.append
    <2>1. Place = Nowhere
      BY <1>4, Places DEF Placeless
    <2>2. /\ rows \in Tables /\ NextRecno(rows) <= MaxRecno
          /\ FlushedRows = Inserted(rows, FlushedRow(area.record))
          /\ FlushedRow(area.record) \in Row
      BY <1>1, <1>4, InvParts, SavedRows
    <2>3. /\ DOMAIN FlushedRows = DOMAIN rows \cup {NextRecno(rows)}
          /\ NextRecno(rows) \notin DOMAIN rows
          /\ \A p \in DOMAIN rows : FlushedRows[p] = rows[p]
      BY <2>2, InsertedTable
    <2>4. Cursor!Changed = {NextRecno(rows)}
      BY <2>3, CursorTerms
    <2>5. NextRecno(rows) \in Nat /\ 1 <= NextRecno(rows)
      BY <2>2, TableNumbers
    <2>6. NextRecno(rows) # Blank /\ NextRecno(rows) # Blank + 1 /\ NextRecno(rows) # 0
      BY <2>2, <2>5, WorkAreaAssumption DEF WorkAreaAssumption, Blank
    <2>7. ~Placeless(Flushed) /\ ~Flushed.eof
      BY <1>1, <1>2, <1>4, <2>6 DEF Placeless
    <2>8. PlaceIn(Flushed) = At(Flushed)
      BY <2>7, Places
    <2>9. PlaceIn(Flushed).pk = NextRecno(rows)
      BY <1>1, <1>4, <2>8 DEF At
    <2>10. Cursor!IsPlace(PlaceIn(Flushed))
      BY <2>6, <2>9, CursorTerms DEF End, Nowhere
    <2> QED
      BY <2>1, <2>4, <2>9, <2>10
  <1> QED
    BY <1>3, <1>4

LEMMA FlushStep ==
    ASSUME WorkInv, PosInv, Flush, call' = <<"CHANGE">>
    PROVE  Cursor!Save /\ PosInv'
  <1>1. rows' = FlushedRows /\ setDeleted' = setDeleted /\ area' = Flushed
    BY DEF Flush, Moves, Becomes
  <1>2. PosInv'
    BY <1>1, FlushPositioned DEF PosInv
  <1>3. /\ Flushed.block = area.block /\ Flushed.order = area.order
        /\ Flushed.changed = area.changed /\ Flushed.bof = area.bof /\ Flushed.found = area.found
    BY FlushIs DEF SameSettings
  <1>4. Cursor!Saves /\ Cursor!Untouched = Flushed.steady
    BY <1>1, FlushSaves
  <1>5. \/ Place' = Place
        \/ Place = Nowhere /\ Cursor!IsPlace(Place') /\ Cursor!Changed = {Place'.pk}
    BY <1>1, Places, FlushedPlace
  <1> QED
    BY <1>1, <1>2, <1>3, <1>4, <1>5 DEF Cursor!Save, Cursor!settings

(* The program changes its record.                                         *)
LEMMA PutStep ==
    ASSUME WorkInv, PosInv, CanChange, setDeleted' = setDeleted, rows' = rows,
           NEW rec \in Record, NEW changed \in SUBSET {"key", "del"}, NEW kv,
           rec.pk = area.record.pk, area.changed \subseteq changed,
           area' = [area EXCEPT !.hot = TRUE, !.record = rec, !.changed = changed, !.keyValue = kv],
           \/ "key" \in changed /\ kv = IF area.keyValue = NoKey /\ area.order > 0
                                        THEN area.record.key ELSE area.keyValue
           \/ changed \ {"del"} = area.changed \ {"del"} /\ kv = area.keyValue /\ rec.key = area.record.key
    PROVE  (call' = <<"CHANGE">> => Cursor!Edit) /\ PosInv'
  <1> DEFINE b == area'
  <1>1. /\ rows \in Tables /\ area \in AreaType /\ area.steady \subseteq DOMAIN rows
        /\ area.record \in Record
    BY InvParts, AreaParts DEF OfTable
  <1>2. /\ SameSettings(area, b) /\ SameMarks(area, b) /\ b.steady = area.steady
        /\ b.current = area.current /\ b.commands = area.commands
        /\ b.result = area.result /\ b.fetched = area.fetched /\ b.found = area.found
        /\ b.record = rec /\ b.changed = changed /\ b.keyValue = kv
    BY <1>1 DEF AreaType, SameSettings, SameMarks
  <1>3. ~area.eof
    BY DEF CanChange
  <1>4. WellMarked(area)
    BY DEF PosInv, Positioned
  <1> HIDE DEF b
  <1>5. StillSteady(area, rows, b, rows)
    BY <1>1, <1>2 DEF StillSteady
  <1>6. CurrentStatement(b) = CurrentStatement(area)
    BY <1>1, <1>5, SteadyCovers
  <1>7. WellMarked(b)
    <2>1. FilterShown(b)
      BY <1>2, <1>4, SameShown DEF WellMarked
    <2>2. "key" \notin b.changed => b.keyValue = NoKey
      BY <1>2, <1>4 DEF WellMarked
    <2> QED
      BY <1>2, <1>3, <1>4, <2>1, <2>2 DEF WellMarked, SameMarks
  <1>8. ASSUME Stands(b)
        PROVE  /\ Stands(area)
               /\ Stand(b).pk = Stand(area).pk
               /\ Stand(b).key = Stand(area).key \/ CurrentStatement(area).order = 0
    <2>1. b.order = area.order /\ area.order \in Nat
      BY <1>1, <1>2, AtTypes DEF SameSettings
    <2>2. "key" \in area.changed => "key" \in b.changed
      BY <1>2
    <2>3. Stands(area)
      BY <1>2, <1>6, <1>8, <2>1, <2>2 DEF Stands, SameMarks
    <2>4. Stand(b).pk = Stand(area).pk
      BY <1>2 DEF Stand
    <2>5. CASE "key" \in changed /\ kv = IF area.keyValue = NoKey /\ area.order > 0
                                         THEN area.record.key ELSE area.keyValue
      <3>1. CurrentStatement(area).order = area.order
        BY <1>2, <1>6, <1>8, <2>1, <2>5 DEF Stands
      <3>2. area.order = 0 \/ area.order > 0
        BY <2>1
      <3>3. area.record.key # NoKey
        BY <1>1, WorkAreaAssumption DEF WorkAreaAssumption, Record
      <3>4. CASE area.order > 0 /\ area.keyValue = NoKey
        <4>1. kv = area.record.key
          BY <2>5, <3>4
        <4>2. Stand(b).key = area.record.key /\ Stand(area).key = area.record.key
          BY <1>2, <3>3, <3>4, <4>1 DEF Stand
        <4> QED
          BY <2>3, <2>4, <4>2
      <3>5. CASE area.keyValue # NoKey
        <4>1. kv = area.keyValue
          BY <2>5, <3>5
        <4>2. Stand(b).key = Stand(area).key
          BY <1>2, <3>5, <4>1 DEF Stand
        <4> QED
          BY <2>3, <2>4, <4>2
      <3> QED
        BY <2>3, <2>4, <3>1, <3>2, <3>4, <3>5
    <2>6. CASE kv = area.keyValue /\ rec.key = area.record.key
      <3>1. Stand(b).key = Stand(area).key
        BY <1>2, <2>6 DEF Stand
      <3> QED
        BY <2>3, <2>4, <3>1
    <2> QED
      BY <2>5, <2>6
  <1>9. Positioned(b, rows)
    <2>1. Positioned(area, rows)
      BY DEF PosInv
    <2> QED
      BY <1>1, <1>5, <1>7, <1>8, <2>1, StaysPositioned
  <1>10. PosInv'
    BY <1>9 DEF PosInv, b
  <1>11. IF Cursor!IsPlace(Place) THEN Place' \in [pk: {Place.pk}, key: Key] ELSE Place' = Place
    <2>1. Placeless(b) <=> Placeless(area)
      BY <1>2 DEF Placeless, SameMarks
    <2>2. ~b.eof
      BY <1>2, <1>3 DEF SameMarks
    <2>3. CASE Placeless(area)
      <3>1. Place' = Nowhere /\ Place = Nowhere
        BY <2>1, <2>3, Places DEF b
      <3> QED
        BY <3>1, CursorTerms
    <2>4. CASE ~Placeless(area)
      <3>1. Place' = At(b) /\ Place = At(area)
        BY <1>3, <2>1, <2>2, <2>4, Places DEF b
      <3>2. Place' = [pk |-> rec.pk, key |-> rec.key] /\ Place.pk = rec.pk
        BY <1>2, <3>1 DEF At
      <3>3. rec.key \in Key
        BY DEF Record
      <3>4. Place' \in [pk: {Place.pk}, key: Key]
        BY <3>2, <3>3
      <3>5. Cursor!IsPlace(Place)
        <4>1. OnRow(area)
          BY <1>3, <2>4, Places
        <4> QED
          BY <4>1, SavedPlace
      <3> QED
        BY <3>4, <3>5
    <2> QED
      BY <2>3, <2>4
  <1>12. /\ area'.block = area.block /\ area'.order = area.order /\ area'.steady = area.steady
         /\ area'.bof = area.bof /\ area'.found = area.found
         /\ "key" \in area.changed => "key" \in area'.changed
    BY <1>2 DEF b, SameSettings, SameMarks
  <1>13. call' = <<"CHANGE">> => Cursor!Edit
    BY <1>11, <1>12 DEF Cursor!Edit, Cursor!settings
  <1> QED
    BY <1>10, <1>13

LEMMA PutKeyStep ==
    ASSUME WorkInv, PosInv, NEW k \in 1 .. MaxKey, PutKey(k), call' = <<"CHANGE">>
    PROVE  Cursor!Edit /\ PosInv'
  <1> DEFINE rec == [area.record EXCEPT !.key = k]
             kv == IF area.keyValue = NoKey /\ area.order > 0 THEN area.record.key
                   ELSE area.keyValue
             changed == area.changed \cup {"key"}
  <1>1. area \in AreaType /\ area.record \in Record /\ area.changed \in SUBSET {"key", "del"}
    BY InvParts, AreaParts
  <1>2. changed \in SUBSET {"key", "del"} /\ area.changed \subseteq changed /\ "key" \in changed
    BY <1>1
  <1>3. rec \in Record /\ rec.pk = area.record.pk
    BY <1>1, WorkAreaAssumption DEF WorkAreaAssumption, Record, Key
  <1>4. /\ CanChange /\ rows' = rows /\ setDeleted' = setDeleted
        /\ area' = [area EXCEPT !.hot = TRUE, !.record = rec, !.changed = changed, !.keyValue = kv]
    BY <1>1 DEF PutKey, Becomes, AreaType
  <1>5. kv = IF area.keyValue = NoKey /\ area.order > 0 THEN area.record.key ELSE area.keyValue
    OBVIOUS
  <1> HIDE DEF rec, kv, changed
  <1> QED
    BY <1>2, <1>3, <1>4, <1>5, PutStep

LEMMA PutDeletedStep ==
    ASSUME WorkInv, PosInv, NEW del \in BOOLEAN, PutDeleted(del), call' = <<"CHANGE">>
    PROVE  Cursor!Edit /\ PosInv'
  <1> DEFINE rec == [area.record EXCEPT !.del = del]
             kv == area.keyValue
             changed == area.changed \cup {"del"}
  <1>1. area \in AreaType /\ area.record \in Record /\ area.changed \in SUBSET {"key", "del"}
    BY InvParts, AreaParts
  <1>2. /\ changed \in SUBSET {"key", "del"} /\ area.changed \subseteq changed
        /\ changed \ {"del"} = area.changed \ {"del"}
    BY <1>1
  <1>3. rec \in Record /\ rec.pk = area.record.pk /\ rec.key = area.record.key
    BY <1>1 DEF Record
  <1>4. /\ CanChange /\ rows' = rows /\ setDeleted' = setDeleted
        /\ area' = [area EXCEPT !.hot = TRUE, !.record = rec, !.changed = changed, !.keyValue = kv]
    BY <1>1 DEF PutDeleted, Becomes, AreaType
  <1>5. kv = area.keyValue
    OBVIOUS
  <1> HIDE DEF rec, kv, changed
  <1> QED
    BY <1>2, <1>3, <1>4, <1>5, PutStep

(* A command by number leaves the statements of the others alone, but for  *)
(* those that are freed.                                                   *)
LEMMA OthersLeft ==
    ASSUME NEW a \in AreaType, ~a.redo, NEW cmd \in ByNumber, NEW sort, NEW more, NEW unused,
           NEW c \in Command, c # cmd, c \notin unused
    PROVE  Prepared(a, unused, cmd, sort, more).commands[c] = a.commands[c]
  <1> DEFINE r == ReleaseStatements(a, unused \ {cmd})
             sql == SqlNow(a, cmd, sort)
             d == PrepareQueryCommand(r, cmd, sort, more, sql)
             s == [sql |-> IF r.commands[cmd] = NoStatement THEN sql ELSE r.commands[cmd].sql,
                   sort |-> sort, order |-> r.order, deleted |-> setDeleted, more |-> more]
  <1>1. cmd \notin QueryCommand
    BY TwoKinds
  <1>2. r.commands = [x \in Command |-> IF x \in unused \ {cmd} THEN NoStatement ELSE a.commands[x]]
    <2> DEFINE freed == [x \in Command |-> IF x \in unused \ {cmd} THEN NoStatement ELSE a.commands[x]]
    <2>1. r = [a EXCEPT !.commands = freed]
      BY DEF ReleaseStatements
    <2> HIDE DEF freed, r
    <2>2. r.commands = freed
      BY <2>1 DEF AreaType
    <2> QED
      BY <2>2 DEF freed
  <1>3. r.commands[c] = a.commands[c] /\ ~r.redo
    <2>1. r.commands[c] = a.commands[c]
      <3> HIDE DEF r
      <3> QED
        BY <1>2
    <2>2. SameButCommands(a, r) /\ Commands(r) = ReleaseStatements(Commands(a), unused \ {cmd})
      BY ReleaseOfArea
    <2> HIDE DEF r
    <2>3. Commands(r).redo = Commands(a).redo
      BY <2>2 DEF ReleaseStatements, Commands, CommandsWith
    <2>4. r.redo = a.redo
      BY <2>3 DEF Commands, CommandsWith
    <2> QED
      BY <2>1, <2>4
  <1>4. r \in AreaType
    BY ReleaseOfArea
  <1> HIDE DEF r
  <1>5. CloseQueryStatements(r, cmd, sort) = r
    BY <1>1, <1>3 DEF CloseQueryStatements
  <1>6. Prepared(a, unused, cmd, sort, more) = d
    BY <1>5 DEF Prepared, r
  <1>7. d = [r EXCEPT !.commands = [r.commands EXCEPT ![cmd] = s], !.current = cmd,
                      !.unpositioned = FALSE]
    BY <1>4 DEF PrepareQueryCommand, AreaType
  <1> HIDE DEF d, s
  <1>8. d.commands = [r.commands EXCEPT ![cmd] = s]
    BY <1>4, <1>7 DEF AreaType
  <1>9. d.commands[c] = r.commands[c]
    BY <1>2, <1>8
  <1> QED
    BY <1>3, <1>6, <1>9

LEMMA ReloadIs ==
    ASSUME WorkInv, PosInv, CanReload, ~area.hot, NEW cmd \in ByNumber, NEW bLock \in BOOLEAN
    PROVE  LET b == Reloaded(area, rows, cmd, bLock)
           IN  /\ SameSettings(area, b)
               /\ b.current = area.current /\ b.result = area.result /\ b.fetched = area.fetched
               /\ b.steady = area.steady /\ b.bof = area.bof /\ b.eof = area.eof
               /\ b.found = area.found /\ b.append = area.append
               /\ b.changed = {} /\ b.keyValue = NoKey
               /\ b.record.pk = area.record.pk /\ b.record.key = rows[area.record.pk].key
               /\ b.lost = (area.lost \/ "key" \in area.changed \/ area.record.key # rows[area.record.pk].key)
               /\ IF area.current = cmd
                  THEN CurrentStatement(b) \in Statement /\ CurrentStatement(b).sort = "NO"
                  ELSE CurrentStatement(b) = CurrentStatement(area)
  <1> DEFINE unused == Command \ (Kept \cup {area.current})
             p == Prepared(area, unused, cmd, "NO", "NO")
             row == RowOf(rows, area.record.pk)
             rec == [pk |-> row.pk, key |-> row.key, del |-> row.del, locked |-> bLock, granted |-> bLock]
             w == WithRecord(p, rec)
             lost == w.lost \/ "key" \in area.changed \/ area.record.key # w.record.key
             b == [w EXCEPT !.current = area.current, !.lost = lost]
             e == Reloaded(area, rows, cmd, bLock)
  <1>1. /\ rows \in Tables /\ OfTable(area, rows) /\ area \in AreaType /\ Noted(area)
        /\ area.current \in Command /\ setDeleted \in BOOLEAN
    BY InvParts
  <1>2. area \in Settled(rows)
    BY <1>1 DEF Settled, Areas
  <1>3. cmd \in Command /\ "NO" \in UsesOf(cmd) /\ "NO" \in More
    BY DEF Command, ByNumber, QueryCommand, UsesOf, More
  <1>4. p \in AreaType /\ Noted(p) /\ SameButCommands(area, p) /\ p.current = cmd
    BY <1>1, <1>3, PreparedArea
  <1>5. p.commands[cmd] = StatementNow(area, cmd, "NO", "NO")
    BY <1>1, <1>3, PreparedFits
  <1>6. StatementNow(area, cmd, "NO", "NO") \in Statement
    BY <1>1, <1>2, <1>3, RunQueryIs
  <1>7. StatementNow(area, cmd, "NO", "NO").sort = "NO"
    BY DEF StatementNow
  <1>8. area.current # cmd => p.commands[area.current] = area.commands[area.current]
    <2>1. ~area.redo
      BY DEF CanReload
    <2>2. area.current \notin unused
      OBVIOUS
    <2> HIDE DEF unused
    <2> QED
      BY <1>1, <2>1, <2>2, OthersLeft
  <1>9. row.pk = area.record.pk /\ row.key = rows[area.record.pk].key
    BY DEF RowOf
  <1>10. e = b
    BY <1>4 DEF Reloaded, ReadRow, WithRecord, AreaType
  <1> HIDE DEF p, row, e
  <1>11. rec.pk = row.pk /\ rec.key = row.key
    OBVIOUS
  <1>12. SameSettings(area, p) /\ SameRecord(area, p) /\ SameFlags(area, p)
    BY <1>1, <1>4, SameRest DEF SameSettings, SameRecord, SameFlags
  <1>13. /\ p.append = area.append /\ p.result = area.result /\ p.fetched = area.fetched
         /\ p.steady = area.steady
    BY <1>1, <1>4, SameRest
  <1> HIDE DEF rec
  <1>14. /\ SameSettings(p, w) /\ SameFlags(p, w) /\ w.append = p.append /\ w.result = p.result
         /\ w.fetched = p.fetched /\ w.steady = p.steady /\ w.commands = p.commands
         /\ w.changed = {} /\ w.keyValue = NoKey /\ w.record = rec /\ w.lost = p.lost
    BY <1>4 DEF WithRecord, AreaType, SameSettings, SameFlags
  <1>15. DOMAIN w = DOMAIN p
    BY DEF WithRecord
  <1> HIDE DEF w, lost
  <1>16. /\ SameSettings(w, b) /\ SameFlags(w, b) /\ b.append = w.append /\ b.result = w.result
         /\ b.fetched = w.fetched /\ b.steady = w.steady /\ b.commands = w.commands
         /\ b.changed = w.changed /\ b.keyValue = w.keyValue /\ b.record = w.record
         /\ b.current = area.current /\ b.lost = lost
    BY <1>4, <1>15 DEF AreaType, SameSettings, SameFlags
  <1> HIDE DEF b
  <1>17. lost = (area.lost \/ "key" \in area.changed \/ area.record.key # rows[area.record.pk].key)
    BY <1>9, <1>11, <1>12, <1>14 DEF lost, SameRecord
  <1>18. IF area.current = cmd
         THEN CurrentStatement(b) \in Statement /\ CurrentStatement(b).sort = "NO"
         ELSE CurrentStatement(b) = CurrentStatement(area)
    BY <1>5, <1>6, <1>7, <1>8, <1>14, <1>16 DEF CurrentStatement
  <1>19. SameSettings(area, b) /\ SameFlags(area, b)
    BY <1>12, <1>14, <1>16 DEF SameSettings, SameFlags
  <1>20. /\ b.current = area.current /\ b.result = area.result /\ b.fetched = area.fetched
         /\ b.steady = area.steady /\ b.append = area.append
         /\ b.changed = {} /\ b.keyValue = NoKey
         /\ b.record.pk = area.record.pk /\ b.record.key = rows[area.record.pk].key
    BY <1>9, <1>11, <1>13, <1>14, <1>16
  <1>21. b.bof = area.bof /\ b.eof = area.eof /\ b.found = area.found
    BY <1>19 DEF SameFlags
  <1>22. e = Reloaded(area, rows, cmd, bLock)
    BY DEF e
  <1> QED
    BY <1>10, <1>16, <1>17, <1>18, <1>19, <1>20, <1>21, <1>22

(* The program locks its record, or reads it again.                        *)
LEMMA RereadStep ==
    ASSUME WorkInv, PosInv, CanReload, ~area.hot, NEW cmd \in ByNumber, NEW bLock \in BOOLEAN,
           area' = Reloaded(area, rows, cmd, bLock), rows' = rows, setDeleted' = setDeleted,
           call' = <<"CHANGE">>
    PROVE  Cursor!Reread /\ PosInv'
  <1> DEFINE b == area'
             same == ~area.lost /\ "key" \notin area.changed /\ area.record.key = rows[area.record.pk].key
  <1>1. /\ SameSettings(area, b)
        /\ b.current = area.current /\ b.result = area.result /\ b.fetched = area.fetched
        /\ b.steady = area.steady /\ b.bof = area.bof /\ b.eof = area.eof
        /\ b.found = area.found /\ b.append = area.append
        /\ b.changed = {} /\ b.keyValue = NoKey
        /\ b.record.pk = area.record.pk /\ b.record.key = rows[area.record.pk].key
        /\ b.lost = (area.lost \/ "key" \in area.changed \/ area.record.key # rows[area.record.pk].key)
        /\ IF area.current = cmd
           THEN CurrentStatement(b) \in Statement /\ CurrentStatement(b).sort = "NO"
           ELSE CurrentStatement(b) = CurrentStatement(area)
    <2> DEFINE c == Reloaded(area, rows, cmd, bLock)
    <2>1. /\ SameSettings(area, c)
          /\ c.current = area.current /\ c.result = area.result /\ c.fetched = area.fetched
          /\ c.steady = area.steady /\ c.bof = area.bof /\ c.eof = area.eof
          /\ c.found = area.found /\ c.append = area.append
          /\ c.changed = {} /\ c.keyValue = NoKey
          /\ c.record.pk = area.record.pk /\ c.record.key = rows[area.record.pk].key
          /\ c.lost = (area.lost \/ "key" \in area.changed \/ area.record.key # rows[area.record.pk].key)
          /\ IF area.current = cmd
             THEN CurrentStatement(c) \in Statement /\ CurrentStatement(c).sort = "NO"
             ELSE CurrentStatement(c) = CurrentStatement(area)
      BY ReloadIs
    <2>2. b = c
      OBVIOUS
    <2> HIDE DEF b, c
    <2> QED
      BY <2>1, <2>2
  <1>2. /\ rows \in Tables /\ area.steady \subseteq DOMAIN rows /\ area \in AreaType
        /\ area.current \in Command
    BY InvParts DEF OfTable
  <1>3. /\ ~area.eof /\ ~area.unpositioned /\ area.record.pk \in DOMAIN rows
    BY DEF CanReload
  <1>4. /\ WellMarked(area) /\ Primed(area, rows) /\ Positioned(area, rows)
        /\ Stands(area) => Covers(area, rows, Stand(area)) /\ Ahead(area, Stand(area))
    BY DEF PosInv, Positioned
  <1>5. ~area.append
    BY <1>3, <1>4 DEF WellMarked
  <1>6. area.record.pk # Blank
    BY <1>2, <1>3, RowTypes
  <1>7. ~b.lost <=> same
    BY <1>1
  <1> HIDE DEF b
  <1>8. WellMarked(b)
    <2>1. FilterShown(b)
      BY <1>1, <1>4, SameShown DEF WellMarked
    <2> QED
      BY <1>1, <1>3, <1>5, <2>1 DEF WellMarked
  <1>9. area.current \in QueryCommand => area.current # cmd
    BY TwoKinds
  <1>10. Positioned(b, rows)
    <2>1. CASE area.current = cmd
      <3>1. b.current \notin QueryCommand
        BY <1>1, <1>9, <2>1
      <3>2. CurrentStatement(b) \in Statement /\ CurrentStatement(b).sort = "NO"
        BY <1>1, <2>1
      <3>3. Primed(b, rows)
        BY <1>1, <1>4, <3>1, <3>2 DEF Primed
      <3>4. ~Stands(b)
        BY <3>1 DEF Stands
      <3> QED
        BY <1>8, <3>3, <3>4, NowherePositioned
    <2>2. CASE area.current # cmd
      <3>1. CurrentStatement(b) = CurrentStatement(area)
        BY <1>1, <2>2
      <3>2. SameQuery(area, b)
        BY <1>1, <3>1 DEF SameQuery
      <3>3. /\ Primed(b, rows)
            /\ Covers(area, rows, Stand(area)) => Covers(b, rows, Stand(area))
            /\ Ahead(area, Stand(area)) => Ahead(b, Stand(area))
        BY <1>4, <3>2, SameCovers
      <3>4. ASSUME Stands(b)
            PROVE  Stands(area) /\ Stand(b) = Stand(area)
        <4>1. same
          BY <1>7, <3>4 DEF Stands
        <4>2. area.keyValue = NoKey
          BY <1>4, <4>1 DEF WellMarked
        <4>3. Stands(area)
          BY <1>1, <1>3, <1>5, <1>6, <3>1, <3>4, <4>1 DEF Stands
        <4>4. Stand(b) = Stand(area)
          BY <1>1, <4>1, <4>2 DEF Stand
        <4> QED
          BY <4>3, <4>4
      <3> QED
        BY <1>4, <1>8, <3>3, <3>4 DEF Positioned
    <2> QED
      BY <2>1, <2>2
  <1>11. PosInv'
    BY <1>10 DEF PosInv, b
  <1>12. IF Cursor!IsPlace(Place) /\ "key" \notin area.changed /\ rows[Place.pk].key = Place.key
         THEN Place' = Place ELSE Place' = Nowhere
    <2>1. Placeless(area) <=> area.lost
      BY <1>3, <1>5, <1>6 DEF Placeless
    <2>2. Placeless(b) <=> b.lost
      BY <1>1, <1>5, <1>6 DEF Placeless
    <2>3. ~area.lost => Place = At(area) /\ Cursor!IsPlace(Place)
      <3>1. ~area.lost => OnRow(area)
        BY <1>3, <1>5, <1>6 DEF OnRow
      <3> QED
        BY <1>3, <2>1, <3>1, Places, SavedPlace
    <2>4. area.lost => Place = Nowhere /\ ~Cursor!IsPlace(Place)
      BY <2>1, Places, CursorTerms
    <2>5. Place' = IF b.lost THEN Nowhere ELSE At(b)
      <3>1. Place' = PlaceIn(b) /\ ~b.eof
        BY <1>1, <1>3, Places DEF b
      <3>2. b.lost => PlaceIn(b) = Nowhere
        BY <2>2, Places
      <3>3. ~b.lost => PlaceIn(b) = At(b)
        BY <2>2, <3>1, Places
      <3> QED
        BY <3>1, <3>2, <3>3
    <2>6. CASE same
      <3>1. At(b) = At(area)
        BY <1>1, <2>6 DEF At
      <3>2. Place' = Place
        BY <1>7, <2>3, <2>5, <2>6, <3>1
      <3>3. Cursor!IsPlace(Place) /\ "key" \notin area.changed /\ rows[Place.pk].key = Place.key
        BY <2>3, <2>6 DEF At
      <3> QED
        BY <3>2, <3>3
    <2>7. CASE ~same
      <3>1. Place' = Nowhere
        BY <1>7, <2>5, <2>7
      <3>2. ~(Cursor!IsPlace(Place) /\ "key" \notin area.changed /\ rows[Place.pk].key = Place.key)
        BY <2>3, <2>4, <2>7 DEF At
      <3> QED
        BY <3>1, <3>2
    <2> QED
      BY <2>6, <2>7
  <1>13. /\ area'.block = area.block /\ area'.order = area.order /\ area'.steady = area.steady
         /\ area'.bof = area.bof /\ area'.found = area.found /\ "key" \notin area'.changed
    BY <1>1 DEF b, SameSettings
  <1> QED
    BY <1>11, <1>12, <1>13 DEF Cursor!Reread, Cursor!settings

LEMMA RLockStep ==
    ASSUME WorkInv, PosInv, RLock, call' = <<"CHANGE">>
    PROVE  Cursor!Reread /\ PosInv'
  <1>1. ~area.hot
    BY InvParts DEF RLock, OfTable
  <1>2. "LOCK_RECNO" \in ByNumber
    BY DEF ByNumber
  <1>3. /\ CanReload /\ rows' = rows /\ setDeleted' = setDeleted
        /\ area' = Reloaded(area, rows, "LOCK_RECNO", TRUE)
    BY DEF RLock, Becomes
  <1> QED
    BY <1>1, <1>2, <1>3, RereadStep

LEMMA ReloadStep ==
    ASSUME WorkInv, PosInv, Reload, call' = <<"CHANGE">>
    PROVE  Cursor!Reread /\ PosInv'
  <1>1. "GO_TO_RECNO" \in ByNumber
    BY DEF ByNumber
  <1>2. /\ CanReload /\ ~area.hot /\ rows' = rows /\ setDeleted' = setDeleted
        /\ area' = Reloaded(area, rows, "GO_TO_RECNO", FALSE)
    BY DEF Reload, Becomes
  <1> QED
    BY <1>1, <1>2, RereadStep

-----------------------------------------------------------------------------
(* The settings, and the other sessions.                                   *)

(* b is a with another order.                                              *)
Reordered(a, b, o) ==
    /\ b.order = o /\ b.keyValue = NoKey
    /\ b.lost <=> a.lost \/ ("key" \in a.changed /\ o = CurrentStatement(a).order)
    /\ b.record = a.record /\ b.changed = a.changed
    /\ b.filter = a.filter /\ b.block = a.block /\ b.limits = a.limits
    /\ b.current = a.current /\ b.commands = a.commands
    /\ b.result = a.result /\ b.fetched = a.fetched /\ b.steady = a.steady
    /\ b.append = a.append /\ b.eof = a.eof /\ b.bof = a.bof /\ b.found = a.found
    /\ b.unpositioned = a.unpositioned /\ b.immediate = a.immediate

LEMMA OrderChosenIs ==
    ASSUME NEW a \in AreaType, NEW o \in Order
    PROVE  /\ Reordered(a, OrderChosen(a, o), o)
           /\ Reordered(a, [OrderChosen(a, o) EXCEPT !.orders = FALSE], o)
  <1> DEFINE lost == a.lost \/ ("key" \in a.changed /\ o = CurrentStatement(a).order)
             c == OrderChosen(a, o)
             b == [c EXCEPT !.orders = FALSE]
  <1>1. c = [a EXCEPT !.order = o, !.keyValue = NoKey, !.lost = lost]
    BY DEF OrderChosen, AreaType
  <1>2. lost \in BOOLEAN
    BY AreaParts
  <1>3. lost <=> a.lost \/ ("key" \in a.changed /\ o = CurrentStatement(a).order)
    OBVIOUS
  <1> HIDE DEF lost, c
  <1>4. c \in AreaType
    BY <1>1, <1>2, ZenonT(30) DEF AreaType
  <1>5. Reordered(a, c, o)
    BY <1>1, <1>3 DEF AreaType, Reordered
  <1>6. Reordered(a, b, o)
    BY <1>4, <1>5 DEF AreaType, Reordered
  <1> QED
    BY <1>5, <1>6 DEF c

LEMMA ReorderedPositioned ==
    ASSUME NEW a, NEW t, Positioned(a, t), a.steady \subseteq DOMAIN t, NEW o, NEW b,
           Reordered(a, b, o)
    PROVE  /\ Positioned(b, t)
           /\ PlaceIn(b) = PlaceIn(a) \/ ("key" \in a.changed /\ PlaceIn(b) = Nowhere)
  <1>1. StillSteady(a, t, b, t)
    BY DEF StillSteady, Reordered
  <1>2. CurrentStatement(b) = CurrentStatement(a)
    BY <1>1, SteadyCovers
  <1>3. WellMarked(a)
    BY DEF Positioned
  <1>4. WellMarked(b)
    BY <1>2, <1>3 DEF WellMarked, Reordered, FilterShown
  <1>5. ASSUME Stands(b)
        PROVE  Stands(a) /\ Stand(b) = Stand(a)
    <2>1. ~b.lost /\ ("key" \in b.changed => CurrentStatement(b).order = b.order)
      BY <1>5 DEF Stands
    <2>2. "key" \notin a.changed /\ ~a.lost
      BY <1>2, <2>1 DEF Reordered
    <2>3. a.keyValue = NoKey
      BY <1>3, <2>2 DEF WellMarked
    <2>4. Stands(a)
      BY <1>2, <1>5, <2>2 DEF Stands, Reordered
    <2>5. Stand(b) = Stand(a)
      BY <2>3 DEF Stand, Reordered
    <2> QED
      BY <2>4, <2>5
  <1>6. Positioned(b, t)
    BY <1>1, <1>4, <1>5, StaysPositioned
  <1>7. CASE b.lost <=> a.lost
    <2>1. Placeless(b) <=> Placeless(a)
      BY <1>7 DEF Placeless, Reordered
    <2>2. PlaceIn(b) = PlaceIn(a)
      BY <2>1 DEF PlaceIn, Reordered
    <2> QED
      BY <1>6, <2>2
  <1>8. CASE b.lost /\ "key" \in a.changed
    <2>1. PlaceIn(b) = Nowhere
      BY <1>8 DEF PlaceIn, Placeless
    <2> QED
      BY <1>6, <1>8, <2>1
  <1> QED
    BY <1>7, <1>8 DEF Reordered

LEMMA OrderListFocusStep ==
    ASSUME WorkInv, PosInv, NEW o \in Order, OrderListFocus(o), call' = <<"SET">>
    PROVE  Cursor!Choose /\ PosInv'
  <1>1. rows' = rows /\ setDeleted' = setDeleted /\ area' = OrderChosen(area, o)
    BY DEF OrderListFocus, Becomes
  <1>2. area \in AreaType /\ area.steady \subseteq DOMAIN rows
    BY InvParts DEF OfTable
  <1>3. Reordered(area, area', o)
    BY <1>1, <1>2, OrderChosenIs
  <1>4. /\ Positioned(area', rows)
        /\ PlaceIn(area') = PlaceIn(area) \/ ("key" \in area.changed /\ PlaceIn(area') = Nowhere)
    BY <1>2, <1>3, ReorderedPositioned DEF PosInv
  <1>5. PosInv'
    BY <1>1, <1>4 DEF PosInv
  <1>6. Place' = Place \/ ("key" \in area.changed /\ Place' = Nowhere)
    BY <1>4, Places
  <1>7. Cursor!Saves /\ area'.steady = Cursor!Untouched
    BY <1>1, <1>2, <1>3, RowsAsTheyWere DEF Reordered
  <1>8. area'.changed = area.changed /\ area'.bof = area.bof /\ area'.found = area.found
    BY <1>3 DEF Reordered
  <1> QED
    BY <1>5, <1>6, <1>7, <1>8 DEF Cursor!Choose

LEMMA OrderListClearStep ==
    ASSUME WorkInv, PosInv, OrderListClear, call' = <<"SET">>
    PROVE  Cursor!Choose /\ PosInv'
  <1>1. /\ rows' = FlushedRows /\ setDeleted' = setDeleted
        /\ area' = [OrderChosen(Flushed, 0) EXCEPT !.orders = FALSE]
    BY DEF OrderListClear, Becomes
  <1>2. Flushed \in AreaType /\ Flushed.steady \subseteq DOMAIN FlushedRows
    BY MoveBegins, ReadyParts DEF OfTable
  <1>3. 0 \in Order
    BY CommandsAssumption DEF CommandsAssumption, Order
  <1>4. Reordered(Flushed, area', 0)
    BY <1>1, <1>2, <1>3, OrderChosenIs
  <1>5. /\ Positioned(area', FlushedRows)
        /\ \/ PlaceIn(area') = PlaceIn(Flushed)
           \/ "key" \in Flushed.changed /\ PlaceIn(area') = Nowhere
    BY <1>2, <1>4, MoveBegins, ReorderedPositioned
  <1>6. PosInv'
    BY <1>1, <1>5 DEF PosInv
  <1>7. /\ Flushed.changed = area.changed /\ Flushed.bof = area.bof /\ Flushed.found = area.found
    BY FlushIs
  <1>8. LET p == PlaceIn(Flushed)
        IN  p = Place \/ (Place = Nowhere /\ Cursor!IsPlace(p) /\ Cursor!Changed = {p.pk})
    BY <1>1, FlushedPlace
  <1>9. \/ Place' = Place
        \/ "key" \in area.changed /\ Place' = Nowhere
        \/ Place = Nowhere /\ Cursor!IsPlace(Place') /\ Cursor!Changed = {Place'.pk}
    BY <1>5, <1>7, <1>8, Places
  <1>10. Cursor!Saves /\ area'.steady = Cursor!Untouched
    BY <1>1, <1>4, FlushSaves DEF Reordered
  <1>11. area'.changed = area.changed /\ area'.bof = area.bof /\ area'.found = area.found
    BY <1>4, <1>7 DEF Reordered
  <1> QED
    BY <1>6, <1>9, <1>10, <1>11 DEF Cursor!Choose

(* Only what the rows are shown by changes.                                *)
LEMMA ShowingStep ==
    ASSUME WorkInv, PosInv, rows' = rows, FilterShown(area'), SameMarks(area, area'),
           area'.order = area.order, area'.record = area.record, area'.keyValue = area.keyValue,
           area'.changed = area.changed, area'.steady = area.steady, area'.found = area.found,
           area'.current = area.current, area'.commands = area.commands,
           area'.result = area.result, area'.fetched = area.fetched, call' = <<"SET">>
    PROVE  Cursor!Choose /\ PosInv'
  <1>1. area.steady \subseteq DOMAIN rows
    BY InvParts DEF OfTable
  <1>2. StillSteady(area, rows, area', rows)
    BY <1>1 DEF StillSteady
  <1>3. Positioned(area', rows)
    BY <1>1, <1>2, MarksKept DEF PosInv
  <1>4. PosInv'
    BY <1>3 DEF PosInv
  <1>5. PlaceIn(area') = PlaceIn(area)
    BY DEF PlaceIn, Placeless, SameMarks
  <1>6. Place' = Place
    BY <1>5, Places
  <1>7. Cursor!Saves /\ area'.steady = Cursor!Untouched
    BY <1>1, RowsAsTheyWere
  <1> QED
    BY <1>4, <1>6, <1>7 DEF Cursor!Choose, SameMarks

LEMMA SetFilterStep ==
    ASSUME WorkInv, PosInv, NEW f \in {Filter, NoFilter}, SetAreaFilter(f), call' = <<"SET">>
    PROVE  Cursor!Choose /\ PosInv'
  <1> DEFINE redo == area.redo \/ area.filter # NoFilter \/ f # NoFilter
             b == [area EXCEPT !.filter = f, !.redo = redo, !.block = TRUE]
  <1>1. area \in AreaType
    BY InvParts
  <1>2. area' = b
    BY <1>1 DEF SetAreaFilter, Becomes, FilterSet, FilterCleared, AreaType
  <1> HIDE DEF redo
  <1>3. /\ SameMarks(area, b) /\ b.block = TRUE /\ b.filter = f /\ b.limits = area.limits
        /\ b.order = area.order /\ b.record = area.record /\ b.keyValue = area.keyValue
        /\ b.changed = area.changed /\ b.steady = area.steady /\ b.found = area.found
        /\ b.current = area.current /\ b.commands = area.commands
        /\ b.result = area.result /\ b.fetched = area.fetched
    BY <1>1 DEF AreaType, SameMarks
  <1>4. rows' = rows /\ (f = NoFilter \/ ~area.limits)
    BY DEF SetAreaFilter
  <1> HIDE DEF b
  <1>5. FilterShown(b)
    BY <1>3, <1>4 DEF FilterShown
  <1> QED
    BY <1>2, <1>3, <1>4, <1>5, ShowingStep

LEMMA ClearFilterStep ==
    ASSUME WorkInv, PosInv, ClearAreaFilter, call' = <<"SET">>
    PROVE  Cursor!Choose /\ PosInv'
  <1> DEFINE redo == area.redo \/ area.filter # NoFilter
             b == [area EXCEPT !.filter = NoFilter, !.redo = redo, !.block = FALSE]
  <1>1. area \in AreaType
    BY InvParts
  <1>2. area' = b
    BY <1>1 DEF ClearAreaFilter, Becomes, FilterCleared, AreaType
  <1> HIDE DEF redo
  <1>3. /\ SameMarks(area, b) /\ b.filter = NoFilter
        /\ b.order = area.order /\ b.record = area.record /\ b.keyValue = area.keyValue
        /\ b.changed = area.changed /\ b.steady = area.steady /\ b.found = area.found
        /\ b.current = area.current /\ b.commands = area.commands
        /\ b.result = area.result /\ b.fetched = area.fetched
    BY <1>1 DEF AreaType, SameMarks
  <1>4. rows' = rows
    BY DEF ClearAreaFilter
  <1> HIDE DEF b
  <1>5. FilterShown(b)
    BY <1>3 DEF FilterShown
  <1> QED
    BY <1>2, <1>3, <1>4, <1>5, ShowingStep

LEMMA ToggleDeletedStep ==
    ASSUME WorkInv, PosInv, ToggleDeleted, call' = <<"SET">>
    PROVE  Cursor!Choose /\ PosInv'
  <1>1. area' = area /\ rows' = rows
    BY DEF ToggleDeleted
  <1>2. FilterShown(area)
    BY DEF PosInv, Positioned, WellMarked
  <1>3. SameMarks(area, area)
    BY DEF SameMarks
  <1> QED
    BY <1>1, <1>2, <1>3, ShowingStep

(* Another session changes a row, or appends one.                          *)
LEMMA OthersPlace ==
    ASSUME WorkInv, PosInv, NEW p \in DOMAIN rows',
           DOMAIN rows' = DOMAIN rows \cup {p},
           \A q \in DOMAIN rows \ {p} : rows'[q] = rows[q],
           p \in DOMAIN rows => rows'[p] # rows[p],
           setDeleted' = setDeleted, call' = <<"OTHERS">>,
           area'.steady = area.steady \ {p}, SameMarks(area, area'), area'.filter = area.filter,
           area'.block = area.block, area'.limits = area.limits, area'.order = area.order,
           area'.record = area.record, area'.keyValue = area.keyValue,
           area'.changed = area.changed, area'.found = area.found,
           area'.current = area.current, area'.commands = area.commands,
           area'.result = area.result, area'.fetched = area.fetched
    PROVE  Cursor!Others /\ PosInv'
  <1>1. area.steady \subseteq DOMAIN rows
    BY InvParts DEF OfTable
  <1>2. area'.steady = {q \in area.steady : rows'[q] = rows[q]}
    BY <1>1
  <1>3. StillSteady(area, rows, area', rows')
    BY <1>2 DEF StillSteady
  <1>4. FilterShown(area')
    BY DEF PosInv, Positioned, WellMarked, FilterShown
  <1>5. Positioned(area', rows')
    BY <1>1, <1>3, <1>4, MarksKept DEF PosInv
  <1>6. PosInv'
    BY <1>5 DEF PosInv
  <1>7. PlaceIn(area') = PlaceIn(area)
    BY DEF PlaceIn, Placeless, SameMarks
  <1>8. Place' = Place
    BY <1>7, Places
  <1>9. area'.steady = Cursor!Untouched
    BY <1>2, CursorTerms
  <1> QED
    BY <1>6, <1>8, <1>9 DEF Cursor!Others, Cursor!settings, SameMarks

LEMMA OthersStep ==
    ASSUME WorkInv, PosInv, Others, call' = <<"OTHERS">>
    PROVE  Cursor!Others /\ PosInv'
  <1>1. rows \in Tables /\ area \in AreaType /\ area.steady \subseteq DOMAIN rows
    BY InvParts DEF OfTable
  <1>2. ASSUME NEW p \in DOMAIN rows, NEW r \in [key: 1 .. MaxKey, del: BOOLEAN], OthersWrite(p, r)
        PROVE  Cursor!Others /\ PosInv'
    <2> DEFINE steady == area.steady \ {p}
               b == [area EXCEPT !.steady = steady]
               t == [rows EXCEPT ![p] = r]
    <2>1. area' = b /\ rows' = t /\ setDeleted' = setDeleted /\ r # rows[p]
      BY <1>1, <1>2 DEF OthersWrite, AreaType
    <2>2. r \in Row
      BY WorkAreaAssumption DEF WorkAreaAssumption, Row, Key
    <2>3. DOMAIN t = DOMAIN rows /\ t[p] = r /\ \A q \in DOMAIN rows \ {p} : t[q] = rows[q]
      BY <1>1, <2>2, WrittenTable
    <2> HIDE DEF steady, t
    <2>4. /\ SameMarks(area, b) /\ b.steady = steady /\ b.filter = area.filter
          /\ b.block = area.block /\ b.limits = area.limits /\ b.order = area.order
          /\ b.record = area.record /\ b.keyValue = area.keyValue
          /\ b.changed = area.changed /\ b.found = area.found
          /\ b.current = area.current /\ b.commands = area.commands
          /\ b.result = area.result /\ b.fetched = area.fetched
      BY <1>1 DEF AreaType, SameMarks
    <2> HIDE DEF b
    <2>5. /\ p \in DOMAIN rows' /\ DOMAIN rows' = DOMAIN rows \cup {p} /\ rows'[p] # rows[p]
          /\ \A q \in DOMAIN rows \ {p} : rows'[q] = rows[q]
      BY <2>1, <2>3
    <2>6. area'.steady = area.steady \ {p}
      BY <2>1, <2>4 DEF steady
    <2> QED
      BY <2>1, <2>4, <2>5, <2>6, OthersPlace
  <1>3. ASSUME NEW k \in 1 .. MaxKey, OthersAppend(k)
        PROVE  Cursor!Others /\ PosInv'
    <2> DEFINE r == [key |-> k, del |-> FALSE]
               t == Inserted(rows, r)
               n == NextRecno(rows)
    <2>1. area' = area /\ rows' = t /\ setDeleted' = setDeleted
      BY <1>3 DEF OthersAppend
    <2>2. r \in Row
      BY WorkAreaAssumption DEF WorkAreaAssumption, Row, Key
    <2>3. n \in Nat /\ MaxRecno \in Nat /\ n + (IF area.append THEN 1 ELSE 0) <= MaxRecno
      BY <1>1, <1>3, TableNumbers, WorkAreaAssumption DEF WorkAreaAssumption, OthersAppend
    <2>4. n <= MaxRecno
      BY <2>3
    <2> HIDE DEF r
    <2>5. /\ DOMAIN t = DOMAIN rows \cup {n} /\ n \notin DOMAIN rows
          /\ \A q \in DOMAIN rows : t[q] = rows[q]
      BY <1>1, <2>2, <2>4, InsertedTable
    <2> HIDE DEF t, n
    <2>6. n \in DOMAIN rows' /\ area'.steady = area.steady \ {n}
      BY <1>1, <2>1, <2>5
    <2>7. SameMarks(area, area')
      BY <2>1 DEF SameMarks
    <2> QED
      BY <2>1, <2>5, <2>6, <2>7, OthersPlace
  <1> QED
    BY <1>2, <1>3 DEF Others

-----------------------------------------------------------------------------
(* Where the program stands, at every step.                                *)
LEMMA InitPos == Init => PosInv
  <1> SUFFICES ASSUME Init
               PROVE  PosInv
    OBVIOUS
  <1>1. PICK start \in Starts : /\ rows = start.rows
                                /\ setDeleted = start.deleted
                                /\ area = GoTopOf(Opened(start), start.rows)
    BY DEF Init
  <1> DEFINE a == Opened(start)
             c == GoTopOf(a, rows)
  <1>2. rows \in Tables /\ setDeleted \in BOOLEAN /\ a \in Settled(rows)
    BY <1>1, OpenedSettled
  <1>3. a.filter = start.filter /\ a.block = start.block /\ a.limits = start.limits
    BY DEF Opened
  <1>4. FilterShown(a)
    BY <1>3, WorkAreaAssumption DEF WorkAreaAssumption, FilterShown
  <1> HIDE DEF a
  <1>5. FirstShown(c, rows, "ASC") \/ Ended(c, rows, "ASC")
    BY <1>2, <1>4, TopReached
  <1> HIDE DEF c
  <1>6. Positioned(c, rows)
    BY <1>2, <1>5, FirstPositioned
  <1>7. area = c
    BY <1>1 DEF a, c
  <1> QED
    BY <1>6, <1>7 DEF PosInv

LEMMA MovementPos ==
    ASSUME WorkInv, PosInv, Movement
    PROVE  Cursor!Next /\ PosInv'
  <1>1. ASSUME NEW sort \in {"ASC", "DESC"}, Skip(sort), call' = <<"SKIP", sort>>
        PROVE  Cursor!Next /\ PosInv'
    <2>1. CASE sort = "ASC"
      BY <1>1, <2>1, SkipDownStep DEF Cursor!Next
    <2>2. CASE sort = "DESC"
      BY <1>1, <2>2, SkipUpStep DEF Cursor!Next
    <2> QED
      BY <2>1, <2>2
  <1>2. ASSUME GoTop \/ OrderListAdd, call' = <<"GO TOP">>
        PROVE  Cursor!Next /\ PosInv'
    <2>1. Cursor!Top /\ PosInv'
      BY <1>2, GoTopStep, OrderListAddStep, Zenon
    <2> QED
      BY <2>1, Zenon DEF Cursor!Next
  <1>3. ASSUME GoBottom, call' = <<"GO BOTTOM">>
        PROVE  Cursor!Next /\ PosInv'
    <2>1. Cursor!Bottom /\ PosInv'
      BY <1>3, GoBottomStep, Zenon
    <2> QED
      BY <2>1, Zenon DEF Cursor!Next
  <1>4. ASSUME NEW n \in 0 .. MaxRecno, GoTo(n), call' = <<"GOTO", n>>
        PROVE  Cursor!Next /\ PosInv'
    <2>1. /\ PosInv'
          /\ IF n = 0 THEN Cursor!GoToNone ELSE n \in DOMAIN rows /\ Cursor!GoTo(n)
      BY <1>4, GoToStep
    <2>2. CASE n = 0
      BY <2>1, <2>2 DEF Cursor!Next
    <2>3. CASE n # 0
      BY <2>1, <2>3 DEF Cursor!Next
    <2> QED
      BY <2>2, <2>3
  <1>5. ASSUME NEW k \in 1 .. MaxKey, NEW soft \in BOOLEAN, NEW last \in BOOLEAN,
               ~(soft /\ last), Seek(k, soft, last), call' = <<"SEEK", k, soft, last>>
        PROVE  Cursor!Next /\ PosInv'
    <2>1. Cursor!Seek(k, soft, last) /\ PosInv'
      BY <1>5, SeekStep
    <2>2. k \in Key
      BY DEF Key
    <2> QED
      BY <2>1, <2>2, Zenon DEF Cursor!Next
  <1> QED
    BY <1>1, <1>2, <1>3, <1>4, <1>5, Zenon DEF Movement

LEMMA ChangePos ==
    ASSUME WorkInv, PosInv, Change, call' = <<"CHANGE">>
    PROVE  Cursor!Next /\ PosInv'
  <1>1. CASE RLock \/ Reload
    BY <1>1, RLockStep, ReloadStep DEF Cursor!Next
  <1>2. ASSUME NEW k \in 1 .. MaxKey, PutKey(k)
        PROVE  Cursor!Next /\ PosInv'
    BY <1>2, PutKeyStep DEF Cursor!Next
  <1>3. CASE Delete \/ Recall
    BY <1>3, PutDeletedStep DEF Delete, Recall, Cursor!Next
  <1>4. CASE Flush
    BY <1>4, FlushStep DEF Cursor!Next
  <1> QED
    BY <1>1, <1>2, <1>3, <1>4 DEF Change

LEMMA SettingPos ==
    ASSUME WorkInv, PosInv, Setting, call' = <<"SET">>
    PROVE  Cursor!Next /\ PosInv'
  <1>1. Cursor!Choose /\ PosInv'
    BY OrderListFocusStep, OrderListClearStep, SetFilterStep, ClearFilterStep, ToggleDeletedStep
       DEF Setting
  <1> QED
    BY <1>1 DEF Cursor!Next

LEMMA NextPos == WorkInv /\ PosInv /\ [Next]_vars => [Cursor!Next]_(Cursor!vars) /\ PosInv'
  <1>1. ASSUME WorkInv, PosInv, Next
        PROVE  Cursor!Next /\ PosInv'
    <2>1. CASE Movement
      BY <1>1, <2>1, MovementPos
    <2>2. CASE Append /\ call' = <<"APPEND">>
      BY <1>1, <2>2, AppendStep DEF Cursor!Next
    <2>3. CASE Change /\ call' = <<"CHANGE">>
      BY <1>1, <2>3, ChangePos
    <2>4. CASE Setting /\ call' = <<"SET">>
      BY <1>1, <2>4, SettingPos
    <2>5. CASE Others /\ call' = <<"OTHERS">>
      BY <1>1, <2>5, OthersStep DEF Cursor!Next
    <2> QED
      BY <1>1, <2>1, <2>2, <2>3, <2>4, <2>5 DEF Next
  <1>2. ASSUME PosInv, UNCHANGED vars
        PROVE  UNCHANGED Cursor!vars /\ PosInv'
    <2>1. /\ area' = area /\ rows' = rows /\ setDeleted' = setDeleted /\ call' = call
      BY <1>2 DEF vars
    <2>2. PosInv'
      BY <1>2, <2>1 DEF PosInv
    <2>3. Place' = Place
      BY <2>1, Places
    <2> QED
      BY <2>1, <2>2, <2>3 DEF Cursor!vars, Cursor!settings
  <1> QED
    BY <1>1, <1>2

(* Every call ends where RowCursor says, with any rows to start from, and  *)
(* whatever other sessions do between two calls (rdd_skipRaw,              *)
(* sdb_rdd_api.c:1174).                                                    *)
THEOREM WorkAreaFollowsCursor == Spec => RefinesRowCursor
  <1>1. Init => WorkInv /\ PosInv
    BY InitWork, InitPos
  <1>2. WorkInv /\ PosInv /\ [Next]_vars => (WorkInv /\ PosInv)' /\ [Cursor!Next]_(Cursor!vars)
    BY NextWork, NextPos
  <1> QED
    BY <1>1, <1>2, PTL DEF Spec, RefinesRowCursor, Cursor!Spec

=============================================================================
