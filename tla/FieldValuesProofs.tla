------------------------- MODULE FieldValuesProofs --------------------------
(***************************************************************************)
(* That the value of a field is kept, for every table, text, number and    *)
(* date: a cell holds what a column of its field can hold, and what the    *)
(* cell of a saved record shows is what the row stands for.                *)
(***************************************************************************)
EXTENDS FieldValues, TLAPS, SequenceTheorems, FiniteSetTheorems, WellFoundedInduction

(* The provers do not know that a literal is a string.                     *)
Text == Seq(STRING \cup {Blank})

(* What the cell of a field holds, and its column when it is not NULL.     *)
Large == [loaded : BOOLEAN, text : Text, mark : Nat]
Cells(f) ==
    CASE f.type = "CHARACTER" -> {t \in Text : Len(t) <= f.length}
      [] f.type = "NUMERIC" -> Int
      [] f.type = "LOGICAL" -> BOOLEAN
      [] f.type \in {"DATE", "TIMESTAMP"} -> Year
      [] f.type \in {"MEMO_LONG", "CLOB"} -> Large

Held(f) ==
    CASE f.type = "CHARACTER" -> {t \in Text : Len(t) <= f.length}
      [] f.type = "NUMERIC" -> {n \in Int : Fits(f, n)}
      [] f.type = "LOGICAL" -> {"Y", "N"}
      [] f.type \in {"DATE", "TIMESTAMP"} -> Year \cup {NoDate}
      [] f.type = "MEMO_LONG" -> Nat
      [] f.type = "CLOB" -> Text

RowOf(f, r) ==
    /\ r = [column |-> r.column, memo |-> r.memo]
    /\ r.column = NULL \/ (r.column = <<Head(r.column)>> /\ Head(r.column) \in Held(f))
    /\ r.memo = NULL \/ (r.memo = <<Head(r.memo)>> /\ Head(r.memo) \in Text)

(* What Shows says of the cell beside any row.                             *)
ShowsIn(f, cell, r) ==
    IF ~IsLarge(f) THEN Plain(f, cell)
    ELSE IF cell.loaded THEN cell.text
    ELSE IF cell.mark > 0 THEN LargeText(f, r) ELSE <<>>

Records(f) ==
    [valid : BOOLEAN, hot : BOOLEAN, append : BOOLEAN, number : BOOLEAN, cell : Cells(f)]

(* A record is hot only while it is valid, a blank one until it is saved;  *)
(* a large field of a blank record has no text but its own.                *)
Hot ==
    /\ record.hot => record.valid
    /\ record.append => record.hot
    /\ (record.append /\ IsLarge(field)) => (record.cell.loaded \/ record.cell.mark = 0)

FieldInv ==
    /\ field \in Columns
    /\ record \in Records(field)
    /\ RowOf(field, row)
    /\ Hot
    /\ ValueIsKept

-----------------------------------------------------------------------------
(* The text of a field.                                                    *)

(* A set of numbers up to some number has a greatest: the intervals above  *)
(* its members have a least one.                                           *)
LEMMA GreatestNumber ==
    ASSUME NEW last \in Nat, NEW A \in SUBSET (1 .. last), A # {}
    PROVE  Max(A) \in A /\ \A m \in A : Max(A) >= m
  <1> DEFINE above == {n + 1 .. last : n \in A}
  <1>1. IsWellFoundedOn(StrictSubsetOrdering(Nat), FiniteSubsetsOf(Nat))
    BY FS_StrictSubsetOrderingWellFounded
  <1>2. above \subseteq FiniteSubsetsOf(Nat) /\ above # {}
    <2>1. ASSUME NEW n \in A
          PROVE  n + 1 .. last \in FiniteSubsetsOf(Nat)
      BY FS_Interval DEF FiniteSubsetsOf
    <2> QED
      BY <2>1
  <1>3. PICK x \in above : \A y \in above : ~ (<<y, x>> \in StrictSubsetOrdering(Nat))
    BY <1>1, <1>2, WFMin
  <1>4. PICK n \in A : x = n + 1 .. last
    OBVIOUS
  <1>5. ASSUME NEW m \in A, m > n
        PROVE  FALSE
    <2>1. m + 1 .. last \in above
      OBVIOUS
    <2>2. m + 1 .. last \subseteq n + 1 .. last /\ m \in n + 1 .. last /\ m \notin m + 1 .. last
      BY <1>5
    <2>3. <<m + 1 .. last, n + 1 .. last>> \in StrictSubsetOrdering(Nat)
      BY <2>2 DEF StrictSubsetOrdering
    <2> QED
      BY <1>3, <1>4, <2>1, <2>3
  <1>6. \A m \in A : n >= m
    BY <1>5
  <1> QED
    BY <1>6, Zenon DEF Max

(* Trimmed keeps what comes before the trailing blanks.                    *)
LEMMA TrimmedIsPrefix ==
    ASSUME NEW t \in Text
    PROVE  \E n \in 0 .. Len(t) : /\ Trimmed(t) = SubSeq(t, 1, n)
                                  /\ n > 0 => t[n] # Blank
                                  /\ \A i \in n + 1 .. Len(t) : t[i] = Blank
  <1> DEFINE shown == {i \in 1 .. Len(t) : t[i] # Blank}
             last == SelectLastInSeq(t, LAMBDA c : c # Blank)
  <1>0. Len(t) \in Nat
    BY DEF Text
  <1>1. CASE shown = {}
    <2>1. last = 0
      BY <1>1 DEF SelectLastInSeq
    <2>2. Trimmed(t) = SubSeq(t, 1, 0)
      BY <2>1 DEF Trimmed
    <2> HIDE DEF last
    <2>3. \A i \in 1 .. Len(t) : t[i] = Blank
      BY <1>1
    <2> QED
      BY <1>0, <2>2, <2>3
  <1>2. CASE shown # {}
    <2>1. last = Max(shown)
      BY <1>2 DEF SelectLastInSeq
    <2>2. last \in shown /\ \A i \in shown : last >= i
      BY <1>0, <1>2, <2>1, GreatestNumber
    <2>3. Trimmed(t) = SubSeq(t, 1, last)
      BY DEF Trimmed
    <2> HIDE DEF last
    <2> QED
      BY <1>0, <2>2, <2>3
  <1> QED
    BY <1>1, <1>2

(* No other prefix does.                                                   *)
LEMMA TrimmedTo ==
    ASSUME NEW t \in Text, NEW n \in 0 .. Len(t), n > 0 => t[n] # Blank,
           \A i \in n + 1 .. Len(t) : t[i] = Blank
    PROVE  Trimmed(t) = SubSeq(t, 1, n)
  <1>0. Len(t) \in Nat
    BY DEF Text
  <1>1. PICK m \in 0 .. Len(t) : /\ Trimmed(t) = SubSeq(t, 1, m)
                                 /\ m > 0 => t[m] # Blank
                                 /\ \A i \in m + 1 .. Len(t) : t[i] = Blank
    BY TrimmedIsPrefix
  <1>2. ~(m < n) /\ ~(n < m)
    BY <1>0, <1>1
  <1> QED
    BY <1>0, <1>1, <1>2

LEMMA TrimmedAgain ==
    ASSUME NEW t \in Text
    PROVE  /\ Trimmed(t) \in Text
           /\ Len(Trimmed(t)) <= Len(t)
           /\ Trimmed(Trimmed(t)) = Trimmed(t)
  <1>0. Len(t) \in Nat /\ \A i \in 1 .. Len(t) : t[i] \in STRING \cup {Blank}
    BY DEF Text
  <1>1. PICK n \in 0 .. Len(t) : /\ Trimmed(t) = SubSeq(t, 1, n)
                                 /\ n > 0 => t[n] # Blank
                                 /\ \A i \in n + 1 .. Len(t) : t[i] = Blank
    BY TrimmedIsPrefix
  <1> DEFINE s == SubSeq(t, 1, n)
  <1>2. s \in Text /\ Len(s) = n /\ \A i \in 1 .. n : s[i] = t[i]
    BY <1>0, SubSeqProperties DEF Text
  <1> HIDE DEF s
  <1>3. Trimmed(s) = SubSeq(s, 1, n)
    BY <1>0, <1>1, <1>2, TrimmedTo
  <1>4. SubSeq(s, 1, n) = s
    BY <1>2, SubSeqFull DEF Text
  <1> QED
    BY <1>0, <1>1, <1>2, <1>3, <1>4 DEF s

(* A blank field, and the parameter of one, stand for no text.             *)
LEMMA BlanksAreTrimmed ==
    ASSUME NEW n \in Nat
    PROVE  /\ [i \in 1 .. n |-> Blank] \in Text
           /\ Len([i \in 1 .. n |-> Blank]) = n
           /\ Trimmed([i \in 1 .. n |-> Blank]) = <<>>
  <1> DEFINE t == [i \in 1 .. n |-> Blank]
  <1>1. t \in Text /\ Len(t) = n /\ \A i \in 1 .. n : t[i] = Blank
    BY DEF Text
  <1> HIDE DEF t
  <1>2. Trimmed(t) = SubSeq(t, 1, 0)
    BY <1>1, TrimmedTo
  <1>3. SubSeq(t, 1, 0) = <<>>
    BY SubSeqEmpty
  <1> QED
    BY <1>1, <1>2, <1>3 DEF t

LEMMA NoText ==
    /\ <<>> \in Text /\ Len(<<>>) = 0 /\ Trimmed(<<>>) = <<>>
    /\ <<Blank>> \in Text /\ Len(<<Blank>>) = 1 /\ Trimmed(<<Blank>>) = <<>>
  <1>1. <<>> \in Text /\ Len(<<>>) = 0 /\ <<Blank>> \in Text /\ Len(<<Blank>>) = 1
    BY DEF Text
  <1>2. Trimmed(<<>>) = SubSeq(<<>>, 1, 0)
    BY <1>1, TrimmedTo
  <1>3. Trimmed(<<Blank>>) = SubSeq(<<Blank>>, 1, 0)
    <2>1. <<Blank>>[1] = Blank
      OBVIOUS
    <2> QED
      BY <1>1, <2>1, TrimmedTo
  <1> QED
    BY <1>1, <1>2, <1>3, SubSeqEmpty

(* TextCell cuts a text to the length of the field, and only a longer one. *)
LEMMA TextOfCell ==
    ASSUME NEW f, f.length \in Nat, NEW t \in Text
    PROVE  /\ TextCell(f, t) \in Text
           /\ Len(TextCell(f, t)) <= f.length
           /\ Len(t) <= f.length => TextCell(f, t) = t
  <1>0. Len(t) \in Nat /\ \A i \in 1 .. Len(t) : t[i] \in STRING \cup {Blank}
    BY DEF Text
  <1> DEFINE n == IF Len(t) > f.length THEN f.length ELSE Len(t)
  <1>1. n \in 0 .. Len(t) /\ n <= f.length /\ (Len(t) <= f.length => n = Len(t))
    BY <1>0
  <1>2. TextCell(f, t) = SubSeq(t, 1, n)
    BY DEF TextCell
  <1> HIDE DEF n
  <1>3. SubSeq(t, 1, n) \in Text /\ Len(SubSeq(t, 1, n)) = n
    BY <1>0, <1>1, SubSeqProperties DEF Text
  <1>4. SubSeq(t, 1, Len(t)) = t
    BY SubSeqFull DEF Text
  <1> QED
    BY <1>1, <1>2, <1>3, <1>4

LEMMA TextOfParam ==
    ASSUME NEW t \in Text, NEW trim
    PROVE  /\ TextParam(t, trim) \in Text
           /\ Len(TextParam(t, trim)) <= Len(t) \/ Len(TextParam(t, trim)) = 1
           /\ Trimmed(TextParam(t, trim)) = Trimmed(t)
  <1>1. Trimmed(t) \in Text /\ Len(Trimmed(t)) <= Len(t) /\ Trimmed(Trimmed(t)) = Trimmed(t)
    BY TrimmedAgain
  <1>2. Len(t) \in Nat
    BY DEF Text
  <1> QED
    BY <1>1, <1>2, NoText DEF TextParam

-----------------------------------------------------------------------------
(* Numbers and dates.                                                      *)

LEMMA FieldsAreTyped ==
    ASSUME NEW f \in Columns, FieldsAssumption
    PROVE  f.type \in Types /\ f.length \in Nat \ {0} /\ f.decimals \in Nat
  <1>1. f \in [type : Types, length : Nat \ {0}, decimals : Nat]
    BY DEF FieldsAssumption
  <1> QED
    BY <1>1

LEMMA NumberOfCell ==
    ASSUME NEW f \in Columns, NEW n \in Int, FieldsAssumption, f.type = "NUMERIC"
    PROVE  /\ NumberCell(f, n) \in Int
           /\ Fits(f, n) => NumberCell(f, n) = n
  <1>1. f.length \in Nat \ {0} /\ f.decimals \in Nat
    BY FieldsAreTyped
  <1>2. Whole(n) \in Int /\ (n % 10 = 0 => Whole(n) = n)
    BY DEF Whole
  <1>3. ASSUME NEW m \in Int
        PROVE  Wrapped(m, 8) \in Int /\ Wrapped(m, 16) \in Int
    BY DEF Wrapped
  <1>4. ASSUME n % 10 = 0, n < 1000, -n < 1000
        PROVE  Wrapped(n, 8) = n
    BY <1>4 DEF Wrapped
  <1>5. ASSUME n % 10 = 0, n < 100000, -n < 100000
        PROVE  Wrapped(n, 16) = n
    BY <1>5 DEF Wrapped
  <1>6. NumberCell(f, n) \in Int
    <2>1. Bits(f) = 8 \/ Bits(f) = 16
      BY DEF Bits
    <2>2. Wrapped(Whole(n), Bits(f)) \in Int
      BY <1>2, <1>3, <2>1
    <2> QED
      BY <1>2, <2>2 DEF NumberCell
  <1>7. ASSUME Fits(f, n)
        PROVE  NumberCell(f, n) = n
    <2>1. CASE f.decimals > 0
      BY <2>1 DEF NumberCell
    <2>2. CASE f.decimals = 0
      <3>1. n % 10 = 0 /\ n < 10^(f.length + 1) /\ -n < 10^(f.length + 1)
        BY <1>1, <1>7, <2>2 DEF Fits
      <3>2. CASE f.length = 1
        BY <1>2, <1>4, <2>2, <3>1, <3>2 DEF NumberCell, Bits
      <3>3. CASE f.length = 2
        BY <1>2, <1>4, <2>2, <3>1, <3>3 DEF NumberCell, Bits
      <3>4. CASE f.length = 3
        BY <1>2, <1>5, <2>2, <3>1, <3>4 DEF NumberCell, Bits
      <3>5. CASE f.length = 4
        BY <1>2, <1>5, <2>2, <3>1, <3>5 DEF NumberCell, Bits
      <3>6. CASE f.length > 4
        BY <1>1, <1>2, <2>2, <3>1, <3>6 DEF NumberCell
      <3> QED
        BY <1>1, <3>2, <3>3, <3>4, <3>5, <3>6
    <2> QED
      BY <1>1, <2>1, <2>2
  <1> QED
    BY <1>6, <1>7

LEMMA DateOfCell ==
    ASSUME NEW y \in Year
    PROVE  DateCell(y) = y
  BY DEF DateCell, Year

LEMMA NoDateIsNoYear ==
    /\ \A y \in Year : y # NoDate
    /\ DateCell(NoDate) = 0
  <1>1. \A n \in Int : n < 0 /\ n >= -5000 => n % 65536 > 9999
    OBVIOUS
  <1>2. \A n \in Int : n < 0 /\ n >= -5000 => DateCell(n) = 0
    BY <1>1 DEF DateCell
  <1>3. NoDate \in Int /\ NoDate < 0 /\ NoDate >= -5000
    BY DEF NoDate
  <1>4. \A y \in Year : y \in Int /\ y >= 0
    BY DEF Year
  <1>5. DateCell(NoDate) = 0
    BY <1>2, <1>3
  <1>6. \A y \in Year : y # NoDate
    BY <1>3, <1>4
  <1> QED
    BY <1>5, <1>6

-----------------------------------------------------------------------------
(* The cell of a record, put, blanked and read.                            *)

LEMMA TextsAreTyped ==
    ASSUME FieldsAssumption
    PROVE  Texts \subseteq Text
  <1>1. Texts \subseteq Seq(STRING)
    BY DEF FieldsAssumption
  <1>2. Seq(STRING) \subseteq Text
    BY SeqMonotonic DEF Text
  <1> QED
    BY <1>1, <1>2

(* What the definitions say of each type.                                  *)
LEMMA TextField ==
    ASSUME NEW f, f.type = "CHARACTER"
    PROVE  /\ ~IsLarge(f)
           /\ Cells(f) = {t \in Text : Len(t) <= f.length}
           /\ Held(f) = {t \in Text : Len(t) <= f.length}
           /\ \A c : Plain(f, c) = Trimmed(c)
           /\ \A c, r : ShowsIn(f, c, r) = Trimmed(c)
  <1>1. ~IsLarge(f)
    BY DEF IsLarge
  <1>2. \A c : Plain(f, c) = Trimmed(c)
    BY DEF Plain
  <1>3. Cells(f) = {t \in Text : Len(t) <= f.length}
    BY DEF Cells
  <1>4. Held(f) = {t \in Text : Len(t) <= f.length}
    BY DEF Held
  <1> QED
    BY <1>1, <1>2, <1>3, <1>4 DEF ShowsIn

LEMMA PlainField ==
    ASSUME NEW f, f.type \in {"NUMERIC", "LOGICAL", "DATE", "TIMESTAMP"}
    PROVE  /\ ~IsLarge(f)
           /\ \A c : Plain(f, c) = c
           /\ \A c, r : ShowsIn(f, c, r) = c
  <1>1. ~IsLarge(f)
    BY DEF IsLarge
  <1>2. \A c : Plain(f, c) = c
    BY DEF Plain
  <1> QED
    BY <1>1, <1>2 DEF ShowsIn

LEMMA NumberField ==
    ASSUME NEW f, f.type = "NUMERIC"
    PROVE  Cells(f) = Int /\ Held(f) = {n \in Int : Fits(f, n)}
  BY DEF Cells, Held

LEMMA LogicalField ==
    ASSUME NEW f, f.type = "LOGICAL"
    PROVE  Cells(f) = BOOLEAN /\ Held(f) = {"Y", "N"}
  BY DEF Cells, Held

LEMMA DateField ==
    ASSUME NEW f, f.type \in {"DATE", "TIMESTAMP"}
    PROVE  Cells(f) = Year /\ Held(f) = Year \cup {NoDate}
  BY DEF Cells, Held

LEMMA LargeField ==
    ASSUME NEW f, f.type \in {"MEMO_LONG", "CLOB"}
    PROVE  /\ IsLarge(f)
           /\ Cells(f) = Large
           /\ \A c : Plain(f, c) = c
           /\ f.type = "MEMO_LONG" => Held(f) = Nat
           /\ f.type = "CLOB" => Held(f) = Text
  <1>1. IsLarge(f)
    BY DEF IsLarge
  <1>2. Cells(f) = Large
    BY DEF Cells
  <1>3. \A c : Plain(f, c) = c
    BY DEF Plain
  <1>4. f.type = "MEMO_LONG" => Held(f) = Nat
    BY DEF Held
  <1>5. f.type = "CLOB" => Held(f) = Text
    BY DEF Held
  <1> QED
    BY <1>1, <1>2, <1>3, <1>4, <1>5

LEMMA LoadedField ==
    ASSUME NEW f, f.type \in {"MEMO_LONG", "CLOB"}, NEW t \in Text
    PROVE  /\ Loaded(t) \in Large /\ Loaded(t).loaded /\ Loaded(t).text = t
           /\ \A r : ShowsIn(f, Loaded(t), r) = t
  <1>1. Loaded(t) \in Large
    BY DEF Loaded, Large
  <1>2. Loaded(t).loaded /\ Loaded(t).text = t
    BY DEF Loaded
  <1> QED
    BY <1>1, <1>2, LargeField DEF ShowsIn

LEMMA MarkedField ==
    ASSUME NEW f, f.type \in {"MEMO_LONG", "CLOB"}, NEW n \in Nat
    PROVE  /\ Marked(n) \in Large /\ Marked(n).mark = n /\ ~Marked(n).loaded
           /\ \A r : ShowsIn(f, Marked(n), r) = IF n > 0 THEN LargeText(f, r) ELSE <<>>
  <1>1. Marked(n) \in Large
    BY NoText DEF Marked, Large
  <1>2. Marked(n).mark = n /\ ~Marked(n).loaded
    BY DEF Marked
  <1> QED
    BY <1>1, <1>2, LargeField DEF ShowsIn

(* The cell of a value that is put: it is shown if it fits the field.      *)
LEMMA PutShows ==
    ASSUME NEW f \in Columns, NEW v \in Values(f), FieldsAssumption
    PROVE  /\ setFieldValue(f, v) \in Cells(f)
           /\ IsLarge(f) => setFieldValue(f, v).loaded
           /\ Fits(f, v) => \A r : ShowsIn(f, setFieldValue(f, v), r) = Plain(f, v)
  <1>1. CASE f.type = "CHARACTER"
    <2>1. v \in Text /\ f.length \in Nat
      BY <1>1, TextsAreTyped, FieldsAreTyped DEF Values
    <2>2. setFieldValue(f, v) = TextCell(f, v)
      BY <1>1 DEF setFieldValue, IsLarge
    <2>3. Fits(f, v) => Len(v) <= f.length
      BY <1>1 DEF Fits
    <2> QED
      BY <1>1, <2>1, <2>2, <2>3, TextOfCell, TextField
  <1>2. CASE f.type = "NUMERIC"
    <2>1. v \in Int
      BY <1>2 DEF Values, FieldsAssumption
    <2>2. setFieldValue(f, v) = NumberCell(f, v)
      BY <1>2 DEF setFieldValue, IsLarge
    <2> QED
      BY <1>2, <2>1, <2>2, NumberOfCell, NumberField, PlainField
  <1>3. CASE f.type \in {"LOGICAL", "DATE", "TIMESTAMP"}
    <2>1. Years \subseteq Year
      BY DEF FieldsAssumption
    <2>2. setFieldValue(f, v) = v
      BY <1>3 DEF setFieldValue, IsLarge
    <2>3. f.type = "LOGICAL" => v \in BOOLEAN
      BY DEF Values
    <2>4. f.type \in {"DATE", "TIMESTAMP"} => v \in Year
      BY <2>1 DEF Values
    <2>5. v \in Cells(f)
      <3>1. CASE f.type = "LOGICAL"
        BY <2>3, <3>1, LogicalField
      <3>2. CASE f.type \in {"DATE", "TIMESTAMP"}
        BY <2>4, <3>2, DateField
      <3> QED
        BY <1>3, <3>1, <3>2
    <2> QED
      BY <1>3, <2>2, <2>5, PlainField
  <1>4. CASE f.type \in {"MEMO_LONG", "CLOB"}
    <2>1. v \in Text
      BY <1>4, TextsAreTyped DEF Values
    <2>2. setFieldValue(f, v) = Loaded(v)
      BY <1>4 DEF setFieldValue, IsLarge
    <2> QED
      BY <1>4, <2>1, <2>2, LoadedField, LargeField
  <1> QED
    BY <1>1, <1>2, <1>3, <1>4, FieldsAreTyped DEF Types

(* The cell of a blank record.                                             *)
LEMMA BlankShows ==
    ASSUME NEW f \in Columns, FieldsAssumption
    PROVE  /\ setFieldEmpty(f) \in Cells(f)
           /\ IsLarge(f) => setFieldEmpty(f).mark = 0
           /\ \A r : ShowsIn(f, setFieldEmpty(f), r)
                       = Plain(f, IF IsLarge(f) THEN <<>> ELSE setFieldEmpty(f))
  <1>1. CASE f.type = "CHARACTER"
    <2>1. f.length \in Nat
      BY FieldsAreTyped
    <2>2. setFieldEmpty(f) = [i \in 1 .. f.length |-> Blank]
      BY <1>1 DEF setFieldEmpty, IsLarge
    <2>3. setFieldEmpty(f) \in Text /\ Len(setFieldEmpty(f)) = f.length
      BY <2>1, <2>2, BlanksAreTrimmed
    <2> QED
      BY <1>1, <2>1, <2>3, TextField
  <1>2. CASE f.type \in {"NUMERIC", "DATE", "TIMESTAMP"}
    <2>1. setFieldEmpty(f) = 0
      BY <1>2 DEF setFieldEmpty, IsLarge
    <2>2. 0 \in Cells(f)
      <3>1. CASE f.type = "NUMERIC"
        BY <3>1, NumberField
      <3>2. CASE f.type \in {"DATE", "TIMESTAMP"}
        <4>1. 0 \in Year
          BY DEF Year
        <4> QED
          BY <3>2, <4>1, DateField
      <3> QED
        BY <1>2, <3>1, <3>2
    <2> QED
      BY <1>2, <2>1, <2>2, PlainField
  <1>3. CASE f.type = "LOGICAL"
    <2>1. setFieldEmpty(f) \in Cells(f)
      BY <1>3, LogicalField DEF setFieldEmpty, IsLarge
    <2> QED
      BY <1>3, <2>1, PlainField
  <1>4. CASE f.type \in {"MEMO_LONG", "CLOB"}
    <2>1. setFieldEmpty(f) = Marked(0)
      BY <1>4 DEF setFieldEmpty, IsLarge
    <2> QED
      BY <1>4, <2>1, MarkedField, LargeField
  <1> QED
    BY <1>1, <1>2, <1>3, <1>4, FieldsAreTyped DEF Types

(* The cell that is read from a row shows what the row stands for.         *)
LEMMA ReadShows ==
    ASSUME NEW f \in Columns, NEW r, RowOf(f, r), FieldsAssumption
    PROVE  /\ FromColumn(f, r.column) \in Cells(f)
           /\ ShowsIn(f, FromColumn(f, r.column), r) = Stands(f, r)
           /\ Plain(f, Stands(f, r)) = Stands(f, r)
           /\ IsLarge(f) => LargeText(f, r) \in Text
  <1> DEFINE c == Head(r.column)
  <1>1. r.column = NULL \/ (r.column = <<c>> /\ r.column # NULL /\ c \in Held(f))
    BY DEF RowOf
  <1>2. CASE f.type = "CHARACTER"
    <2>1. FromColumn(f, r.column) = IF r.column = NULL THEN <<>> ELSE TextCell(f, c)
      BY <1>2 DEF FromColumn, IsLarge
    <2>2. Stands(f, r) = IF r.column = NULL THEN <<>> ELSE Trimmed(c)
      BY <1>2 DEF Stands
    <2> HIDE DEF c
    <2>3. CASE r.column = NULL
      BY <1>2, <2>1, <2>2, <2>3, NoText, FieldsAreTyped, TextField
    <2>4. CASE r.column # NULL
      <3>1. c \in Text /\ Len(c) <= f.length
        BY <1>1, <1>2, <2>4, TextField
      <3>2. TextCell(f, c) = c
        BY <3>1, TextOfCell, FieldsAreTyped
      <3> QED
        BY <1>2, <2>1, <2>2, <2>4, <3>1, <3>2, TrimmedAgain, TextField
    <2> QED
      BY <2>3, <2>4
  <1>3. CASE f.type = "NUMERIC"
    <2>1. FromColumn(f, r.column) = IF r.column = NULL THEN 0 ELSE NumberCell(f, c)
      BY <1>3 DEF FromColumn, IsLarge
    <2>2. Stands(f, r) = IF r.column = NULL THEN 0 ELSE c
      BY <1>3 DEF Stands
    <2> HIDE DEF c
    <2>3. CASE r.column = NULL
      BY <1>3, <2>1, <2>2, <2>3, NumberField, PlainField
    <2>4. CASE r.column # NULL
      <3>1. c \in Int /\ Fits(f, c)
        BY <1>1, <1>3, <2>4, NumberField
      <3>2. NumberCell(f, c) = c
        BY <1>3, <3>1, NumberOfCell
      <3> QED
        BY <1>3, <2>1, <2>2, <2>4, <3>1, <3>2, NumberField, PlainField
    <2> QED
      BY <2>3, <2>4
  <1>4. CASE f.type = "LOGICAL"
    <2>1. FromColumn(f, r.column) = (r.column = <<"Y">>) /\ Stands(f, r) = (r.column = <<"Y">>)
      BY <1>4 DEF FromColumn, Stands, IsLarge
    <2>2. (r.column = <<"Y">>) \in Cells(f)
      BY <1>4, LogicalField
    <2> QED
      BY <1>4, <2>1, <2>2, PlainField
  <1>5. CASE f.type \in {"DATE", "TIMESTAMP"}
    <2>1. FromColumn(f, r.column) = IF r.column = NULL THEN 0 ELSE DateCell(c)
      BY <1>5 DEF FromColumn, IsLarge
    <2>2. Stands(f, r) = IF r.column \in {NULL, <<NoDate>>} THEN 0 ELSE c
      BY <1>5 DEF Stands
    <2>3. r.column # NULL => (r.column = <<NoDate>> <=> c = NoDate)
      BY <1>1
    <2> HIDE DEF c
    <2>4. FromColumn(f, r.column) \in Year /\ Stands(f, r) = FromColumn(f, r.column)
      <3>1. CASE r.column = NULL
        BY <2>1, <2>2, <3>1 DEF Year
      <3>2. CASE r.column # NULL /\ c = NoDate
        <4>1. FromColumn(f, r.column) = DateCell(NoDate) /\ Stands(f, r) = 0
          BY <2>1, <2>2, <2>3, <3>2
        <4> QED
          BY <4>1, NoDateIsNoYear DEF Year
      <3>3. CASE r.column # NULL /\ c # NoDate
        <4>1. c \in Year
          BY <1>1, <1>5, <3>3, DateField
        <4>2. FromColumn(f, r.column) = DateCell(c) /\ Stands(f, r) = c
          BY <2>1, <2>2, <2>3, <3>3
        <4> QED
          BY <4>1, <4>2, DateOfCell
      <3> QED
        BY <3>1, <3>2, <3>3
    <2> QED
      BY <1>5, <2>4, DateField, PlainField
  <1>6. CASE f.type = "MEMO_LONG"
    <2>1. FromColumn(f, r.column) = IF r.column = NULL THEN Marked(0) ELSE Marked(c)
      BY <1>6 DEF FromColumn, IsLarge
    <2>2. Stands(f, r) = IF r.column \in {NULL, <<0>>} THEN <<>> ELSE LargeText(f, r)
      BY <1>6 DEF Stands
    <2>3. r.column # NULL => (r.column = <<0>> <=> c = 0)
      BY <1>1
    <2>4. LargeText(f, r) \in Text
      BY <1>6, NoText DEF LargeText, RowOf
    <2> HIDE DEF c
    <2>5. CASE r.column = NULL
      BY <1>6, <2>1, <2>2, <2>4, <2>5, MarkedField, LargeField
    <2>6. CASE r.column # NULL
      <3>1. c \in Nat
        BY <1>1, <1>6, <2>6, LargeField
      <3>2. Stands(f, r) = IF c = 0 THEN <<>> ELSE LargeText(f, r)
        BY <2>2, <2>3, <2>6
      <3>3. c > 0 <=> c # 0
        BY <3>1
      <3> QED
        BY <1>6, <2>1, <2>4, <2>6, <3>1, <3>2, <3>3, MarkedField, LargeField
    <2> QED
      BY <2>5, <2>6
  <1>7. CASE f.type = "CLOB"
    <2>1. FromColumn(f, r.column) = IF r.column = NULL THEN Marked(0) ELSE Marked(1)
      BY <1>7 DEF FromColumn, IsLarge
    <2>2. Stands(f, r) = LargeText(f, r)
      BY <1>7 DEF Stands
    <2>3. LargeText(f, r) = IF r.column = NULL THEN <<>> ELSE c
      BY <1>7 DEF LargeText
    <2> HIDE DEF c
    <2>4. LargeText(f, r) \in Text
      BY <1>1, <1>7, <2>3, NoText, LargeField
    <2> QED
      BY <1>7, <2>1, <2>2, <2>3, <2>4, MarkedField, LargeField
  <1> QED
    BY <1>2, <1>3, <1>4, <1>5, <1>6, <1>7, FieldsAreTyped DEF Types

-----------------------------------------------------------------------------
(* The row of a record, as others write it and as it is saved.             *)

LEMMA NumberThatFits ==
    ASSUME NEW f, f.type = "NUMERIC", NEW n \in Int, Fits(f, n)
    PROVE  n \in Held(f)
  BY NumberField

LEMMA WrittenColumn ==
    ASSUME NEW f, NEW c \in Held(f), NEW m, m = NULL \/ (m = <<Head(m)>> /\ Head(m) \in Text)
    PROVE  RowOf(f, [column |-> <<c>>, memo |-> m])
  BY DEF RowOf

LEMMA MemoOfText ==
    ASSUME NEW t \in Text
    PROVE  LET m == LongParam(t)
           IN  m = NULL \/ (m = <<Head(m)>> /\ Head(m) \in Text)
  BY DEF LongParam

(* The rows other sessions write are rows of the table.                    *)
LEMMA RowsAreTyped ==
    ASSUME NEW f \in Columns, NEW r \in Rows(f), FieldsAssumption
    PROVE  RowOf(f, r)
  <1>1. CASE r = [column |-> NULL, memo |-> NULL]
    BY <1>1 DEF RowOf
  <1>2. ASSUME NEW v \in Values(f), Fits(f, v), NEW c, NEW m,
               r = [column |-> <<c>>, memo |-> m],
               c = CASE f.type = "LOGICAL" -> LogicalParam(v)
                     [] f.type \in {"DATE", "TIMESTAMP"} -> DateParam(v)
                     [] f.type = "MEMO_LONG" -> Len(v)
                     [] OTHER -> v,
               m = IF f.type = "MEMO_LONG" THEN LongParam(v) ELSE NULL
        PROVE  RowOf(f, r)
    <2>1. CASE f.type = "MEMO_LONG"
      <3>1. v \in Text
        BY <2>1, TextsAreTyped DEF Values
      <3>2. c = Len(v) /\ m = LongParam(v)
        BY <1>2, <2>1
      <3>3. c \in Held(f)
        BY <2>1, <3>1, <3>2, LargeField DEF Text
      <3> QED
        BY <1>2, <3>1, <3>2, <3>3, MemoOfText, WrittenColumn
    <2>2. CASE f.type # "MEMO_LONG"
      <3>1. m = NULL
        BY <1>2, <2>2
      <3>2. CASE f.type = "CHARACTER"
        <4>1. c = v /\ v \in Text /\ Len(v) <= f.length
          BY <1>2, <3>2, TextsAreTyped DEF Values, Fits
        <4>2. c \in Held(f)
          BY <3>2, <4>1, TextField
        <4> QED
          BY <1>2, <3>1, <4>2, WrittenColumn
      <3>3. CASE f.type = "NUMERIC"
        <4>1. c = v /\ v \in Int
          BY <1>2, <3>3 DEF Values, FieldsAssumption
        <4> QED
          BY <1>2, <3>1, <3>3, <4>1, NumberThatFits, WrittenColumn
      <3>4. CASE f.type = "LOGICAL"
        <4>1. c \in Held(f)
          BY <1>2, <3>4, LogicalField DEF LogicalParam
        <4> QED
          BY <1>2, <3>1, <4>1, WrittenColumn
      <3>5. CASE f.type \in {"DATE", "TIMESTAMP"}
        <4>1. v \in Year
          BY <3>5 DEF Values, FieldsAssumption
        <4>2. c = DateParam(v)
          BY <1>2, <3>5
        <4>3. c \in Held(f)
          BY <3>5, <4>1, <4>2, DateField DEF DateParam
        <4> QED
          BY <1>2, <3>1, <4>3, WrittenColumn
      <3>6. CASE f.type = "CLOB"
        <4>1. c = v /\ v \in Text
          BY <1>2, <3>6, TextsAreTyped DEF Values
        <4>2. c \in Held(f)
          BY <3>6, <4>1, LargeField
        <4> QED
          BY <1>2, <3>1, <4>2, WrittenColumn
      <3> QED
        BY <2>2, <3>2, <3>3, <3>4, <3>5, <3>6, FieldsAreTyped DEF Types
    <2> QED
      BY <2>1, <2>2
  <1> QED
    BY <1>1, <1>2 DEF Rows

LEMMA OneValue ==
    ASSUME NEW c
    PROVE  <<c>> # NULL /\ Head(<<c>>) = c
  BY DEF NULL

LEMMA StillFits ==
    ASSUME NEW length \in Nat \ {0}, NEW a \in Nat, NEW b \in Nat, a <= length, b <= a \/ b = 1
    PROVE  b <= length
  OBVIOUS

LEMMA MemoKeepsText ==
    ASSUME NEW t
    PROVE  (IF LongParam(t) = NULL THEN <<>> ELSE Head(LongParam(t))) = t
  <1>1. CASE t = <<>>
    BY <1>1 DEF LongParam
  <1>2. CASE t # <<>>
    <2>1. LongParam(t) = <<t>>
      BY <1>2 DEF LongParam
    <2> QED
      BY <2>1, OneValue
  <1> QED
    BY <1>1, <1>2

(* A parameter that is accepted is a value of the column, and the row that *)
(* is written stands for what the cell of the record shows.                *)
LEMMA SavedShows ==
    ASSUME NEW f \in Columns, FieldsAssumption, NEW cell \in Cells(f), NEW r, RowOf(f, r),
           NEW insertion, NEW c \in stmtSetParam(f, cell, insertion),
           NEW m, m = IF WritesMemo(f, cell) THEN LongParam(cell.text)
                      ELSE IF insertion THEN NULL ELSE r.memo,
           insertion /\ IsLarge(f) => cell.loaded \/ cell.mark = 0,
           NEW s, s = [column |-> <<c>>, memo |-> m]
    PROVE  /\ RowOf(f, s)
           /\ ShowsIn(f, cell, s) = ShowsIn(f, cell, r)
           /\ Stands(f, s) = ShowsIn(f, cell, r)
  <1>0. s.column = <<c>> /\ s.column # NULL /\ Head(s.column) = c /\ s.memo = m
    <2>1. s.column = <<c>> /\ s.memo = m
      OBVIOUS
    <2> QED
      BY <2>1, OneValue
  <1>1. r.memo = NULL \/ (r.memo = <<Head(r.memo)>> /\ Head(r.memo) \in Text)
    BY DEF RowOf
  <1>2. ASSUME f.type # "MEMO_LONG"
        PROVE  m = NULL \/ (m = <<Head(m)>> /\ Head(m) \in Text)
    BY <1>1, <1>2 DEF WritesMemo
  <1>3. CASE f.type = "CHARACTER"
    <2>1. cell \in Text /\ Len(cell) <= f.length /\ f.length \in Nat \ {0}
      BY <1>3, TextField, FieldsAreTyped
    <2>2. c = TextParam(cell, insertion)
      BY <1>3 DEF stmtSetParam
    <2>3. c \in Text /\ Len(c) <= f.length /\ Trimmed(c) = Trimmed(cell)
      <3>1. Len(cell) \in Nat /\ Len(c) \in Nat
        BY <2>1, <2>2, TextOfParam DEF Text
      <3>2. Len(c) <= Len(cell) \/ Len(c) = 1
        BY <2>1, <2>2, TextOfParam
      <3>3. Len(c) <= f.length
        BY <2>1, <3>1, <3>2, StillFits
      <3> QED
        BY <2>1, <2>2, <3>3, TextOfParam
    <2>4. c \in Held(f)
      BY <1>3, <2>3, TextField
    <2>5. Stands(f, s) = Trimmed(c)
      BY <1>0, <1>3 DEF Stands
    <2> QED
      BY <1>2, <1>3, <2>3, <2>4, <2>5, WrittenColumn, TextField
  <1>4. CASE f.type = "NUMERIC"
    <2>1. cell \in Int
      BY <1>4, NumberField
    <2>2. c = cell /\ Fits(f, c)
      BY <1>4 DEF stmtSetParam, NumberParam
    <2>3. c \in Held(f)
      BY <1>4, <2>1, <2>2, NumberThatFits
    <2>4. Stands(f, s) = c
      BY <1>0, <1>4 DEF Stands
    <2> QED
      BY <1>2, <1>4, <2>2, <2>3, <2>4, WrittenColumn, PlainField
  <1>5. CASE f.type = "LOGICAL"
    <2>1. cell \in BOOLEAN
      BY <1>5, LogicalField
    <2>2. c = LogicalParam(cell)
      BY <1>5 DEF stmtSetParam
    <2>3. c \in Held(f)
      BY <1>5, <2>2, LogicalField DEF LogicalParam
    <2>4. Stands(f, s) = (<<c>> = <<"Y">>)
      BY <1>0, <1>5 DEF Stands
    <2>5. Stands(f, s) = cell
      BY <2>1, <2>2, <2>4 DEF LogicalParam
    <2> QED
      BY <1>2, <1>5, <2>3, <2>5, WrittenColumn, PlainField
  <1>6. CASE f.type = "DATE"
    <2>1. cell \in Year
      BY <1>6, DateField
    <2>2. c = DateParam(cell)
      BY <1>6 DEF stmtSetParam
    <2>3. c \in Held(f)
      BY <1>6, <2>1, <2>2, DateField DEF DateParam
    <2>4. Stands(f, s) = IF <<c>> \in {NULL, <<NoDate>>} THEN 0 ELSE c
      BY <1>0, <1>6 DEF Stands
    <2>5. <<c>> \in {NULL, <<NoDate>>} <=> c = NoDate
      BY <1>0
    <2>6. cell # NoDate
      BY <2>1, NoDateIsNoYear
    <2>7. Stands(f, s) = cell
      BY <2>2, <2>4, <2>5, <2>6 DEF DateParam
    <2> QED
      BY <1>2, <1>6, <2>3, <2>7, WrittenColumn, PlainField
  <1>7. CASE f.type = "TIMESTAMP"
    <2>1. ItemType(f, cell) = "number"
      BY <1>7 DEF ItemType, IsLarge
    <2>2. c \in TimestampParam(f, cell)
      BY <1>7 DEF stmtSetParam
    <2> QED
      BY <2>1, <2>2 DEF TimestampParam
  <1>8. CASE f.type = "MEMO_LONG"
    <2>1. cell \in Large /\ IsLarge(f)
      BY <1>8, LargeField
    <2>2. ItemType(f, cell) = IF cell.loaded THEN "text" ELSE "number"
      BY <1>8 DEF ItemType, IsLarge
    <2>3. c = IF ItemType(f, cell) = "text" THEN Len(cell.text) ELSE cell.mark
      BY <1>8 DEF stmtSetParam
    <2>4. Stands(f, s) = IF <<c>> \in {NULL, <<0>>} THEN <<>> ELSE LargeText(f, s)
      BY <1>0, <1>8 DEF Stands
    <2>5. <<c>> \in {NULL, <<0>>} <=> c = 0
      BY <1>0
    <2>6. LargeText(f, s) = IF m = NULL THEN <<>> ELSE Head(m)
      BY <1>0, <1>8 DEF LargeText
    <2>7. LargeText(f, r) = IF r.memo = NULL THEN <<>> ELSE Head(r.memo)
      BY <1>8 DEF LargeText
    <2>8. CASE cell.loaded
      <3>1. cell.text \in Text
        BY <2>1 DEF Large
      <3>2. c = Len(cell.text) /\ m = LongParam(cell.text)
        BY <1>8, <2>2, <2>3, <2>8 DEF WritesMemo
      <3>3. c \in Held(f)
        BY <1>8, <3>1, <3>2, LargeField DEF Text
      <3>4. RowOf(f, s)
        BY <3>1, <3>2, <3>3, MemoOfText, WrittenColumn
      <3>5. c = 0 <=> cell.text = <<>>
        BY <3>1, <3>2 DEF Text
      <3>6. LargeText(f, s) = cell.text
        BY <2>6, <3>2, MemoKeepsText
      <3>7. Stands(f, s) = cell.text
        BY <2>4, <2>5, <3>5, <3>6
      <3> QED
        BY <2>1, <2>8, <3>4, <3>7 DEF ShowsIn
    <2>9. CASE ~cell.loaded
      <3>1. cell.mark \in Nat
        BY <2>1 DEF Large
      <3>2. c = cell.mark /\ m = IF insertion THEN NULL ELSE r.memo
        BY <1>8, <2>2, <2>3, <2>9 DEF WritesMemo
      <3>3. c \in Held(f)
        BY <1>8, <3>1, <3>2, LargeField
      <3>4. RowOf(f, s)
        BY <1>1, <3>2, <3>3, WrittenColumn
      <3>5. insertion => c = 0
        BY <2>1, <2>9, <3>2
      <3>6. ~insertion => LargeText(f, s) = LargeText(f, r)
        BY <2>6, <2>7, <3>2
      <3>7. c > 0 <=> c # 0
        BY <3>1, <3>2
      <3>8. Stands(f, s) = IF c > 0 THEN LargeText(f, r) ELSE <<>>
        BY <2>4, <2>5, <3>5, <3>6, <3>7
      <3> QED
        BY <2>1, <2>9, <3>2, <3>4, <3>5, <3>6, <3>7, <3>8 DEF ShowsIn
    <2> QED
      BY <2>8, <2>9
  <1>9. CASE f.type = "CLOB"
    <2>1. c \in LobParam(f, cell)
      BY <1>9 DEF stmtSetParam
    <2> QED
      BY <2>1 DEF LobParam, TakesText, IsDynamic
  <1> QED
    BY <1>3, <1>4, <1>5, <1>6, <1>7, <1>8, <1>9, FieldsAreTyped DEF Types

-----------------------------------------------------------------------------
(* The invariant.                                                          *)

LEMMA ShowsBesideRow ==
    /\ \A f, c : Shows(f, c) = ShowsIn(f, c, row)
    /\ (\A f, c : Shows(f, c) = ShowsIn(f, c, row))'
  BY DEF Shows, ShowsIn

LEMMA KeptNow ==
    ValueIsKept <=>
        (record.valid /\ (record.number \/ record.append) /\ Fits(field, expected) =>
            /\ ShowsIn(field, record.cell, row) = Plain(field, expected)
            /\ ~record.hot => Stands(field, row) = Plain(field, expected))
  BY ShowsBesideRow DEF ValueIsKept

LEMMA KeptNext ==
    ValueIsKept' <=>
        (record'.valid /\ (record'.number \/ record'.append) /\ Fits(field', expected') =>
            /\ ShowsIn(field', record'.cell, row') = Plain(field', expected')
            /\ ~record'.hot => Stands(field', row') = Plain(field', expected'))
  BY ShowsBesideRow DEF ValueIsKept

LEMMA FieldInit ==
    ASSUME FieldsAssumption, Init
    PROVE  FieldInv
  <1>1. field \in Columns /\ row \in Rows(field)
    BY DEF Init
  <1>2. RowOf(field, row)
    BY <1>1, RowsAreTyped
  <1>3. setFieldEmpty(field) \in Cells(field)
    BY <1>1, BlankShows
  <1>4. record \in Records(field) /\ ~record.valid /\ ~record.hot /\ ~record.append
    BY <1>3 DEF Init, Records
  <1>5. Hot /\ ValueIsKept
    BY <1>4 DEF Hot, ValueIsKept
  <1> QED
    BY <1>1, <1>2, <1>4, <1>5 DEF FieldInv

LEMMA OthersWriteKeeps ==
    ASSUME FieldsAssumption, FieldInv, OthersWrite
    PROVE  FieldInv'
  <1>1. RowOf(field', row')
    BY RowsAreTyped DEF FieldInv, OthersWrite
  <1>2. Hot' /\ ~record'.valid /\ field' = field /\ record' = record
    BY DEF FieldInv, Hot, OthersWrite
  <1> QED
    BY <1>1, <1>2, KeptNext DEF FieldInv

LEMMA ReadKeeps ==
    ASSUME FieldsAssumption, FieldInv, Read
    PROVE  FieldInv'
  <1>1. /\ field' = field /\ row' = row /\ expected' = Stands(field, row)
        /\ record' = [record EXCEPT !.valid = TRUE, !.number = TRUE,
                                    !.cell = FromColumn(field, row.column)]
    BY DEF Read
  <1>2. field \in Columns /\ RowOf(field, row) /\ record \in Records(field)
    BY DEF FieldInv
  <1>3. /\ FromColumn(field, row.column) \in Cells(field)
        /\ ShowsIn(field, FromColumn(field, row.column), row) = Stands(field, row)
        /\ Plain(field, Stands(field, row)) = Stands(field, row)
    BY <1>2, ReadShows
  <1>4. ~record.hot /\ ~record.append
    BY DEF FieldInv, Hot, Read
  <1>5. /\ record' \in Records(field) /\ record'.cell = FromColumn(field, row.column)
        /\ ~record'.hot /\ ~record'.append
    BY <1>1, <1>2, <1>3, <1>4 DEF Records
  <1>6. Hot'
    BY <1>5 DEF Hot
  <1>7. ValueIsKept'
    BY <1>1, <1>3, <1>5, KeptNext
  <1> QED
    BY <1>1, <1>2, <1>5, <1>6, <1>7 DEF FieldInv

LEMMA LeaveKeeps ==
    ASSUME FieldInv, Leave
    PROVE  FieldInv'
  <1>1. /\ field' = field /\ row' = row /\ record \in Records(field)
        /\ record' = [record EXCEPT !.valid = FALSE]
    BY DEF FieldInv, Leave
  <1>2. /\ record' \in Records(field) /\ ~record'.valid
        /\ record'.hot = record.hot /\ record'.append = record.append
    BY <1>1 DEF Records
  <1>3. ~record.hot /\ ~record.append
    BY DEF FieldInv, Hot, Leave
  <1>4. Hot' /\ ValueIsKept'
    BY <1>2, <1>3, KeptNext DEF Hot
  <1> QED
    BY <1>1, <1>2, <1>4 DEF FieldInv

LEMMA AppendBlankKeeps ==
    ASSUME FieldsAssumption, FieldInv, AppendBlank
    PROVE  FieldInv'
  <1>1. /\ field' = field /\ row' = row
        /\ expected' = IF IsLarge(field) THEN <<>> ELSE setFieldEmpty(field)
        /\ record' = [valid |-> TRUE, hot |-> TRUE, append |-> TRUE, number |-> FALSE,
                      cell |-> setFieldEmpty(field)]
    BY DEF AppendBlank
  <1>2. field \in Columns /\ RowOf(field, row)
    BY DEF FieldInv
  <1>3. /\ setFieldEmpty(field) \in Cells(field)
        /\ IsLarge(field) => setFieldEmpty(field).mark = 0
        /\ ShowsIn(field, setFieldEmpty(field), row) = Plain(field, expected')
    BY <1>1, <1>2, BlankShows
  <1>4. /\ record' \in Records(field) /\ record'.cell = setFieldEmpty(field)
        /\ record'.valid /\ record'.hot
    BY <1>1, <1>3 DEF Records
  <1>5. Hot'
    BY <1>1, <1>3, <1>4 DEF Hot
  <1>6. ValueIsKept'
    BY <1>1, <1>3, <1>4, KeptNext
  <1> QED
    BY <1>1, <1>2, <1>4, <1>5, <1>6 DEF FieldInv

LEMMA PutValueKeeps ==
    ASSUME FieldsAssumption, FieldInv, PutValue
    PROVE  FieldInv'
  <1>1. PICK v \in Values(field) :
            /\ record' = [record EXCEPT !.hot = TRUE, !.cell = setFieldValue(field, v)]
            /\ expected' = v
    BY DEF PutValue
  <1>2. field' = field /\ row' = row /\ record.valid
    BY DEF PutValue
  <1>3. field \in Columns /\ RowOf(field, row) /\ record \in Records(field)
    BY DEF FieldInv
  <1>4. /\ setFieldValue(field, v) \in Cells(field)
        /\ IsLarge(field) => setFieldValue(field, v).loaded
        /\ Fits(field, v) => ShowsIn(field, setFieldValue(field, v), row) = Plain(field, v)
    BY <1>3, PutShows
  <1>5. /\ record' \in Records(field) /\ record'.cell = setFieldValue(field, v)
        /\ record'.valid /\ record'.hot
    BY <1>1, <1>2, <1>3, <1>4 DEF Records
  <1>6. Hot'
    BY <1>2, <1>4, <1>5 DEF Hot
  <1>7. ValueIsKept'
    BY <1>1, <1>2, <1>4, <1>5, KeptNext
  <1> QED
    BY <1>2, <1>3, <1>5, <1>6, <1>7 DEF FieldInv

LEMMA GetValueKeeps ==
    ASSUME FieldsAssumption, FieldInv, GetValue
    PROVE  FieldInv'
  <1>1. PICK t \in IF record.cell.mark = 0 THEN {<<>>}
                   ELSE IF record.number \/ field.type = "CLOB" THEN {LargeText(field, row)}
                   ELSE Texts :
            record' = [record EXCEPT !.cell = Loaded(t)]
    BY DEF GetValue
  <1>2. /\ field' = field /\ row' = row /\ expected' = expected
        /\ record.valid /\ ~record.cell.loaded /\ field.type \in {"MEMO_LONG", "CLOB"}
    BY DEF GetValue, IsLarge
  <1>3. field \in Columns /\ RowOf(field, row) /\ record \in Records(field)
    BY DEF FieldInv
  <1>4. IsLarge(field) /\ Cells(field) = Large /\ record.cell \in Large
    BY <1>2, <1>3, LargeField DEF Records
  <1>5. t \in Text
    BY <1>1, <1>3, <1>4, NoText, TextsAreTyped, ReadShows
  <1>6. /\ Loaded(t) \in Large /\ Loaded(t).loaded
        /\ ShowsIn(field, Loaded(t), row) = t
    BY <1>2, <1>5, LoadedField
  <1>7. ShowsIn(field, record.cell, row) = IF record.cell.mark > 0 THEN LargeText(field, row) ELSE <<>>
    BY <1>2, <1>4 DEF ShowsIn
  <1>8. record.cell.mark \in Nat
    BY <1>4 DEF Large
  <1>9. record.append => record.cell.mark = 0
    BY <1>2, <1>4 DEF FieldInv, Hot
  <1>10. record.number \/ record.append => t = ShowsIn(field, record.cell, row)
    <2>1. CASE record.cell.mark = 0
      BY <1>1, <1>7, <2>1
    <2>2. CASE record.cell.mark # 0
      <3>1. record.cell.mark > 0
        BY <1>8, <2>2
      <3> QED
        BY <1>1, <1>7, <1>9, <2>2, <3>1
    <2> QED
      BY <2>1, <2>2
  <1>11. /\ record' \in Records(field) /\ record'.cell = Loaded(t)
         /\ record'.valid = record.valid /\ record'.hot = record.hot
         /\ record'.append = record.append /\ record'.number = record.number
    BY <1>1, <1>3, <1>4, <1>6 DEF Records
  <1>12. Hot'
    BY <1>2, <1>6, <1>11 DEF FieldInv, Hot
  <1>13. ValueIsKept'
    BY <1>2, <1>6, <1>10, <1>11, KeptNow, KeptNext DEF FieldInv
  <1> QED
    BY <1>2, <1>3, <1>11, <1>12, <1>13 DEF FieldInv

LEMMA GoHotKeeps ==
    ASSUME FieldInv, GoHot
    PROVE  FieldInv'
  <1>1. /\ field' = field /\ row' = row /\ expected' = expected /\ record \in Records(field)
        /\ record' = [record EXCEPT !.hot = TRUE] /\ record.valid
    BY DEF FieldInv, GoHot
  <1>2. /\ record' \in Records(field) /\ record'.hot /\ record'.cell = record.cell
        /\ record'.valid = record.valid
        /\ record'.append = record.append /\ record'.number = record.number
    BY <1>1 DEF Records
  <1>3. Hot'
    BY <1>1, <1>2 DEF FieldInv, Hot
  <1>4. ValueIsKept'
    BY <1>1, <1>2, KeptNow, KeptNext DEF FieldInv
  <1> QED
    BY <1>1, <1>2, <1>3, <1>4 DEF FieldInv

LEMMA WriteFailsKeeps ==
    ASSUME FieldInv, WriteFails
    PROVE  FieldInv'
  <1>1. /\ field' = field /\ row' = row /\ expected' = expected /\ record \in Records(field)
        /\ record' = [record EXCEPT !.number = FALSE]
    BY DEF FieldInv, WriteFails
  <1>2. /\ record' \in Records(field) /\ record'.hot = record.hot /\ record'.cell = record.cell
        /\ record'.valid = record.valid
        /\ record'.append = record.append /\ ~record'.number
    BY <1>1 DEF Records
  <1>3. Hot'
    BY <1>1, <1>2 DEF FieldInv, Hot
  <1>4. ValueIsKept'
    BY <1>1, <1>2, KeptNow, KeptNext DEF FieldInv
  <1> QED
    BY <1>1, <1>2, <1>3, <1>4 DEF FieldInv

(* A memo that fails leaves its column written, and the text in the cell.  *)
LEMMA FailedMemo ==
    ASSUME NEW f \in Columns, FieldsAssumption, NEW cell \in Cells(f), NEW r, RowOf(f, r),
           NEW insertion, NEW c \in stmtSetParam(f, cell, insertion),
           WritesMemo(f, cell),
           NEW m, m = NULL \/ m = r.memo,
           NEW s, s = [column |-> <<c>>, memo |-> m]
    PROVE  RowOf(f, s) /\ ShowsIn(f, cell, s) = ShowsIn(f, cell, r)
  <1>1. f.type = "MEMO_LONG" /\ ItemType(f, cell) = "text" /\ IsLarge(f) /\ cell \in Large
    BY LargeField DEF WritesMemo
  <1>2. ItemType(f, cell) = IF cell.loaded THEN "text" ELSE "number"
    BY <1>1 DEF ItemType, IsLarge
  <1>3. cell.loaded
    BY <1>1, <1>2
  <1>4. c = Len(cell.text)
    BY <1>1 DEF stmtSetParam
  <1>5. cell.text \in Text
    BY <1>1 DEF Large
  <1>6. c \in Held(f)
    BY <1>1, <1>4, <1>5, LargeField DEF Text
  <1>7. m = NULL \/ (m = <<Head(m)>> /\ Head(m) \in Text)
    BY DEF RowOf
  <1> QED
    BY <1>1, <1>3, <1>6, <1>7, WrittenColumn DEF ShowsIn

LEMMA InsertRecordKeeps ==
    ASSUME FieldsAssumption, FieldInv, InsertRecord
    PROVE  FieldInv'
  <1>1. /\ field' = field /\ expected' = expected /\ record.hot /\ record.append
    BY DEF InsertRecord
  <1>2. PICK c \in stmtSetParam(field, record.cell, TRUE) :
            \/ /\ row' = [column |-> <<c>>, memo |-> IF WritesMemo(field, record.cell)
                                                     THEN LongParam(record.cell.text) ELSE NULL]
               /\ record' = [record EXCEPT !.number = TRUE, !.hot = FALSE, !.append = FALSE]
            \/ /\ WritesMemo(field, record.cell)
               /\ row' = [column |-> <<c>>, memo |-> NULL]
               /\ record' = [record EXCEPT !.number = TRUE]
    BY DEF InsertRecord
  <1>3. field \in Columns /\ RowOf(field, row) /\ record \in Records(field)
    BY DEF FieldInv
  <1>4. record.cell \in Cells(field) /\ record.valid
    BY <1>1, <1>3 DEF FieldInv, Hot, Records
  <1>5. IsLarge(field) => record.cell.loaded \/ record.cell.mark = 0
    BY <1>1 DEF FieldInv, Hot
  <1>6. Fits(field, expected) => ShowsIn(field, record.cell, row) = Plain(field, expected)
    BY <1>1, <1>4, KeptNow DEF FieldInv
  <1>7. PICK insertion : insertion = TRUE
    OBVIOUS
  <1>8. c \in stmtSetParam(field, record.cell, insertion)
    BY <1>2, <1>7
  <1>9. insertion
    BY <1>7
  <1>10. CASE /\ row' = [column |-> <<c>>, memo |-> IF WritesMemo(field, record.cell)
                                                   THEN LongParam(record.cell.text) ELSE NULL]
             /\ record' = [record EXCEPT !.number = TRUE, !.hot = FALSE, !.append = FALSE]
    <2>1. PICK m : m = IF WritesMemo(field, record.cell) THEN LongParam(record.cell.text) ELSE NULL
      OBVIOUS
    <2>2. row' = [column |-> <<c>>, memo |-> m]
      BY <1>10, <2>1
    <2>3. m = IF WritesMemo(field, record.cell) THEN LongParam(record.cell.text)
              ELSE IF insertion THEN NULL ELSE row.memo
      BY <1>9, <2>1
    <2>4. /\ RowOf(field, row')
          /\ ShowsIn(field, record.cell, row') = ShowsIn(field, record.cell, row)
          /\ Stands(field, row') = ShowsIn(field, record.cell, row)
      BY <1>3, <1>4, <1>5, <1>8, <2>2, <2>3, SavedShows
    <2>5. /\ record' \in Records(field) /\ record'.cell = record.cell
          /\ ~record'.hot /\ ~record'.append
      BY <1>3, <1>10 DEF Records
    <2>6. Hot'
      BY <2>5 DEF Hot
    <2>7. ValueIsKept'
      BY <1>1, <1>6, <2>4, <2>5, KeptNext
    <2> QED
      BY <1>1, <1>3, <2>4, <2>5, <2>6, <2>7 DEF FieldInv
  <1>11. CASE /\ WritesMemo(field, record.cell)
             /\ row' = [column |-> <<c>>, memo |-> NULL]
             /\ record' = [record EXCEPT !.number = TRUE]
    <2>1. /\ RowOf(field, row')
          /\ ShowsIn(field, record.cell, row') = ShowsIn(field, record.cell, row)
      BY <1>3, <1>4, <1>8, <1>11, FailedMemo
    <2>2. /\ record' \in Records(field) /\ record'.cell = record.cell /\ record'.valid
          /\ record'.hot /\ record'.append
      BY <1>1, <1>3, <1>4, <1>11 DEF Records
    <2>3. Hot'
      BY <1>1, <1>5, <2>2 DEF Hot
    <2>4. ValueIsKept'
      BY <1>1, <1>6, <2>1, <2>2, KeptNext
    <2> QED
      BY <1>1, <1>3, <2>1, <2>2, <2>3, <2>4 DEF FieldInv
  <1> QED
    BY <1>2, <1>10, <1>11

LEMMA UpdateRecordKeeps ==
    ASSUME FieldsAssumption, FieldInv, UpdateRecord
    PROVE  FieldInv'
  <1>1. /\ field' = field /\ expected' = expected /\ record.hot /\ ~record.append
    BY DEF UpdateRecord
  <1>2. PICK c \in stmtSetParam(field, record.cell, FALSE) :
            \/ /\ row' = IF ~record.number THEN row
                         ELSE [column |-> <<c>>, memo |-> IF WritesMemo(field, record.cell)
                                                          THEN LongParam(record.cell.text) ELSE row.memo]
               /\ record' = [record EXCEPT !.hot = FALSE]
            \/ /\ WritesMemo(field, record.cell)
               /\ row' = IF ~record.number THEN row ELSE [row EXCEPT !.column = <<c>>]
               /\ record' = record
    BY DEF UpdateRecord
  <1>3. field \in Columns /\ RowOf(field, row) /\ record \in Records(field)
    BY DEF FieldInv
  <1>4. record.cell \in Cells(field) /\ record.valid
    BY <1>1, <1>3 DEF FieldInv, Hot, Records
  <1>5. record.number /\ Fits(field, expected) =>
            ShowsIn(field, record.cell, row) = Plain(field, expected)
    BY <1>1, <1>4, KeptNow DEF FieldInv
  <1>6. PICK insertion : insertion = FALSE
    OBVIOUS
  <1>7. c \in stmtSetParam(field, record.cell, insertion)
    BY <1>2, <1>6
  <1>8. ~insertion
    BY <1>6
  <1>9. CASE ~record.number
    <2>1. row' = row
      BY <1>2, <1>9
    <2>2. /\ record' \in Records(field) /\ record'.cell = record.cell /\ record'.valid = record.valid
          /\ record'.append = record.append /\ record'.number = record.number
      BY <1>2, <1>3 DEF Records
    <2>3. Hot'
      BY <1>1, <1>4, <2>2 DEF Hot
    <2>4. ValueIsKept'
      BY <1>1, <1>9, <2>2, KeptNext
    <2> QED
      BY <1>1, <1>3, <2>1, <2>2, <2>3, <2>4 DEF FieldInv
  <1>10. CASE /\ record.number
             /\ row' = [column |-> <<c>>, memo |-> IF WritesMemo(field, record.cell)
                                                   THEN LongParam(record.cell.text) ELSE row.memo]
             /\ record' = [record EXCEPT !.hot = FALSE]
    <2>1. PICK m : m = IF WritesMemo(field, record.cell) THEN LongParam(record.cell.text) ELSE row.memo
      OBVIOUS
    <2>2. row' = [column |-> <<c>>, memo |-> m]
      BY <1>10, <2>1
    <2>3. /\ RowOf(field, row')
          /\ ShowsIn(field, record.cell, row') = ShowsIn(field, record.cell, row)
          /\ Stands(field, row') = ShowsIn(field, record.cell, row)
      BY <1>3, <1>4, <1>7, <1>8, <2>1, <2>2, SavedShows
    <2>4. /\ record' \in Records(field) /\ record'.cell = record.cell /\ ~record'.hot
          /\ record'.append = record.append
      BY <1>3, <1>10 DEF Records
    <2>5. Hot'
      BY <1>1, <2>4 DEF Hot
    <2>6. ValueIsKept'
      BY <1>1, <1>5, <1>10, <2>3, <2>4, KeptNext
    <2> QED
      BY <1>1, <1>3, <2>3, <2>4, <2>5, <2>6 DEF FieldInv
  <1>11. CASE /\ record.number
             /\ WritesMemo(field, record.cell)
             /\ row' = [row EXCEPT !.column = <<c>>]
             /\ record' = record
    <2>1. PICK m : m = row.memo /\ WritesMemo(field, record.cell)
      BY <1>11
    <2>2. row' = [column |-> <<c>>, memo |-> m]
      BY <1>3, <1>11, <2>1 DEF RowOf
    <2>3. /\ RowOf(field, row')
          /\ ShowsIn(field, record.cell, row') = ShowsIn(field, record.cell, row)
      BY <1>3, <1>4, <1>7, <2>1, <2>2, FailedMemo
    <2>4. Hot'
      BY <1>1, <1>4, <1>11 DEF Hot
    <2>5. ValueIsKept'
      BY <1>1, <1>5, <1>11, <2>3, KeptNext
    <2> QED
      BY <1>1, <1>3, <1>11, <2>3, <2>4, <2>5 DEF FieldInv
  <1> QED
    BY <1>2, <1>9, <1>10, <1>11

(* What the program finds in a field is what it put there, or what the row *)
(* held, and a saved record's row and memo stand for it, whatever the      *)
(* field's type, length and decimals and whatever the texts, numbers and   *)
(* years: sdb_record_setValue, stmtSetParam and resultsetGetFieldValue.    *)
THEOREM FieldsKeepTheirValues ==
    ASSUME FieldsAssumption
    PROVE  Spec => []ValueIsKept
  <1>1. Init => FieldInv
    BY FieldInit
  <1>2. FieldInv /\ [Next]_vars => FieldInv'
    <2> SUFFICES ASSUME FieldInv, [Next]_vars
                 PROVE  FieldInv'
      OBVIOUS
    <2>1. CASE UNCHANGED vars
      <3>1. field' = field /\ record' = record /\ row' = row /\ expected' = expected
        BY <2>1 DEF vars
      <3>2. Hot'
        BY <3>1 DEF FieldInv, Hot
      <3>3. ValueIsKept'
        BY <3>1, KeptNow, KeptNext DEF FieldInv
      <3> QED
        BY <3>1, <3>2, <3>3 DEF FieldInv
    <2>2. CASE Next
      BY <2>2, OthersWriteKeeps, ReadKeeps, LeaveKeeps, AppendBlankKeeps, GetValueKeeps,
         PutValueKeeps, GoHotKeeps, WriteFailsKeeps, InsertRecordKeeps, UpdateRecordKeeps
      DEF Next
    <2> QED
      BY <2>1, <2>2
  <1>3. FieldInv => ValueIsKept
    BY DEF FieldInv
  <1> QED
    BY <1>1, <1>2, <1>3, PTL DEF Spec
=============================================================================
