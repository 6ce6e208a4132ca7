---------------------------- MODULE AppendsProofs ---------------------------
(***************************************************************************)
(* For any number of programs, any size of the blocks and any rows of      *)
(* others: the types of Appends, and that as long as next_recno was not    *)
(* set back no append meets the number of another one.                     *)
(*                                                                         *)
(* What has to be kept for this is where a number can be.  It is left in   *)
(* the block of one program, or in the hand of one append, or in rows of   *)
(* the programs; and all of them are at most nextRecno + CacheSize, so     *)
(* that the next block is above them.                                      *)
(***************************************************************************)
EXTENDS Appends, TLAPS

Highest == nextRecno + CacheSize

InBlock(p, n) == table[p].next < n /\ n <= table[p].max + 1
InHand(p, n) == append[p].step \in {"execute", "stuck"} /\ append[p].number = n
InRows(n) == n \in rows \ Outside \/ \E p \in Program : n \in pending[p]

BlocksApart ==
    \A p \in Program, n \in Nat : InBlock(p, n) =>
        /\ n <= Highest
        /\ ~InRows(n)
        /\ \A q \in Program : q # p => ~InBlock(q, n)

HandsApart ==
    \A p \in Program, n \in Nat : InHand(p, n) =>
        /\ n <= Highest
        /\ \A q \in Program : ~InBlock(q, n)
        /\ \A q \in Program : q # p => ~InHand(q, n)
        /\ ~append[p].again => ~InRows(n)

RowsBelow == \A n \in Nat : InRows(n) => n <= Highest
MaximaBelow == \A p \in Program : table[p].max < Highest

Apart == MaximaBelow /\ BlocksApart /\ HandsApart /\ RowsBelow

IInv == TypeOK /\ (reset \/ Apart)

AppendRecord == [step: Step, number: Nat, tries: Nat \ {0}, again: BOOLEAN]
IsAppend(r) ==
    /\ r \in AppendRecord
    /\ r.step = "idle" => r = Idle
    /\ r.again => r.tries > 1
    /\ r.step = "stuck" => r.again

-----------------------------------------------------------------------------
(* An append that does not run is a proper one (insertRecord).             *)
LEMMA IdleIsAppend == IsAppend(Idle)
<1>1. /\ Idle \in AppendRecord
      /\ Idle.step = "idle" /\ Idle.again = FALSE
  BY DEF Idle, AppendRecord, Step
<1> QED
  BY <1>1 DEF IsAppend

(* The initial state has the types (tables have no block yet).             *)
LEMMA InitTypes == Init => TypeOK
<1> SUFFICES ASSUME Init PROVE TypeOK
  OBVIOUS
<1>1. /\ nextRecno \in Nat
      /\ rows \subseteq Nat
      /\ pending \in [Program -> SUBSET Nat]
      /\ open \in [Program -> BOOLEAN]
      /\ reset \in BOOLEAN
  BY AppendsAssumption DEF Init
<1>2. table \in [Program -> [next: Nat, max: Int]]
  BY DEF Init, NoCache
<1>3. \A p \in Program : append[p] = Idle /\ pending[p] = {}
  BY DEF Init
<1>4. append \in [Program -> AppendRecord]
  BY IdleIsAppend DEF Init, IsAppend
<1> QED
  BY <1>1, <1>2, <1>3, <1>4, IdleIsAppend DEF TypeOK, IsAppend, AppendRecord

(* The types of an append, of which a program has one (insertRecord).      *)
LEMMA AppendsAre == TypeOK => \A p \in Program : IsAppend(append[p])
  BY DEF TypeOK, IsAppend, AppendRecord

(* A step of one append keeps the types of all (insertRecord).             *)
LEMMA AppendKept ==
  ASSUME TypeOK, NEW p \in Program, NEW r, IsAppend(r), append' = [append EXCEPT ![p] = r]
  PROVE  append' \in [Program -> AppendRecord] /\ \A q \in Program : IsAppend(append'[q])
<1>1. append \in [Program -> AppendRecord]
  BY DEF TypeOK, AppendRecord
<1>2. append' \in [Program -> AppendRecord]
  BY <1>1 DEF IsAppend
<1>3. ASSUME NEW q \in Program PROVE IsAppend(append'[q])
  <2>1. append'[q] = IF q = p THEN r ELSE append[q]
    BY <1>1
  <2> QED
    BY <2>1, AppendsAre
<1> QED
  BY <1>2, <1>3

(* What the types of the next state are, append by append.                 *)
LEMMA TypesOf ==
  ASSUME nextRecno' \in Nat, rows' \subseteq Nat, pending' \in [Program -> SUBSET Nat],
         open' \in [Program -> BOOLEAN], table' \in [Program -> [next: Nat, max: Int]],
         reset' \in BOOLEAN, append' \in [Program -> AppendRecord],
         \A q \in Program : IsAppend(append'[q]),
         \A q \in Program : ~open'[q] => pending'[q] = {}
  PROVE  TypeOK'
  BY DEF TypeOK, IsAppend, AppendRecord

(* A number that is drawn keeps the types (sdb_table_nextPK).              *)
LEMMA DrawnTypes ==
  ASSUME TypeOK, NEW p \in Program, append[p].step = "number",
         NEW t \in [next: Nat, max: Int], Drawn(p, t)
  PROVE  /\ table' \in [Program -> [next: Nat, max: Int]]
         /\ append' \in [Program -> AppendRecord]
         /\ \A q \in Program : IsAppend(append'[q])
<1> DEFINE r == [append[p] EXCEPT !.step = "execute", !.number = t.next + 1, !.again = append[p].tries > 1]
<1>1. append[p] \in AppendRecord
  BY DEF TypeOK, AppendRecord
<1>2. /\ r \in AppendRecord
      /\ r.step = "execute" /\ r.tries = append[p].tries /\ r.again = (append[p].tries > 1)
  <2>1. t.next + 1 \in Nat /\ (append[p].tries > 1) \in BOOLEAN /\ "execute" \in Step
    BY DEF Step
  <2>2. \A a \in AppendRecord, n \in Nat, b \in BOOLEAN :
           /\ [a EXCEPT !.step = "execute", !.number = n, !.again = b] \in AppendRecord
           /\ [a EXCEPT !.step = "execute", !.number = n, !.again = b].step = "execute"
           /\ [a EXCEPT !.step = "execute", !.number = n, !.again = b].tries = a.tries
           /\ [a EXCEPT !.step = "execute", !.number = n, !.again = b].again = b
    BY <2>1 DEF AppendRecord
  <2> QED
    BY <1>1, <2>1, <2>2 DEF AppendRecord
<1>3. append' = [append EXCEPT ![p] = r]
  BY DEF Drawn
<1>4. [t EXCEPT !.next = t.next + 1] \in [next: Nat, max: Int]
  OBVIOUS
<1>5. table' = [table EXCEPT ![p] = [t EXCEPT !.next = t.next + 1]]
  BY DEF Drawn
<1> HIDE DEF r
<1>6. table' \in [Program -> [next: Nat, max: Int]]
  BY <1>4, <1>5 DEF TypeOK
<1>7. IsAppend(r)
  BY <1>2 DEF IsAppend
<1> QED
  BY <1>3, <1>6, <1>7, AppendKept

(* The types of a block that is reserved (sdb_table_cacheNextPK).          *)
LEMMA BlockTypes == \A n \in Nat : Block(n) \in [next: Nat, max: Int]
  BY AppendsAssumption DEF Block

(* Taking a number keeps the types (tableNextPK).                          *)
LEMMA TakeTypes == ASSUME TypeOK, NEW p \in Program, TakeNumber(p) PROVE TypeOK'
<1>1. table[p] \in [next: Nat, max: Int]
  BY DEF TypeOK
<1>2. UNCHANGED <<rows, pending, open>> /\ append[p].step = "number"
  BY DEF TakeNumber
<1>3. CASE FromCache(p)
  <2>1. Drawn(p, table[p]) /\ UNCHANGED <<nextRecno, reset>>
    BY <1>3 DEF FromCache
  <2> QED
    BY <1>1, <1>2, <2>1, DrawnTypes, TypesOf DEF TypeOK
<1>4. CASE FromServer(p)
  <2>1. Drawn(p, Block(nextRecno')) /\ nextRecno' \in Nat /\ UNCHANGED reset
    BY <1>4, AppendsAssumption DEF FromServer, TypeOK
  <2> QED
    BY <1>2, <2>1, BlockTypes, DrawnTypes, TypesOf DEF TypeOK
<1>5. CASE FromHighest(p)
  <2>1. Drawn(p, Block(nextRecno')) /\ nextRecno' \in Nat /\ reset' \in BOOLEAN
    BY <1>5 DEF FromHighest, TypeOK
  <2> QED
    BY <1>2, <2>1, BlockTypes, DrawnTypes, TypesOf DEF TypeOK
<1>6. CASE NumberFailed(p)
  <2>1. append' = [append EXCEPT ![p] = Idle] /\ UNCHANGED <<nextRecno, table, reset>>
    BY <1>6 DEF NumberFailed
  <2> QED
    BY <1>2, <2>1, IdleIsAppend, AppendKept, TypesOf DEF TypeOK
<1> QED
  BY <1>3, <1>4, <1>5, <1>6 DEF TakeNumber

(* What an INSERT changes in the rows (commitIfAuto).                      *)
LEMMA InsertedTypes ==
  ASSUME TypeOK, NEW p \in Program, Inserted(p), UNCHANGED open
  PROVE  /\ rows' \subseteq Nat
         /\ pending' \in [Program -> SUBSET Nat]
         /\ \A q \in Program : ~open'[q] => pending'[q] = {}
<1>1. append[p].number \in Nat
  BY DEF TypeOK
<1>2. CASE open[p]
  <2>1. pending' = [pending EXCEPT ![p] = pending[p] \cup {append[p].number}] /\ rows' = rows
    BY <1>2 DEF Inserted
  <2>2. pending[p] \cup {append[p].number} \in SUBSET Nat
    BY <1>1 DEF TypeOK
  <2>3. pending' \in [Program -> SUBSET Nat]
    BY <2>1, <2>2 DEF TypeOK
  <2>4. \A q \in Program : q # p => pending'[q] = pending[q]
    BY <2>1 DEF TypeOK
  <2> QED
    BY <1>2, <2>1, <2>3, <2>4 DEF TypeOK
<1>3. CASE ~open[p]
  BY <1>1, <1>3 DEF Inserted, TypeOK
<1> QED
  BY <1>2, <1>3

(* What becomes of an append that is given up (insertRecord).              *)
LEMMA GivenUpTypes ==
  ASSUME TypeOK, NEW p \in Program, append[p].step \in {"execute", "stuck"}, GivenUp(p)
  PROVE  append' \in [Program -> AppendRecord] /\ \A q \in Program : IsAppend(append'[q])
<1> DEFINE r == [append[p] EXCEPT !.step = "stuck"]
<1>1. append \in [Program -> AppendRecord] /\ IsAppend(append[p])
  BY AppendsAre DEF TypeOK, AppendRecord
<1>2. append' = [append EXCEPT ![p] = IF append[p].again THEN r ELSE Idle]
  BY <1>1 DEF GivenUp
<1>3. r \in AppendRecord /\ r.step = "stuck" /\ r.again = append[p].again /\ r.tries = append[p].tries
  BY <1>1 DEF AppendRecord, Step
<1> HIDE DEF r
<1>4. CASE append[p].again
  <2>1. IsAppend(r)
    BY <1>1, <1>3, <1>4 DEF IsAppend
  <2>2. append' = [append EXCEPT ![p] = r]
    BY <1>2, <1>4
  <2> QED
    BY <2>1, <2>2, AppendKept
<1>5. CASE ~append[p].again
  <2>1. append' = [append EXCEPT ![p] = Idle]
    BY <1>2, <1>5
  <2> QED
    BY <2>1, AppendKept, IdleIsAppend
<1> QED
  BY <1>4, <1>5

(* A refused INSERT keeps the types (IS_RETRY_INSERT).                     *)
LEMMA RefuseTypes == ASSUME TypeOK, NEW p \in Program, Refuse(p) PROVE TypeOK'
<1> DEFINE r == [append[p] EXCEPT !.step = "number", !.tries = append[p].tries + 1]
<1>1. /\ append[p].step \in {"execute", "stuck"}
      /\ UNCHANGED <<nextRecno, rows, pending, open, table, reset>>
  BY DEF Refuse
<1>2. append' \in [Program -> AppendRecord] /\ \A q \in Program : IsAppend(append'[q])
  <2>1. CASE append[p].tries < MaxAttempts
    <3>1. append \in [Program -> AppendRecord] /\ IsAppend(append[p])
      BY AppendsAre DEF TypeOK, AppendRecord
    <3>2. append' = [append EXCEPT ![p] = r]
      BY <2>1, <3>1 DEF Refuse
    <3>3. append[p].tries \in Nat \ {0} /\ append[p].tries + 1 \in Nat \ {0} /\ "number" \in Step
      BY <3>1 DEF AppendRecord, Step
    <3>4. r \in AppendRecord /\ r.step = "number" /\ r.tries = append[p].tries + 1
      BY <3>1, <3>3 DEF AppendRecord
    <3> HIDE DEF r
    <3>5. IsAppend(r)
      BY <3>3, <3>4 DEF IsAppend
    <3> QED
      BY <3>2, <3>5, AppendKept
  <2>2. CASE ~(append[p].tries < MaxAttempts)
    BY <1>1, <2>2, GivenUpTypes DEF Refuse
  <2> QED
    BY <2>1, <2>2
<1> QED
  BY <1>1, <1>2, TypesOf DEF TypeOK

(* Every step keeps the types (insertRecord and what it calls).            *)
LEMMA TypesKept == ASSUME TypeOK, [Next]_vars PROVE TypeOK'
<1>1. ASSUME NEW p \in Program, Start(p) PROVE TypeOK'
  <2> DEFINE r == [append[p] EXCEPT !.step = "number"]
  <2>1. append[p] = Idle /\ append \in [Program -> AppendRecord]
    BY <1>1 DEF Start, TypeOK, AppendRecord
  <2>2. append' = [append EXCEPT ![p] = r]
    BY <1>1, <2>1 DEF Start
  <2>3. append[p] \in AppendRecord /\ append[p].again = FALSE /\ "number" \in Step
    BY <2>1, IdleIsAppend DEF IsAppend, Idle, Step
  <2>5. r \in AppendRecord /\ r.step = "number" /\ r.again = FALSE
    BY <2>3 DEF AppendRecord
  <2> HIDE DEF r
  <2>4. IsAppend(r)
    BY <2>5 DEF IsAppend
  <2> QED
    BY <1>1, <2>2, <2>4, AppendKept, TypesOf DEF Start, TypeOK
<1>2. ASSUME NEW p \in Program, TakeNumber(p) PROVE TypeOK'
  BY <1>2, TakeTypes
<1>3. ASSUME NEW p \in Program, Accept(p) PROVE TypeOK'
  <2>1. append' \in [Program -> AppendRecord] /\ \A q \in Program : IsAppend(append'[q])
    <3>1. CASE append[p].again
      <4>1. append' = append
        BY <1>3, <3>1 DEF Accept
      <4> QED
        BY <4>1, AppendsAre DEF TypeOK, AppendRecord
    <3>2. CASE ~append[p].again
      BY <1>3, <3>2, IdleIsAppend, AppendKept DEF Accept
    <3> QED
      BY <3>1, <3>2
  <2>2. Inserted(p) /\ UNCHANGED <<nextRecno, open, table, reset>>
    BY <1>3 DEF Accept
  <2> QED
    BY <2>1, <2>2, InsertedTypes, TypesOf DEF TypeOK
<1>4. ASSUME NEW p \in Program, Refuse(p) PROVE TypeOK'
  BY <1>4, RefuseTypes
<1>5. ASSUME NEW p \in Program, Fail(p) PROVE TypeOK'
  BY <1>5, GivenUpTypes, TypesOf DEF Fail, TypeOK
<1>6. ASSUME NEW p \in Program, ExecuteStuck(p) PROVE TypeOK'
  <2>1. Inserted(p) /\ UNCHANGED <<nextRecno, open, table, append, reset>>
    BY <1>6 DEF ExecuteStuck
  <2> QED
    BY <2>1, AppendsAre, InsertedTypes, TypesOf DEF TypeOK, AppendRecord
<1>7. ASSUME NEW p \in Program, Begin(p) PROVE TypeOK'
  BY <1>7 DEF Begin, TypeOK
<1>8. ASSUME NEW p \in Program, Commit(p) \/ Rollback(p) PROVE TypeOK'
  BY <1>8 DEF Commit, Rollback, End, TypeOK
<1>9. ASSUME NEW p \in Program, Crash(p) PROVE TypeOK'
  <2>1. append' \in [Program -> AppendRecord] /\ \A q \in Program : IsAppend(append'[q])
    BY <1>9, IdleIsAppend, AppendKept DEF Crash
  <2>2. table' \in [Program -> [next: Nat, max: Int]]
    BY <1>9 DEF Crash, NoCache, TypeOK
  <2> QED
    BY <1>9, <2>1, <2>2, TypesOf DEF Crash, TypeOK
<1>10. ASSUME NEW n \in Outside, OthersInsert(n) PROVE TypeOK'
  BY <1>10, AppendsAssumption DEF OthersInsert, TypeOK
<1>11. CASE UNCHANGED vars
  BY <1>11 DEF vars, TypeOK
<1> QED
  BY <1>1, <1>2, <1>3, <1>4, <1>5, <1>6, <1>7, <1>8, <1>9, <1>10, <1>11 DEF Next

(* An append has a number, what is not committed belongs to a transaction, *)
(* and only an append that was refused repeats itself (insertRecord).      *)
THEOREM AppendsTypes == Spec => []TypeOK
  BY InitTypes, TypesKept, PTL DEF Spec

-----------------------------------------------------------------------------
(* The initial state has no block, no append and no rows but of others.    *)
LEMMA InitApart == Init => Apart
<1> SUFFICES ASSUME Init PROVE Apart
  OBVIOUS
<1>1. /\ nextRecno = 0 /\ rows \subseteq Outside /\ CacheSize \in Nat \ {0}
      /\ \A p \in Program : /\ table[p].next = 1 /\ table[p].max = 0
                            /\ append[p].step = "idle" /\ pending[p] = {}
  BY AppendsAssumption DEF Init, NoCache, Idle
<1>2. \A n : ~InRows(n)
  BY <1>1 DEF InRows
<1>3. \A p \in Program, n \in Nat : ~InBlock(p, n) /\ ~InHand(p, n)
  BY <1>1 DEF InBlock, InHand
<1> QED
  BY <1>1, <1>2, <1>3 DEF Apart, MaximaBelow, BlocksApart, HandsApart, RowsBelow, Highest

(* Nothing new comes to a block, to an append or to the rows (commit and   *)
(* crash, for two).                                                        *)
LEMMA FewerApart ==
  ASSUME TypeOK, Apart, nextRecno' = nextRecno,
         \A p \in Program : table'[p].max < Highest,
         \A p \in Program, n \in Nat : InBlock(p, n)' => InBlock(p, n),
         \A p \in Program, n \in Nat :
             InHand(p, n)' => InHand(p, n) /\ (~append'[p].again => ~append[p].again),
         \A n \in Nat : InRows(n)' => InRows(n)
  PROVE  Apart'
<1>1. Highest' = Highest
  BY DEF Highest
<1>2. MaximaBelow'
  BY <1>1 DEF MaximaBelow
<1>3. BlocksApart'
  BY <1>1 DEF Apart, BlocksApart
<1>4. HandsApart'
  BY <1>1 DEF Apart, HandsApart
<1>5. RowsBelow'
  BY <1>1 DEF Apart, RowsBelow
<1> QED
  BY <1>2, <1>3, <1>4, <1>5 DEF Apart

(* The number in the hand of an append comes to the rows (insertRecord).   *)
LEMMA InsertApart ==
  ASSUME TypeOK, Apart, NEW p \in Program, nextRecno' = nextRecno, table' = table,
         InHand(p, append[p].number),
         \A q \in Program, n \in Nat : InHand(q, n)' => InHand(q, n) /\ append'[q] = append[q],
         \A n \in Nat : InHand(p, n)' => append[p].again,
         \A n \in Nat : InRows(n)' => InRows(n) \/ n = append[p].number
  PROVE  Apart'
<1>1. Highest' = Highest /\ append[p].number \in Nat
  BY DEF Highest, TypeOK
<1>2. MaximaBelow'
  BY <1>1 DEF Apart, MaximaBelow
<1>3. \A q \in Program, n \in Nat : InBlock(q, n)' = InBlock(q, n)
  BY DEF InBlock
<1>4. BlocksApart'
  BY <1>1, <1>3 DEF Apart, BlocksApart, HandsApart
<1>5. HandsApart'
  BY <1>1, <1>3 DEF Apart, HandsApart
<1>6. RowsBelow'
  BY <1>1 DEF Apart, HandsApart, RowsBelow
<1> QED
  BY <1>2, <1>4, <1>5, <1>6 DEF Apart

(* What an INSERT adds to the rows of the programs (commitIfAuto).         *)
LEMMA InsertedRows ==
  ASSUME TypeOK, NEW p \in Program, Inserted(p)
  PROVE  \A n \in Nat : InRows(n)' => InRows(n) \/ n = append[p].number
<1>1. CASE open[p]
  <2>1. pending' = [pending EXCEPT ![p] = pending[p] \cup {append[p].number}] /\ rows' = rows
    BY <1>1 DEF Inserted
  <2>2. \A q \in Program : pending'[q] \subseteq pending[q] \cup {append[p].number}
    BY <2>1 DEF TypeOK
  <2> QED
    BY <2>1, <2>2 DEF InRows
<1>2. CASE ~open[p]
  BY <1>2 DEF Inserted, InRows
<1> QED
  BY <1>1, <1>2

(* Drawing from its own block gives an append a number that nobody else    *)
(* has (sdb_table_nextPK).                                                 *)
LEMMA CacheApart ==
  ASSUME TypeOK, Apart, NEW p \in Program, append[p].step = "number", FromCache(p),
         UNCHANGED <<rows, pending, open>>
  PROVE  Apart'
<1> DEFINE k == table[p].next + 1
<1>1. table \in [Program -> [next: Nat, max: Int]] /\ append \in [Program -> AppendRecord]
  BY DEF TypeOK, AppendRecord
<1>2. k \in Nat /\ InBlock(p, k) /\ \A n \in Nat : InBlock(p, n) => n >= k
  BY <1>1 DEF FromCache, InCache, InBlock
<1>3. Highest' = Highest /\ \A n \in Nat : InRows(n)' = InRows(n)
  BY DEF FromCache, Highest, InRows
<1>4. /\ table'[p].next = k /\ table'[p].max = table[p].max
      /\ \A q \in Program : q # p => table'[q] = table[q]
  BY <1>1 DEF FromCache, Drawn
<1>5. /\ append'[p].step = "execute" /\ append'[p].number = k
      /\ \A q \in Program : q # p => append'[q] = append[q]
  BY <1>1 DEF FromCache, Drawn, AppendRecord
<1> HIDE DEF k
<1>6. \A q \in Program, n \in Nat : InBlock(q, n)' => InBlock(q, n) /\ n # k
  <2> SUFFICES ASSUME NEW q \in Program, NEW n \in Nat, InBlock(q, n)'
               PROVE  InBlock(q, n) /\ n # k
    OBVIOUS
  <2>1. CASE q = p
    BY <1>1, <1>2, <1>4, <2>1 DEF InBlock
  <2>2. CASE q # p
    BY <1>2, <1>4, <2>2 DEF InBlock, Apart, BlocksApart
  <2> QED
    BY <2>1, <2>2
<1>7. \A n \in Nat : InHand(p, n)' => n = k
  BY <1>5 DEF InHand
<1>8. \A q \in Program, n \in Nat : q # p => InHand(q, n)' = InHand(q, n)
  BY <1>5 DEF InHand
<1>9. \A q \in Program : ~InHand(q, k)
  BY <1>2 DEF Apart, HandsApart
<1>10. MaximaBelow'
  BY <1>3, <1>4 DEF Apart, MaximaBelow
<1>11. BlocksApart'
  BY <1>3, <1>6 DEF Apart, BlocksApart
<1>12. HandsApart'
  <2> SUFFICES ASSUME NEW q \in Program, NEW n \in Nat, InHand(q, n)'
               PROVE  /\ n <= Highest'
                      /\ \A r \in Program : ~InBlock(r, n)'
                      /\ \A r \in Program : r # q => ~InHand(r, n)'
                      /\ ~append'[q].again => ~InRows(n)'
    BY DEF HandsApart
  <2>1. CASE q = p
    <3>1. n = k
      BY <1>7, <2>1
    <3>2. n <= Highest' /\ ~InRows(n)'
      BY <1>2, <1>3, <3>1 DEF Apart, BlocksApart
    <3> QED
      BY <1>6, <1>8, <1>9, <2>1, <3>1, <3>2
  <2>2. CASE q # p
    <3>1. InHand(q, n) /\ n # k /\ append'[q] = append[q]
      BY <1>5, <1>8, <1>9, <2>2
    <3>2. \A r \in Program : r # q => ~InHand(r, n)'
      BY <1>7, <1>8, <3>1 DEF Apart, HandsApart
    <3> QED
      BY <1>3, <1>6, <3>1, <3>2 DEF Apart, HandsApart
  <2> QED
    BY <2>1, <2>2
<1>13. RowsBelow'
  BY <1>3 DEF Apart, RowsBelow
<1> QED
  BY <1>10, <1>11, <1>12, <1>13 DEF Apart

(* A new block is above every number there is (refreshMaxRecno).           *)
LEMMA ServerApart ==
  ASSUME TypeOK, Apart, NEW p \in Program, append[p].step = "number", FromServer(p),
         UNCHANGED <<rows, pending, open>>
  PROVE  Apart'
<1> DEFINE k == nextRecno' + 1
<1>1. /\ table \in [Program -> [next: Nat, max: Int]] /\ append \in [Program -> AppendRecord]
      /\ nextRecno \in Nat /\ CacheSize \in Nat \ {0}
  BY AppendsAssumption DEF TypeOK, AppendRecord
<1>2. nextRecno' = Highest /\ Highest \in Nat /\ Highest' = Highest + CacheSize /\ k = Highest + 1
  BY <1>1 DEF FromServer, Highest
<1>3. \A n \in Nat : InRows(n)' = InRows(n)
  BY DEF InRows
<1>4. /\ Block(nextRecno').next = nextRecno' /\ Block(nextRecno').max = nextRecno' + CacheSize - 1
      /\ Block(nextRecno') \in [next: Nat, max: Int]
  BY <1>1, <1>2 DEF Block
<1>5. /\ table'[p].next = k /\ table'[p].max = nextRecno' + CacheSize - 1
      /\ \A q \in Program : q # p => table'[q] = table[q]
  BY <1>1, <1>4 DEF FromServer, Drawn
<1>6. /\ append'[p].step = "execute" /\ append'[p].number = k
      /\ \A q \in Program : q # p => append'[q] = append[q]
  BY <1>1, <1>4 DEF FromServer, Drawn, AppendRecord
<1> HIDE DEF k
<1>7. \A n \in Nat : InBlock(p, n)' => n > k /\ n <= Highest'
  BY <1>1, <1>2, <1>5 DEF InBlock
<1>8. \A q \in Program, n \in Nat : q # p => InBlock(q, n)' = InBlock(q, n)
  BY <1>5 DEF InBlock
<1>9. \A q \in Program, n \in Nat : InBlock(q, n) => n <= Highest
  BY DEF Apart, BlocksApart
<1>10. \A q \in Program, n \in Nat : InHand(q, n) => n <= Highest
  BY DEF Apart, HandsApart
<1>11. \A n \in Nat : InHand(p, n)' => n = k
  BY <1>6 DEF InHand
<1>12. \A q \in Program, n \in Nat : q # p => InHand(q, n)' = InHand(q, n)
  BY <1>6 DEF InHand
<1>13. MaximaBelow'
  <2> SUFFICES ASSUME NEW q \in Program PROVE table'[q].max < Highest'
    BY DEF MaximaBelow
  <2>1. CASE q = p
    BY <1>1, <1>2, <1>5, <2>1
  <2>2. CASE q # p
    BY <1>1, <1>2, <1>5, <2>2 DEF Apart, MaximaBelow
  <2> QED
    BY <2>1, <2>2
<1>14. BlocksApart'
  <2> SUFFICES ASSUME NEW q \in Program, NEW n \in Nat, InBlock(q, n)'
               PROVE  /\ n <= Highest'
                      /\ ~InRows(n)'
                      /\ \A r \in Program : r # q => ~InBlock(r, n)'
    BY DEF BlocksApart
  <2>1. CASE q = p
    <3>1. n > Highest /\ n <= Highest'
      BY <1>2, <1>7, <2>1
    <3>2. ~InRows(n)'
      BY <1>2, <1>3, <3>1 DEF Apart, RowsBelow
    <3> QED
      BY <1>2, <1>8, <1>9, <2>1, <3>1, <3>2
  <2>2. CASE q # p
    <3>1. InBlock(q, n) /\ n <= Highest
      BY <1>8, <1>9, <2>2
    <3>2. \A r \in Program : r # q => ~InBlock(r, n)'
      <4> SUFFICES ASSUME NEW r \in Program, r # q PROVE ~InBlock(r, n)'
        OBVIOUS
      <4>1. CASE r = p
        BY <1>2, <1>7, <3>1, <4>1
      <4>2. CASE r # p
        BY <1>8, <3>1, <4>2 DEF Apart, BlocksApart
      <4> QED
        BY <4>1, <4>2
    <3> QED
      BY <1>1, <1>2, <1>3, <3>1, <3>2 DEF Apart, BlocksApart
  <2> QED
    BY <2>1, <2>2
<1>15. HandsApart'
  <2> SUFFICES ASSUME NEW q \in Program, NEW n \in Nat, InHand(q, n)'
               PROVE  /\ n <= Highest'
                      /\ \A r \in Program : ~InBlock(r, n)'
                      /\ \A r \in Program : r # q => ~InHand(r, n)'
                      /\ ~append'[q].again => ~InRows(n)'
    BY DEF HandsApart
  <2>1. CASE q = p
    <3>1. n = k /\ n > Highest /\ n <= Highest'
      BY <1>1, <1>2, <1>11, <2>1
    <3>2. ~InRows(n)'
      BY <1>2, <1>3, <3>1 DEF Apart, RowsBelow
    <3>3. \A r \in Program : ~InBlock(r, n)'
      BY <1>2, <1>7, <1>8, <1>9, <3>1
    <3>4. \A r \in Program : r # q => ~InHand(r, n)'
      BY <1>2, <1>10, <1>12, <2>1, <3>1
    <3> QED
      BY <3>1, <3>2, <3>3, <3>4
  <2>2. CASE q # p
    <3>1. InHand(q, n) /\ n <= Highest /\ append'[q] = append[q]
      BY <1>6, <1>10, <1>12, <2>2
    <3>2. \A r \in Program : ~InBlock(r, n)'
      <4> SUFFICES ASSUME NEW r \in Program PROVE ~InBlock(r, n)'
        OBVIOUS
      <4>1. CASE r = p
        BY <1>2, <1>7, <3>1, <4>1
      <4>2. CASE r # p
        BY <1>8, <3>1, <4>2 DEF Apart, HandsApart
      <4> QED
        BY <4>1, <4>2
    <3>3. \A r \in Program : r # q => ~InHand(r, n)'
      <4> SUFFICES ASSUME NEW r \in Program, r # q PROVE ~InHand(r, n)'
        OBVIOUS
      <4>1. CASE r = p
        BY <1>2, <1>11, <3>1, <4>1
      <4>2. CASE r # p
        BY <1>12, <3>1, <4>2 DEF Apart, HandsApart
      <4> QED
        BY <4>1, <4>2
    <3> QED
      BY <1>1, <1>2, <1>3, <3>1, <3>2, <3>3 DEF Apart, HandsApart
  <2> QED
    BY <2>1, <2>2
<1>16. RowsBelow'
  BY <1>1, <1>2, <1>3 DEF Apart, RowsBelow
<1> QED
  BY <1>13, <1>14, <1>15, <1>16 DEF Apart

(* Every step that does not set next_recno back keeps the numbers apart    *)
(* (insertRecord, commit, crash and the rows of others).                   *)
LEMMA ApartKept ==
  ASSUME TypeOK, Apart, [Next]_vars, ~reset'
  PROVE  Apart'
<1> USE DEF InBlock
<1>1. \A p \in Program : table[p].max < Highest
  BY DEF Apart, MaximaBelow
<1>2. append \in [Program -> AppendRecord]
  BY DEF TypeOK, AppendRecord
<1>3. ASSUME NEW p \in Program, Start(p) PROVE Apart'
  <2>1. /\ append'[p].step = "number" /\ \A q \in Program : q # p => append'[q] = append[q]
        /\ UNCHANGED <<nextRecno, rows, pending, open, table, reset>>
    BY <1>2, <1>3 DEF Start, AppendRecord
  <2>2. \A q \in Program, n \in Nat : InHand(q, n)' => InHand(q, n) /\ append'[q] = append[q]
    BY <2>1 DEF InHand
  <2> QED
    BY <1>1, <2>1, <2>2, FewerApart DEF InRows
<1>4. ASSUME NEW p \in Program, TakeNumber(p) PROVE Apart'
  <2>1. append[p].step = "number" /\ UNCHANGED <<rows, pending, open>>
    BY <1>4 DEF TakeNumber
  <2>2. CASE FromCache(p)
    BY <2>1, <2>2, CacheApart
  <2>3. CASE FromServer(p)
    BY <2>1, <2>3, ServerApart
  <2>4. CASE FromHighest(p)
    BY <2>4 DEF FromHighest
  <2>5. CASE NumberFailed(p)
    <3>1. /\ append'[p].step = "idle" /\ \A q \in Program : q # p => append'[q] = append[q]
          /\ UNCHANGED <<nextRecno, table>>
      BY <1>2, <2>5 DEF NumberFailed, Idle
    <3>2. \A q \in Program, n \in Nat : InHand(q, n)' => InHand(q, n) /\ append'[q] = append[q]
      BY <3>1 DEF InHand
    <3> QED
      BY <1>1, <2>1, <3>1, <3>2, FewerApart DEF InRows
  <2> QED
    BY <1>4, <2>2, <2>3, <2>4, <2>5 DEF TakeNumber
<1>5. ASSUME NEW p \in Program, Accept(p) PROVE Apart'
  <2>1. /\ append[p].step = "execute" /\ Inserted(p)
        /\ UNCHANGED <<nextRecno, open, table, reset>>
    BY <1>5 DEF Accept
  <2>2. \A n \in Nat : InRows(n)' => InRows(n) \/ n = append[p].number
    BY <2>1, InsertedRows
  <2>3. CASE append[p].again
    <3>1. append' = append
      BY <1>5, <2>3 DEF Accept
    <3> QED
      BY <2>1, <2>2, <2>3, <3>1, InsertApart DEF InHand
  <2>4. CASE ~append[p].again
    <3>1. append'[p].step = "idle" /\ \A q \in Program : q # p => append'[q] = append[q]
      BY <1>2, <1>5, <2>4 DEF Accept, Idle
    <3> QED
      BY <2>1, <2>2, <3>1, InsertApart DEF InHand
  <2> QED
    BY <2>3, <2>4
<1>6. ASSUME NEW p \in Program, Refuse(p) \/ Fail(p) PROVE Apart'
  <2>1. /\ UNCHANGED <<nextRecno, rows, pending, open, table, reset>>
        /\ append[p].step \in {"execute", "stuck"}
    BY <1>6 DEF Refuse, Fail
  <2>2. /\ \A q \in Program : q # p => append'[q] = append[q]
        /\ \/ append'[p].step \in {"idle", "number"}
           \/ append'[p].number = append[p].number /\ append'[p].again = append[p].again
    <3>1. CASE append[p].tries < MaxAttempts /\ Refuse(p)
      BY <1>2, <3>1 DEF Refuse, AppendRecord
    <3>2. CASE GivenUp(p)
      BY <1>2, <3>2 DEF GivenUp, AppendRecord, Idle
    <3> QED
      BY <1>6, <3>1, <3>2 DEF Refuse, Fail
  <2>3. \A q \in Program, n \in Nat :
           InHand(q, n)' => InHand(q, n) /\ (~append'[q].again => ~append[q].again)
    BY <2>1, <2>2 DEF InHand
  <2> QED
    BY <1>1, <2>1, <2>3, FewerApart DEF InRows
<1>7. ASSUME NEW p \in Program, ExecuteStuck(p) PROVE Apart'
  <2>1. /\ append[p].step = "stuck" /\ append[p].again /\ Inserted(p)
        /\ UNCHANGED <<nextRecno, open, table, append, reset>>
    BY <1>7 DEF ExecuteStuck, TypeOK
  <2>2. \A n \in Nat : InRows(n)' => InRows(n) \/ n = append[p].number
    BY <2>1, InsertedRows
  <2> QED
    BY <2>1, <2>2, InsertApart DEF InHand
<1>8. ASSUME NEW p \in Program, Begin(p) PROVE Apart'
  BY <1>1, <1>8, FewerApart DEF Begin, InHand, InRows
<1>9. ASSUME NEW p \in Program, Commit(p) \/ Rollback(p) PROVE Apart'
  <2>1. /\ UNCHANGED <<nextRecno, table, append, reset>>
        /\ \A q \in Program : pending'[q] \subseteq pending[q]
        /\ rows' \subseteq rows \cup pending[p]
    BY <1>9 DEF Commit, Rollback, End, TypeOK
  <2>2. \A n \in Nat : InRows(n)' => InRows(n)
    BY <2>1 DEF InRows
  <2> QED
    BY <1>1, <2>1, <2>2, FewerApart DEF InHand
<1>10. ASSUME NEW p \in Program, Crash(p) PROVE Apart'
  <2>1. /\ UNCHANGED <<nextRecno, rows, reset>>
        /\ append'[p].step = "idle" /\ table'[p].next = 1 /\ table'[p].max = 0
        /\ \A q \in Program : q # p => append'[q] = append[q] /\ table'[q] = table[q]
        /\ \A q \in Program : pending'[q] \subseteq pending[q]
    BY <1>10 DEF Crash, Idle, NoCache, TypeOK
  <2>2. \A q \in Program : table'[q].max < Highest
    <3>1. CacheSize \in Nat \ {0} /\ nextRecno \in Nat
      BY AppendsAssumption DEF TypeOK
    <3>2. 0 < Highest
      BY <3>1 DEF Highest
    <3> QED
      BY <1>1, <2>1, <3>2
  <2>3. \A q \in Program, n \in Nat : InBlock(q, n)' => InBlock(q, n)
    BY <2>1
  <2>4. \A q \in Program, n \in Nat : InHand(q, n)' => InHand(q, n) /\ append'[q] = append[q]
    BY <2>1 DEF InHand
  <2>5. \A n \in Nat : InRows(n)' => InRows(n)
    BY <2>1 DEF InRows
  <2> QED
    BY <2>1, <2>2, <2>3, <2>4, <2>5, FewerApart
<1>11. ASSUME NEW n \in Outside, OthersInsert(n) PROVE Apart'
  BY <1>1, <1>11, FewerApart DEF OthersInsert, InHand, InRows
<1>12. CASE UNCHANGED vars
  BY <1>1, <1>12, FewerApart DEF vars, InHand, InRows
<1> QED
  BY <1>3, <1>4, <1>5, <1>6, <1>7, <1>8, <1>9, <1>10, <1>11, <1>12 DEF Next

(* Once next_recno was set back it stays so (history of updateRecno).      *)
LEMMA ResetStays == ASSUME TypeOK, [Next]_vars, reset PROVE reset'
  BY DEF Next, vars, Start, TakeNumber, FromCache, FromServer, FromHighest, NumberFailed,
         Accept, Refuse, Fail, ExecuteStuck, Begin, Commit, Rollback, End, Crash, OthersInsert

(* As long as next_recno was not set back, no append meets the number of   *)
(* another, committed or not, whatever crashed or was rolled back          *)
(* (sdbNextRecno, refreshMaxRecno).                                        *)
THEOREM NumbersAreApart == Spec => []AppendsDoNotCollide
<1>1. Init => IInv
  BY InitTypes, InitApart DEF IInv
<1>2. ASSUME IInv, [Next]_vars PROVE IInv'
  <2>1. TypeOK'
    BY <1>2, TypesKept DEF IInv
  <2>2. reset' \in BOOLEAN /\ reset \in BOOLEAN
    BY <1>2, <2>1 DEF IInv, TypeOK
  <2>3. CASE reset'
    BY <2>1, <2>3 DEF IInv
  <2>4. CASE ~reset'
    BY <1>2, <2>1, <2>4, ApartKept, ResetStays DEF IInv
  <2> QED
    BY <2>2, <2>3, <2>4
<1>3. IInv => AppendsDoNotCollide
  <2> SUFFICES ASSUME IInv, NEW p \in Program,
                      ~reset, append[p].step = "execute", ~append[p].again
               PROVE  /\ append[p].number \notin rows \ Outside
                      /\ \A q \in Program :
                            /\ append[p].number \notin pending[q]
                            /\ q # p /\ append[q].step = "execute" =>
                                 append[q].number # append[p].number
    BY DEF AppendsDoNotCollide
  <2>1. append[p].number \in Nat /\ InHand(p, append[p].number)
    BY DEF IInv, TypeOK, InHand
  <2>2. /\ ~InRows(append[p].number)
        /\ \A q \in Program : q # p => ~InHand(q, append[p].number)
    BY <2>1 DEF IInv, Apart, HandsApart
  <2> QED
    BY <2>2 DEF InRows, InHand
<1> QED
  BY <1>1, <1>2, <1>3, PTL DEF Spec
=============================================================================
