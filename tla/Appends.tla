------------------------------ MODULE Appends -------------------------------
(***************************************************************************)
(* Rows that several programs append to a table whose numbers the driver   *)
(* gives itself: its primary key is neither set by the server nor by an    *)
(* expression.  Each program takes numbers out of a block that it reserves *)
(* in the dictionary (sdb_tables.next_recno) in a transaction of its own,  *)
(* and inserts its row with the number.  When the database refuses the row *)
(* for a unique key, the driver takes another number, now and then after it*)
(* has set the dictionary back to the highest number there is; the loop    *)
(* does not end by itself any more, for tryAgain is never reset.           *)
(*                                                                         *)
(* A program has one thread; the descriptor of the table belongs to the    *)
(* program.  It may run a transaction, and it may end at any moment, when  *)
(* the database rolls back what it did not commit.  Other programs write   *)
(* rows with numbers of their own (Outside).  A number that another        *)
(* transaction has inserted and not committed makes an INSERT wait.        *)
(***************************************************************************)
EXTENDS Integers, FiniteSets

CONSTANTS
    Program,
    CacheSize,       \* sdb_tables.recno_cache_size
    MaxAttempts,     \* SDB_MAX_ATTEMPS_APPEND
    RefreshAttempts, \* SDB_RECNO_REFRESH_ATTEMPS
    Outside,         \* numbers that other programs write
    MaxNumber        \* bound on the numbers that are reserved

ASSUME AppendsAssumption ==
    /\ {CacheSize, MaxAttempts, RefreshAttempts} \subseteq Nat \ {0}
    /\ MaxNumber \in Nat
    /\ Outside \subseteq Nat

VARIABLES
    nextRecno,   \* sdb_tables.next_recno
    rows,        \* numbers of the committed rows
    pending,     \* of each program, those of its transaction
    open,        \* connection->transaction is not NULL
    table,       \* nextRecno and maxRecno of the descriptor
    append,      \* sdb_api_insertRecord, when it runs
    reset        \* history: next_recno was set back

vars == <<nextRecno, rows, pending, open, table, append, reset>>

(* number: the parameter of the primary key; tries: tryCount; again:       *)
(* tryAgain.  A stuck append runs its INSERT again and again.              *)
Step == {"idle", "number", "execute", "stuck"}
Idle == [step |-> "idle", number |-> 0, tries |-> 1, again |-> FALSE]
NoCache == [next |-> 1, max |-> 0]

-----------------------------------------------------------------------------
(* sdb_table_pkInCache, sdb_table_nextPK, sdb_table_cacheNextPK.           *)
InCache(t) == t.next <= t.max

(* A faulty block that is one number too long.                             *)
OneTooMany(rec) == [next |-> rec, max |-> rec + CacheSize]

Block(rec) == [next |-> rec, max |-> rec + CacheSize - 1]

(* insertRecord asks for the number before the first execution, and again  *)
(* for each retry.                                                         *)
FromMaximum(p) == append[p].tries > 1 /\ append[p].tries % RefreshAttempts = 0

Drawn(p, t) ==
    /\ table' = [table EXCEPT ![p] = [t EXCEPT !.next = t.next + 1]]
    /\ append' = [append EXCEPT ![p] = [append[p] EXCEPT !.step = "execute", !.number = t.next + 1,
                                                         !.again = append[p].tries > 1]]

FromCache(p) ==
    /\ InCache(table[p]) /\ ~FromMaximum(p)
    /\ Drawn(p, table[p])
    /\ UNCHANGED <<nextRecno, reset>>

(* refreshMaxRecno, whose UPDATE is committed at once.                     *)
FromServer(p) ==
    /\ ~InCache(table[p]) /\ ~FromMaximum(p)
    /\ nextRecno + CacheSize <= MaxNumber
    /\ nextRecno' = nextRecno + CacheSize
    /\ Drawn(p, Block(nextRecno'))
    /\ UNCHANGED reset

FromHighest(p) ==
    /\ FromMaximum(p)
    /\ nextRecno' \in {m \in rows : \A n \in rows : n <= m}
    /\ Drawn(p, Block(nextRecno'))
    /\ reset' = TRUE

(* refreshMaxRecno fails: there is no insertion, or no other one.          *)
NumberFailed(p) ==
    /\ ~InCache(table[p]) \/ FromMaximum(p)
    /\ append' = [append EXCEPT ![p] = Idle]
    /\ UNCHANGED <<nextRecno, table, reset>>

TakeNumber(p) ==
    /\ append[p].step = "number"
    /\ FromCache(p) \/ FromServer(p) \/ FromHighest(p) \/ NumberFailed(p)
    /\ UNCHANGED <<rows, pending, open>>

-----------------------------------------------------------------------------
(* The INSERT.  It is committed at once outside of a transaction.          *)

IsFree(n) == n \notin rows /\ \A q \in Program : n \notin pending[q]
IsTaken(p, n) == n \in rows \/ n \in pending[p]

(* A faulty Inserted that leaves every row to a commit.                    *)
NeverCommitted(p) ==
    /\ pending' = [pending EXCEPT ![p] = @ \cup {append[p].number}]
    /\ UNCHANGED rows

Inserted(p) ==
    IF open[p]
    THEN pending' = [pending EXCEPT ![p] = @ \cup {append[p].number}] /\ UNCHANGED rows
    ELSE rows' = rows \cup {append[p].number} /\ UNCHANGED pending

(* The loop ends after an insertion unless the number was a second one.    *)
Accept(p) ==
    /\ append[p].step = "execute"
    /\ IsFree(append[p].number)
    /\ Inserted(p)
    /\ append' = IF append[p].again THEN append ELSE [append EXCEPT ![p] = Idle]
    /\ UNCHANGED <<nextRecno, open, table, reset>>

(* After an error that is not to be retried the loop goes on, if it was    *)
(* retried before: the error stays, and what succeeds then goes unnoticed. *)
GivenUp(p) ==
    append' = [append EXCEPT ![p] = IF @.again THEN [@ EXCEPT !.step = "stuck"] ELSE Idle]

(* IS_RETRY_INSERT does not ask which key of the table was violated: the   *)
(* number may be free, and the row have a value of another unique key.     *)
Refuse(p) ==
    /\ append[p].step \in {"execute", "stuck"}
    /\ IF append[p].tries < MaxAttempts
       THEN append' = [append EXCEPT ![p].step = "number", ![p].tries = append[p].tries + 1]
       ELSE GivenUp(p)
    /\ UNCHANGED <<nextRecno, rows, pending, open, table, reset>>

(* Another error, a deadlock for one.                                      *)
Fail(p) ==
    /\ append[p].step = "execute"
    /\ GivenUp(p)
    /\ UNCHANGED <<nextRecno, rows, pending, open, table, reset>>

ExecuteStuck(p) ==
    /\ append[p].step = "stuck"
    /\ IsFree(append[p].number)
    /\ Inserted(p)
    /\ UNCHANGED <<nextRecno, open, table, append, reset>>

-----------------------------------------------------------------------------
(* sdb_api_insertRecord is called.                                         *)
Start(p) ==
    /\ append[p].step = "idle"
    /\ append' = [append EXCEPT ![p].step = "number"]
    /\ UNCHANGED <<nextRecno, rows, pending, open, table, reset>>

(* sdb_beginTransaction, sdb_commitTransaction, sdb_rollbackTransaction.   *)
Begin(p) ==
    /\ append[p].step = "idle" /\ ~open[p]
    /\ open' = [open EXCEPT ![p] = TRUE]
    /\ UNCHANGED <<nextRecno, rows, pending, table, append, reset>>

End(p) ==
    /\ append[p].step = "idle" /\ open[p]
    /\ open' = [open EXCEPT ![p] = FALSE]
    /\ pending' = [pending EXCEPT ![p] = {}]
    /\ UNCHANGED <<nextRecno, table, append, reset>>

Commit(p) == rows' = rows \cup pending[p] /\ End(p)
Rollback(p) == UNCHANGED rows /\ End(p)

(* The program ends, and is started again.                                 *)
Crash(p) ==
    /\ open' = [open EXCEPT ![p] = FALSE]
    /\ pending' = [pending EXCEPT ![p] = {}]
    /\ table' = [table EXCEPT ![p] = NoCache]
    /\ append' = [append EXCEPT ![p] = Idle]
    /\ UNCHANGED <<nextRecno, rows, reset>>

OthersInsert(n) ==
    /\ IsFree(n)
    /\ rows' = rows \cup {n}
    /\ UNCHANGED <<nextRecno, pending, open, table, append, reset>>

Init ==
    /\ nextRecno = 0
    /\ rows \in SUBSET Outside
    /\ pending = [p \in Program |-> {}]
    /\ open = [p \in Program |-> FALSE]
    /\ table = [p \in Program |-> NoCache]
    /\ append = [p \in Program |-> Idle]
    /\ reset = FALSE

Next ==
    \/ \E p \in Program :
          \/ Start(p) \/ TakeNumber(p) \/ Accept(p) \/ Refuse(p) \/ Fail(p) \/ ExecuteStuck(p)
          \/ Begin(p) \/ Commit(p) \/ Rollback(p) \/ Crash(p)
    \/ \E n \in Outside : OthersInsert(n)

(* A program that calls the driver runs on, until it ends or waits for the *)
(* transaction of another: a number is free, or taken, or it has to wait.  *)
RunsOn(p) == TakeNumber(p) \/ Accept(p) \/ (IsTaken(p, append[p].number) /\ Refuse(p))

Spec ==
    /\ Init
    /\ [][Next]_vars
    /\ \A p \in Program : WF_vars(RunsOn(p))

-----------------------------------------------------------------------------
(* An append has a number; what is not committed belongs to a transaction; *)
(* and only an append that was refused repeats itself (insertRecord,       *)
(* sdb_api.c:1706).                                                        *)
TypeOK ==
    /\ nextRecno \in Nat
    /\ rows \subseteq Nat
    /\ pending \in [Program -> SUBSET Nat]
    /\ open \in [Program -> BOOLEAN]
    /\ table \in [Program -> [next: Nat, max: Int]]
    /\ append \in [Program -> [step: Step, number: Nat, tries: Nat \ {0}, again: BOOLEAN]]
    /\ reset \in BOOLEAN
    /\ \A p \in Program :
          /\ ~open[p] => pending[p] = {}
          /\ append[p].step = "idle" => append[p] = Idle
          /\ append[p].again => append[p].tries > 1
          /\ append[p].step = "stuck" => append[p].again

(* As long as next_recno was not set back, no append meets the number of   *)
(* another one, committed or not, of any program, crashed or rolled back   *)
(* or not: only rows that other programs wrote can be in its way           *)
(* (sdbNextRecno, sdb_dict.c:694).                                         *)
AppendsDoNotCollide ==
    \A p \in Program :
        ~reset /\ append[p].step = "execute" /\ ~append[p].again =>
            /\ append[p].number \notin rows \ Outside
            /\ \A q \in Program :
                  /\ append[p].number \notin pending[q]
                  /\ q # p /\ append[q].step = "execute" => append[q].number # append[p].number

(* An append returns unless its number was refused: it does not wait for   *)
(* a transaction of another program (sdb_api_insertRecord, sdb_api.c:1706).*)
AppendsReturn ==
    \A p \in Program :
        append[p].step # "idle" ~> \/ append[p].step = "idle"
                                   \/ append[p].tries > 1
                                   \/ reset

=============================================================================
