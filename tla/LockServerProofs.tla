-------------------------- MODULE LockServerProofs --------------------------
(***************************************************************************)
(* Theorems about LockServer, for every set of clients, of contexts and of *)
(* records.                                                                *)
(***************************************************************************)
EXTENDS LockServer, FiniteSetTheorems, TLAPS

-----------------------------------------------------------------------------
(* What the removal of entries does to a context table: it names no new    *)
(* owner, and what it leaves over freed memory was there or was the        *)
(* client's.                                                               *)
LEMMA RemoveEffect ==
    ASSUME TypeOK, NEW cl \in Client, NEW R \in SUBSET Records, NEW F \in SUBSET Records,
           Remove(cl, R, F)
    PROVE  /\ lockedRecords' \in [Records -> Client \cup {NoClient}]
           /\ freed' \in SUBSET Records
           /\ \A x \in Records : lockedRecords'[x] \in {NoClient, lockedRecords[x]}
           /\ \A x \in Records \ (R \cup F) : lockedRecords'[x] = lockedRecords[x]
           /\ \A x \in freed' : x \in freed \/ (x \in F /\ lockedRecords[x] = cl)
           /\ freed = {} => \A x \in R : lockedRecords'[x] = NoClient
           /\ freed = {} /\ F \subseteq R => freed' = {}
  <1> DEFINE dangling(gone) == {x \in F \ gone : lockedRecords[x] = cl}
  <1>1. PICK missed \in SUBSET (R \cap freed), kept \in SUBSET (R \cap freed) :
          /\ lockedRecords' = [x \in Records |->
                 IF x \in (R \ missed) \cup dangling(R \ missed) THEN NoClient ELSE lockedRecords[x]]
          /\ freed' = (freed \ R) \cup kept \cup dangling(R \ missed)
    BY DEF Remove
  <1>2. /\ dangling(R \ missed) \subseteq F
        /\ \A x \in dangling(R \ missed) : lockedRecords[x] = cl
        /\ missed = {} /\ F \subseteq R => dangling(R \ missed) = {}
    OBVIOUS
  <1>3. /\ lockedRecords \in [Records -> Client \cup {NoClient}]
        /\ freed \in SUBSET Records
    BY DEF TypeOK
  <1> HIDE DEF dangling
  <1> QED
    BY <1>1, <1>2, <1>3

(* The same for the records of one context.                                *)
LEMMA ReleaseInContextEffect ==
    ASSUME TypeOK, NEW cl \in Client, NEW c \in Context, ReleaseInContext(cl, c)
    PROVE  /\ lockedRecords' \in [Records -> Client \cup {NoClient}]
           /\ freed' \in SUBSET Records
           /\ recLocks' \in [Client -> [Records -> Nat]]
           /\ \A x \in Records : lockedRecords'[x] \in {NoClient, lockedRecords[x]}
           /\ \A x \in Records : (x[1] # c \/ recLocks[cl][x] = 0) => lockedRecords'[x] = lockedRecords[x]
           /\ \A x \in freed' : x \in freed \/ lockedRecords[x] = cl
           /\ freed = {} => \A x \in Records : x[1] = c /\ recLocks[cl][x] > 0 => lockedRecords'[x] = NoClient
           /\ freed = {} => freed' = {}
           /\ \A x \in Records : recLocks'[cl][x] = IF x[1] = c THEN 0 ELSE recLocks[cl][x]
           /\ \A other \in Client \ {cl} : recLocks'[other] = recLocks[other]
  <1> DEFINE mine == {x \in InContext(c) : recLocks[cl][x] > 0}
  <1>1. mine \in SUBSET Records
    BY DEF InContext
  <1>2. Remove(cl, mine, mine)
    BY DEF ReleaseInContext
  <1>3. recLocks' = [recLocks EXCEPT ![cl] = [x \in Records |-> IF x[1] = c THEN 0 ELSE @[x]]]
    BY DEF ReleaseInContext
  <1>4. /\ recLocks' \in [Client -> [Records -> Nat]]
        /\ \A x \in Records : recLocks'[cl][x] = IF x[1] = c THEN 0 ELSE recLocks[cl][x]
        /\ \A other \in Client \ {cl} : recLocks'[other] = recLocks[other]
    BY <1>3 DEF TypeOK
  <1>5. \A x \in Records : x \in mine <=> x[1] = c /\ recLocks[cl][x] > 0
    BY DEF InContext
  <1>6. \A x \in Records : recLocks[cl][x] \in Nat
    BY DEF TypeOK
  <1> HIDE DEF mine
  <1>7. /\ lockedRecords' \in [Records -> Client \cup {NoClient}]
        /\ freed' \in SUBSET Records
        /\ \A x \in Records : lockedRecords'[x] \in {NoClient, lockedRecords[x]}
        /\ \A x \in Records \ mine : lockedRecords'[x] = lockedRecords[x]
        /\ \A x \in freed' : x \in freed \/ (x \in mine /\ lockedRecords[x] = cl)
        /\ freed = {} => \A x \in mine : lockedRecords'[x] = NoClient
        /\ freed = {} => freed' = {}
    BY <1>1, <1>2, RemoveEffect
  <1>8. \A x \in Records : (x[1] # c \/ recLocks[cl][x] = 0) => lockedRecords'[x] = lockedRecords[x]
    BY <1>5, <1>6, <1>7
  <1> QED
    BY <1>4, <1>5, <1>7, <1>8

LEMMA UpdateTable ==
    ASSUME NEW S, NEW T, NEW f \in [S -> [T -> Nat]], NEW s \in S, NEW t \in T, NEW v \in Nat,
           NEW g, g = [f EXCEPT ![s][t] = v]
    PROVE  /\ g \in [S -> [T -> Nat]]
           /\ \A x \in S, y \in T : g[x][y] = IF x = s /\ y = t THEN v ELSE f[x][y]
  OBVIOUS

LEMMA DecrementTable ==
    ASSUME NEW S, NEW T, NEW f \in [S -> [T -> Nat]], NEW s \in S, NEW t \in T, f[s][t] > 0,
           NEW g, g = [f EXCEPT ![s][t] = f[s][t] - 1]
    PROVE  /\ g \in [S -> [T -> Nat]]
           /\ \A x \in S, y \in T : g[x][y] = IF x = s /\ y = t THEN f[s][t] - 1 ELSE f[x][y]
  <1>1. f[s][t] \in Nat
    OBVIOUS
  <1>2. f[s][t] - 1 \in Nat
    BY <1>1
  <1> QED
    BY <1>2, UpdateTable

(* RegisterOpen adds an entry for c to the table of cl.                    *)
LEMMA RegisterOpenEffect ==
    ASSUME TypeOK, NEW cl \in Client, NEW c \in Context, RegisterOpen(cl, c)
    PROVE  /\ openContexts' \in [Client -> [Context -> Nat]]
           /\ openContexts'[cl][c] = IF KeepDuplicates THEN openContexts[cl][c] + 1 ELSE 1
           /\ \A x \in Client, y \in Context :
                 x # cl \/ y # c => openContexts'[x][y] = openContexts[x][y]
  <1> DEFINE v == IF KeepDuplicates THEN openContexts[cl][c] + 1 ELSE 1
  <1>1. openContexts \in [Client -> [Context -> Nat]] /\ openContexts[cl][c] \in Nat
    BY DEF TypeOK
  <1>2. v \in Nat
    BY <1>1, ServerAssumption DEF ServerAssumption
  <1>3. openContexts' = [openContexts EXCEPT ![cl][c] = v]
    BY DEF RegisterOpen
  <1> HIDE DEF v
  <1>4. /\ openContexts' \in [Client -> [Context -> Nat]]
        /\ \A x \in Client, y \in Context :
              openContexts'[x][y] = IF x = cl /\ y = c THEN v ELSE openContexts[x][y]
    BY <1>1, <1>2, <1>3, UpdateTable
  <1> QED
    BY <1>4 DEF v

LEMMA AnswerType ==
    ASSUME TypeOK, NEW cl \in Client, NEW code \in {"none", "success", "failed"}, Answer(cl, code)
    PROVE  reply' \in [Client -> {"none", "success", "failed"}]
  BY DEF Answer, TypeOK

(* What a close does to the flags of the context.                          *)
LEMMA CloseContextEffect ==
    ASSUME TypeOK, NEW cl \in Client, NEW c \in Context, CloseContext(cl, c)
    PROVE  /\ openShared' \in [Context -> Nat]
           /\ isOpenExclusive' \in [Context -> BOOLEAN]
           /\ isLocked' = isLocked
           /\ clientLocking' \in [Context -> Client \cup {NoClient}]
           /\ \A d \in Context \ {c} :
                 /\ openShared'[d] = openShared[d]
                 /\ isOpenExclusive'[d] = isOpenExclusive[d]
                 /\ clientLocking'[d] = clientLocking[d]
           /\ isOpenExclusive[c] => openShared'[c] = openShared[c]
           /\ isOpenExclusive[c] /\ clientLocking[c] = cl =>
                 ~isOpenExclusive'[c] /\ clientLocking'[c] = NoClient
           /\ ~(isOpenExclusive[c] /\ clientLocking[c] = cl) =>
                 isOpenExclusive'[c] = isOpenExclusive[c] /\ clientLocking'[c] = clientLocking[c]
           /\ ~isOpenExclusive[c] =>
                 openShared'[c] = IF openShared[c] > 0 THEN openShared[c] - 1 ELSE openShared[c]
  <1> DEFINE less == IF openShared[c] > 0 THEN openShared[c] - 1 ELSE openShared[c]
  <1>1. /\ openShared \in [Context -> Nat]
        /\ isOpenExclusive \in [Context -> BOOLEAN]
        /\ clientLocking \in [Context -> Client \cup {NoClient}]
    BY DEF TypeOK
  <1>2. less \in Nat
    BY <1>1
  <1>3. isLocked' = isLocked
    BY DEF CloseContext
  <1>4. CASE isOpenExclusive[c] /\ clientLocking[c] = cl
    <2>1. /\ isOpenExclusive' = [isOpenExclusive EXCEPT ![c] = FALSE]
          /\ clientLocking' = [clientLocking EXCEPT ![c] = NoClient]
          /\ openShared' = openShared
      BY <1>4 DEF CloseContext
    <2> QED
      BY <1>1, <1>3, <1>4, <2>1
  <1>5. CASE isOpenExclusive[c] /\ clientLocking[c] # cl
    <2>1. UNCHANGED <<openShared, isOpenExclusive, clientLocking>>
      BY <1>5 DEF CloseContext
    <2> QED
      BY <1>1, <1>3, <1>5, <2>1
  <1>6. CASE ~isOpenExclusive[c]
    <2>1. /\ openShared' = [openShared EXCEPT ![c] = less]
          /\ UNCHANGED <<isOpenExclusive, clientLocking>>
      BY <1>6 DEF CloseContext
    <2>2. /\ openShared' \in [Context -> Nat]
          /\ openShared'[c] = less
          /\ \A d \in Context \ {c} : openShared'[d] = openShared[d]
      BY <1>1, <1>2, <2>1
    <2> QED
      BY <1>1, <1>3, <1>6, <2>1, <2>2
  <1> QED
    BY <1>4, <1>5, <1>6

(* LOCK_REC adds at most the record x for the client, when it is free and  *)
(* nothing shuts the context.                                              *)
LEMMA LockRecEffect ==
    ASSUME TypeOK, NEW cl \in Client, NEW x \in Records, LockRec(cl, x)
    PROVE  /\ lockedRecords' \in [Records -> Client \cup {NoClient}]
           /\ recLocks' \in [Client -> [Records -> Nat]]
           /\ reply' \in [Client -> {"none", "success", "failed"}]
           /\ \/ UNCHANGED <<lockedRecords, recLocks>>
              \/ /\ ~isLocked[x[1]] /\ ~isOpenExclusive[x[1]]
                 /\ HasOpen(cl, x[1])
                 /\ NoClient \in FoundOwner(x)
                 /\ lockedRecords' = [lockedRecords EXCEPT ![x] = cl]
                 /\ RegisterRecLock(cl, x)
  <1>1. CASE UNCHANGED <<lockedRecords, recLocks>>
    BY <1>1, AnswerType DEF LockRec, TypeOK
  <1>2. CASE ~UNCHANGED <<lockedRecords, recLocks>>
    <2>1. /\ ~isLocked[x[1]] /\ ~isOpenExclusive[x[1]]
          /\ HasOpen(cl, x[1])
          /\ NoClient \in FoundOwner(x)
          /\ lockedRecords' = [lockedRecords EXCEPT ![x] = cl]
          /\ RegisterRecLock(cl, x)
          /\ Answer(cl, "success")
      BY <1>2 DEF LockRec
    <2>2. /\ recLocks \in [Client -> [Records -> Nat]]
          /\ recLocks[cl] \in [Records -> Nat]
      BY DEF TypeOK
    <2>3. [y \in Records |->
              IF y = x THEN (IF KeepDuplicates THEN recLocks[cl][y] + 1 ELSE 1)
              ELSE IF ~KeepDuplicates /\ y[2] = x[2] THEN 0 ELSE recLocks[cl][y]] \in [Records -> Nat]
      BY <2>2
    <2>4. recLocks' \in [Client -> [Records -> Nat]]
      BY <2>1, <2>2, <2>3 DEF RegisterRecLock
    <2> QED
      BY <2>1, <2>4, AnswerType DEF TypeOK
  <1> QED
    BY <1>1, <1>2

(* UNLOCK_REC removes the record x from its context and one structure s of *)
(* the same number from the client.                                        *)
LEMMA UnlockRecEffect ==
    ASSUME TypeOK, NEW cl \in Client, NEW x \in Records, UnlockRec(cl, x)
    PROVE  /\ x[1] \in Context
           /\ recLocks' \in [Client -> [Records -> Nat]]
           /\ lockedRecords' \in [Records -> Client \cup {NoClient}]
           /\ freed' \in SUBSET Records
           /\ \E s \in FoundRecLock(cl, x[2]) :
                 /\ Remove(cl, {x}, {s})
                 /\ \A a \in Client, y \in Records :
                       recLocks'[a][y] = IF a = cl /\ y = s THEN recLocks[cl][s] - 1 ELSE recLocks[a][y]
  <1>1. PICK s \in FoundRecLock(cl, x[2]) :
          /\ Remove(cl, {x}, {s})
          /\ recLocks' = [recLocks EXCEPT ![cl][s] = @ - 1]
    BY DEF UnlockRec
  <1>2. /\ s \in Records
        /\ recLocks[cl][s] > 0
        /\ recLocks \in [Client -> [Records -> Nat]]
    BY DEF FoundRecLock, TypeOK
  <1>3. /\ recLocks' \in [Client -> [Records -> Nat]]
        /\ \A a \in Client, y \in Records :
              recLocks'[a][y] = IF a = cl /\ y = s THEN recLocks[cl][s] - 1 ELSE recLocks[a][y]
    BY <1>1, <1>2, DecrementTable
  <1>4. /\ lockedRecords' \in [Records -> Client \cup {NoClient}]
        /\ freed' \in SUBSET Records
    <2>1. {x} \in SUBSET Records /\ {s} \in SUBSET Records
      BY <1>2
    <2> QED
      BY <1>1, <2>1, RemoveEffect
  <1> QED
    BY <1>1, <1>3, <1>4, ServerAssumption DEF ServerAssumption

-----------------------------------------------------------------------------
(* The type invariant.                                                     *)

LEMMA TypeInit == Init => TypeOK
  BY ServerAssumption DEF ServerAssumption, Init, TypeOK, NoPending, NoRecLocks

LEMMA TypeStep == TypeOK /\ [Next]_vars => TypeOK'
  <1> SUFFICES ASSUME TypeOK, [Next]_vars
               PROVE  TypeOK'
    OBVIOUS
  <1> USE DEF context, entries
  <1>1. CASE UNCHANGED vars
    BY <1>1 DEF vars, TypeOK
  <1>2. ASSUME NEW cl \in Client, Connect(cl)
        PROVE  TypeOK'
    BY <1>2 DEF Connect, TypeOK
  <1>3. ASSUME NEW cl \in Client, NEW c \in Context, OpenShared(cl, c)
        PROVE  TypeOK'
    <2>1. reply' \in [Client -> {"none", "success", "failed"}]
      BY <1>3, AnswerType DEF OpenShared
    <2>2. openContexts' \in [Client -> [Context -> Nat]]
      BY <1>3, RegisterOpenEffect DEF OpenShared, TypeOK
    <2>3. /\ openShared \in [Context -> Nat]
          /\ openShared' = openShared \/ openShared' = [openShared EXCEPT ![c] = openShared[c] + 1]
      BY <1>3 DEF OpenShared, TypeOK
    <2>4. openShared' \in [Context -> Nat]
      BY <2>3
    <2> QED
      BY <1>3, <2>1, <2>2, <2>4 DEF OpenShared, TypeOK
  <1>4. ASSUME NEW cl \in Client, NEW c \in Context, OpenExclusive(cl, c)
        PROVE  TypeOK'
    <2>1. reply' \in [Client -> {"none", "success", "failed"}]
      BY <1>4, AnswerType DEF OpenExclusive
    <2>2. openContexts' \in [Client -> [Context -> Nat]]
      BY <1>4, RegisterOpenEffect DEF OpenExclusive, TypeOK
    <2>3. /\ isOpenExclusive' \in [Context -> BOOLEAN]
          /\ clientLocking' \in [Context -> Client \cup {NoClient}]
      BY <1>4 DEF OpenExclusive, TypeOK
    <2> QED
      BY <1>4, <2>1, <2>2, <2>3 DEF OpenExclusive, TypeOK
  <1>5. ASSUME NEW cl \in Client, NEW c \in Context, CloseContext(cl, c)
        PROVE  /\ openShared' \in [Context -> Nat]
               /\ isOpenExclusive' \in [Context -> BOOLEAN]
               /\ isLocked' \in [Context -> BOOLEAN]
               /\ clientLocking' \in [Context -> Client \cup {NoClient}]
               /\ lockedRecords' \in [Records -> Client \cup {NoClient}]
               /\ freed' \in SUBSET Records
               /\ recLocks' \in [Client -> [Records -> Nat]]
    <2>1. ReleaseInContext(cl, c)
      BY <1>5 DEF CloseContext
    <2>2. isLocked \in [Context -> BOOLEAN]
      BY DEF TypeOK
    <2> QED
      BY <1>5, <2>1, <2>2, CloseContextEffect, ReleaseInContextEffect
  <1>6. ASSUME NEW cl \in Client, NEW c \in Context, Close(cl, c)
        PROVE  TypeOK'
    <2>1. reply' \in [Client -> {"none", "success", "failed"}]
      BY <1>6, AnswerType DEF Close
    <2>2. CASE HasOpen(cl, c)
      <3>1. CloseContext(cl, c) /\ openContexts' = [openContexts EXCEPT ![cl][c] = @ - 1]
        BY <1>6, <2>2 DEF Close
      <3>2. openContexts' \in [Client -> [Context -> Nat]]
        <4>1. /\ openContexts \in [Client -> [Context -> Nat]]
              /\ openContexts[cl][c] > 0
              /\ openContexts' = [openContexts EXCEPT ![cl][c] = openContexts[cl][c] - 1]
          BY <2>2, <3>1 DEF TypeOK, HasOpen
        <4> QED
          BY <4>1, DecrementTable
      <3> QED
        BY <1>5, <1>6, <2>1, <3>1, <3>2 DEF Close, TypeOK
    <2>3. CASE ~HasOpen(cl, c)
      BY <1>6, <2>1, <2>3 DEF Close, TypeOK
    <2> QED
      BY <2>2, <2>3
  <1>7. ASSUME NEW cl \in Client, CloseAll(cl)
        PROVE  TypeOK'
    BY <1>7 DEF CloseAll, TypeOK
  <1>8. ASSUME NEW cl \in Client, NEW c \in Context, CloseAllNext(cl, c)
        PROVE  TypeOK'
    <2>1. pending' \in [Client -> [Context -> Nat]]
      <3>1. /\ pending \in [Client -> [Context -> Nat]]
            /\ pending[cl][c] > 0
            /\ pending' = [pending EXCEPT ![cl][c] = pending[cl][c] - 1]
        BY <1>8 DEF CloseAllNext, TypeOK
      <3> QED
        BY <3>1, DecrementTable
    <2> QED
      BY <1>5, <1>8, <2>1 DEF CloseAllNext, TypeOK
  <1>9. ASSUME NEW cl \in Client, CloseAllDone(cl)
        PROVE  TypeOK'
    BY <1>9, AnswerType DEF CloseAllDone, TypeOK
  <1>10. ASSUME NEW cl \in Client, NEW c \in Context, LockFile(cl, c)
         PROVE  TypeOK'
    <2>1. reply' \in [Client -> {"none", "success", "failed"}]
      BY <1>10, AnswerType DEF LockFile
    <2>2. /\ isLocked' \in [Context -> BOOLEAN]
          /\ clientLocking' \in [Context -> Client \cup {NoClient}]
      BY <1>10 DEF LockFile, TypeOK
    <2> QED
      BY <1>10, <2>1, <2>2 DEF LockFile, TypeOK
  <1>11. ASSUME NEW c \in Context, DropFileLock(c)
         PROVE  /\ isLocked' \in [Context -> BOOLEAN]
                /\ clientLocking' \in [Context -> Client \cup {NoClient}]
    BY <1>11 DEF DropFileLock, TypeOK
  <1>12. ASSUME NEW cl \in Client, NEW c \in Context, DropOwnFileLock(cl, c)
         PROVE  /\ isLocked' \in [Context -> BOOLEAN]
                /\ clientLocking' \in [Context -> Client \cup {NoClient}]
    BY <1>11, <1>12 DEF DropOwnFileLock, TypeOK
  <1>13. ASSUME NEW cl \in Client, NEW c \in Context, UnlockFile(cl, c)
         PROVE  TypeOK'
    <2>1. pending' \in [Client -> [Context -> Nat]]
      BY <1>13 DEF UnlockFile, NoPending, TypeOK
    <2> QED
      BY <1>11, <1>13, <2>1, AnswerType DEF UnlockFile, TypeOK
  <1>14. ASSUME NEW cl \in Client, NEW c \in Context, UnlockAll(cl, c)
         PROVE  TypeOK'
    <2>1. reply' \in [Client -> {"none", "success", "failed"}]
      BY <1>14, AnswerType DEF UnlockAll
    <2>2. CASE HasOpen(cl, c)
      <3>1. ReleaseInContext(cl, c) /\ DropOwnFileLock(cl, c)
        BY <1>14, <2>2 DEF UnlockAll
      <3>2. /\ lockedRecords' \in [Records -> Client \cup {NoClient}]
            /\ freed' \in SUBSET Records
            /\ recLocks' \in [Client -> [Records -> Nat]]
        BY <3>1, ReleaseInContextEffect
      <3> QED
        BY <1>12, <1>14, <2>1, <3>1, <3>2 DEF UnlockAll, TypeOK
    <2>3. CASE ~HasOpen(cl, c)
      BY <1>14, <2>1, <2>3 DEF UnlockAll, TypeOK
    <2> QED
      BY <2>2, <2>3
  <1>15. ASSUME NEW cl \in Client, NEW x \in Records, LockRec(cl, x)
         PROVE  TypeOK'
    BY <1>15, LockRecEffect DEF LockRec, TypeOK
  <1>16. ASSUME NEW cl \in Client, NEW x \in Records, UnlockRec(cl, x)
         PROVE  TypeOK'
    BY <1>12, <1>16, UnlockRecEffect, AnswerType, ServerAssumption DEF ServerAssumption, UnlockRec, TypeOK
  <1>17. ASSUME NEW cl \in Client, NEW x \in Records, CheckFileLock(cl, x)
         PROVE  TypeOK'
    <2>1. x[1] \in Context
      BY ServerAssumption DEF ServerAssumption
    <2>2. reply' \in [Client -> {"none", "success", "failed"}]
      BY <1>17, AnswerType DEF CheckFileLock, TypeOK
    <2>3. /\ pending \in [Client -> [Context -> Nat]]
          /\ pending' = pending \/ pending' = [pending EXCEPT ![cl][x[1]] = 1]
      BY <1>17 DEF CheckFileLock, TypeOK
    <2>5. pending' \in [Client -> [Context -> Nat]]
      BY <2>1, <2>3, UpdateTable
    <2>4. pc' \in [Client -> {"off", "ready", "closing all", "unlocking", "leaving"}]
      BY <1>17 DEF CheckFileLock, TypeOK
    <2> QED
      BY <1>17, <2>2, <2>4, <2>5 DEF CheckFileLock, TypeOK
  <1>18. ASSUME NEW cl \in Client, Disconnect(cl)
         PROVE  TypeOK'
    BY <1>18 DEF Disconnect, TypeOK
  <1>19. ASSUME NEW cl \in Client, NEW x \in Records, ReleaseRecord(cl, x)
         PROVE  TypeOK'
    <2>1. /\ lockedRecords' \in [Records -> Client \cup {NoClient}]
          /\ freed' \in SUBSET Records
      BY <1>19, RemoveEffect DEF ReleaseRecord
    <2>2. recLocks' \in [Client -> [Records -> Nat]]
      <3>1. /\ recLocks \in [Client -> [Records -> Nat]]
            /\ recLocks[cl][x] > 0
            /\ recLocks' = [recLocks EXCEPT ![cl][x] = recLocks[cl][x] - 1]
        BY <1>19 DEF ReleaseRecord, TypeOK
      <3> QED
        BY <3>1, DecrementTable
    <2> QED
      BY <1>19, <2>1, <2>2 DEF ReleaseRecord, TypeOK
  <1>20. ASSUME NEW cl \in Client, NEW c \in Context, ReleaseContext(cl, c)
         PROVE  TypeOK'
    <2>1. openContexts' \in [Client -> [Context -> Nat]]
      <3>1. /\ openContexts \in [Client -> [Context -> Nat]]
            /\ openContexts[cl][c] > 0
            /\ openContexts' = [openContexts EXCEPT ![cl][c] = openContexts[cl][c] - 1]
        BY <1>20 DEF ReleaseContext, TypeOK, HasOpen
      <3> QED
        BY <3>1, DecrementTable
    <2> QED
      BY <1>5, <1>20, <2>1 DEF ReleaseContext, TypeOK
  <1>21. ASSUME NEW cl \in Client, FreeClient(cl)
         PROVE  TypeOK'
    BY <1>21, AnswerType DEF FreeClient, TypeOK
  <1> QED
    BY <1>1, <1>2, <1>3, <1>4, <1>6, <1>7, <1>8, <1>9, <1>10, <1>13, <1>14, <1>15, <1>16,
       <1>17, <1>18, <1>19, <1>20, <1>21
       DEF Next, Step, OnContext, OnRecord, Leave

(* Every reachable state has the types declared by TypeOK.                 *)
THEOREM TypeCorrect == Spec => []TypeOK
  BY TypeInit, TypeStep, PTL DEF Spec

-----------------------------------------------------------------------------
(* The file lock and the record locks of a context exclude each other.     *)

(* A step that locks no file and adds no record lock preserves this.       *)
LEMMA ShrinkKeepsExclusion ==
    ASSUME TypeOK, FileLockExcludesRecords,
           \A c \in Context : isLocked'[c] => isLocked[c],
           \A x \in Records : lockedRecords'[x] \in {NoClient, lockedRecords[x]},
           \A x \in freed' : x \in freed \/ lockedRecords[x] # NoClient
    PROVE  FileLockExcludesRecords'
  <1> SUFFICES ASSUME NEW c \in Context, isLocked'[c], NEW x \in Records, x[1] = c
               PROVE  lockedRecords'[x] = NoClient /\ x \notin freed'
    BY DEF FileLockExcludesRecords, NoEntries, InContext
  <1>1. lockedRecords[x] = NoClient /\ x \notin freed
    BY DEF FileLockExcludesRecords, NoEntries, InContext
  <1> QED
    BY <1>1

LEMMA DropFileLockEffect ==
    ASSUME TypeOK, NEW c \in Context, DropFileLock(c)
    PROVE  /\ ~isLocked'[c] /\ clientLocking'[c] = NoClient
           /\ \A d \in Context \ {c} :
                 isLocked'[d] = isLocked[d] /\ clientLocking'[d] = clientLocking[d]
  BY DEF DropFileLock, TypeOK

LEMMA DropOwnFileLockEffect ==
    ASSUME TypeOK, NEW cl \in Client, NEW c \in Context, DropOwnFileLock(cl, c)
    PROVE  /\ \A d \in Context : isLocked'[d] => isLocked[d]
           /\ OwnsFile(cl, c) => ~isLocked'[c] /\ clientLocking'[c] = NoClient
           /\ ~OwnsFile(cl, c) => UNCHANGED <<isLocked, clientLocking>>
           /\ \A d \in Context \ {c} :
                 isLocked'[d] = isLocked[d] /\ clientLocking'[d] = clientLocking[d]
  BY DropFileLockEffect DEF DropOwnFileLock, OwnsFile, TypeOK

LEMMA ExclusionStep ==
    TypeOK /\ FileLockExcludesRecords /\ [Next]_vars => FileLockExcludesRecords'
  <1> SUFFICES ASSUME TypeOK, FileLockExcludesRecords, [Next]_vars
               PROVE  FileLockExcludesRecords'
    OBVIOUS
  <1> USE DEF context, entries
  <1>1. ASSUME UNCHANGED <<isLocked, entries>>
        PROVE  FileLockExcludesRecords'
    BY <1>1 DEF FileLockExcludesRecords, NoEntries, InContext
  <1>2. ASSUME NEW cl \in Client, NEW c \in Context, CloseContext(cl, c)
        PROVE  FileLockExcludesRecords'
    <2>1. ReleaseInContext(cl, c) /\ isLocked' = isLocked
      BY <1>2 DEF CloseContext
    <2> QED
      BY <2>1, ReleaseInContextEffect, ShrinkKeepsExclusion, ServerAssumption DEF ServerAssumption
  <1>3. ASSUME NEW cl \in Client, NEW c \in Context, Close(cl, c)
        PROVE  FileLockExcludesRecords'
    BY <1>1, <1>2, <1>3 DEF Close
  <1>4. ASSUME NEW cl \in Client, NEW c \in Context, LockFile(cl, c)
        PROVE  FileLockExcludesRecords'
    <2>1. CASE NoEntries(c) /\ isLocked' = [isLocked EXCEPT ![c] = TRUE] /\ UNCHANGED entries
      BY <2>1 DEF FileLockExcludesRecords, NoEntries, InContext, TypeOK
    <2> QED
      BY <1>1, <1>4, <2>1 DEF LockFile, CanLockFile
  <1>5. ASSUME NEW c \in Context, DropFileLock(c), UNCHANGED entries
        PROVE  FileLockExcludesRecords'
    <2>1. \A d \in Context : isLocked'[d] => isLocked[d]
      BY <1>5, DropFileLockEffect
    <2> QED
      BY <1>5, <2>1, ShrinkKeepsExclusion
  <1>6. ASSUME NEW cl \in Client, NEW c \in Context, UnlockFile(cl, c)
        PROVE  FileLockExcludesRecords'
    BY <1>5, <1>6 DEF UnlockFile
  <1>7. ASSUME NEW cl \in Client, NEW c \in Context, UnlockAll(cl, c)
        PROVE  FileLockExcludesRecords'
    <2>1. CASE HasOpen(cl, c)
      <3>1. ReleaseInContext(cl, c) /\ DropOwnFileLock(cl, c)
        BY <1>7, <2>1 DEF UnlockAll
      <3>2. \A d \in Context : isLocked'[d] => isLocked[d]
        BY <3>1, DropOwnFileLockEffect
      <3>3. /\ \A x \in Records : lockedRecords'[x] \in {NoClient, lockedRecords[x]}
            /\ \A x \in freed' : x \in freed \/ lockedRecords[x] # NoClient
        BY <3>1, ReleaseInContextEffect, ServerAssumption DEF ServerAssumption
      <3> QED
        BY <3>2, <3>3, ShrinkKeepsExclusion
    <2>2. CASE ~HasOpen(cl, c)
      BY <1>1, <1>7, <2>2 DEF UnlockAll
    <2> QED
      BY <2>1, <2>2
  <1>8. ASSUME NEW cl \in Client, NEW x \in Records, LockRec(cl, x)
        PROVE  FileLockExcludesRecords'
    <2>1. isLocked' = isLocked /\ freed' = freed
      BY <1>8 DEF LockRec
    <2>2. CASE UNCHANGED lockedRecords
      BY <1>1, <2>1, <2>2
    <2>3. CASE ~isLocked[x[1]] /\ lockedRecords' = [lockedRecords EXCEPT ![x] = cl]
      BY <2>1, <2>3 DEF FileLockExcludesRecords, NoEntries, InContext, TypeOK
    <2> QED
      BY <1>8, <2>2, <2>3, LockRecEffect
  <1>9. ASSUME NEW cl \in Client, NEW x \in Records, UnlockRec(cl, x)
        PROVE  FileLockExcludesRecords'
    <2>1. PICK s \in FoundRecLock(cl, x[2]) : Remove(cl, {x}, {s})
      BY <1>9, UnlockRecEffect
    <2>2. {x} \in SUBSET Records /\ {s} \in SUBSET Records
      BY DEF FoundRecLock
    <2>3. /\ \A y \in Records : lockedRecords'[y] \in {NoClient, lockedRecords[y]}
          /\ \A y \in freed' : y \in freed \/ lockedRecords[y] # NoClient
      BY <2>1, <2>2, RemoveEffect, ServerAssumption DEF ServerAssumption
    <2>4. x[1] \in Context /\ DropOwnFileLock(cl, x[1])
      BY <1>9, ServerAssumption DEF UnlockRec, ServerAssumption
    <2>5. \A d \in Context : isLocked'[d] => isLocked[d]
      BY <2>4, DropOwnFileLockEffect
    <2> QED
      BY <2>3, <2>5, ShrinkKeepsExclusion
  <1>10. ASSUME NEW cl \in Client, NEW x \in Records, ReleaseRecord(cl, x)
         PROVE  FileLockExcludesRecords'
    <2>1. Remove(cl, {x}, {x}) /\ isLocked' = isLocked
      BY <1>10 DEF ReleaseRecord
    <2>2. {x} \in SUBSET Records
      OBVIOUS
    <2> QED
      BY <2>1, <2>2, RemoveEffect, ShrinkKeepsExclusion, ServerAssumption DEF ServerAssumption
  <1>11. ASSUME NEW cl \in Client, NEW c \in Context,
                \/ OpenShared(cl, c) \/ OpenExclusive(cl, c)
                \/ CloseAllNext(cl, c) \/ ReleaseContext(cl, c)
         PROVE  FileLockExcludesRecords'
    BY <1>1, <1>2, <1>11 DEF OpenShared, OpenExclusive, CloseAllNext, ReleaseContext
  <1>12. ASSUME NEW cl \in Client,
                \/ Connect(cl) \/ CloseAll(cl) \/ CloseAllDone(cl)
                \/ Disconnect(cl) \/ FreeClient(cl)
                \/ \E x \in Records : CheckFileLock(cl, x)
         PROVE  FileLockExcludesRecords'
    BY <1>1, <1>12 DEF Connect, CloseAll, CloseAllDone, Disconnect, FreeClient, CheckFileLock
  <1>13. CASE UNCHANGED vars
    BY <1>1, <1>13 DEF vars
  <1> QED
    BY <1>3, <1>4, <1>6, <1>7, <1>8, <1>9, <1>10, <1>11, <1>12, <1>13
       DEF Next, Step, OnContext, OnRecord, Leave

(* While a file is locked the context has no record lock, live or over     *)
(* freed memory: LOCK_FILE and LOCK_REC never both succeed in a context.   *)
THEOREM FileLockExcludes == Spec => []FileLockExcludesRecords
  <1>1. Init => FileLockExcludesRecords
    BY DEF Init, FileLockExcludesRecords
  <1>2. TypeOK /\ FileLockExcludesRecords /\ [Next]_vars => FileLockExcludesRecords'
    BY ExclusionStep
  <1> QED
    BY <1>1, <1>2, TypeCorrect, PTL DEF Spec

-----------------------------------------------------------------------------
(* A context open exclusively is open nowhere else.  openShared counts at  *)
(* least the entries that the client tables have for the context, and an   *)
(* exclusive open is the only entry.                                       *)

Openings(c) == {e \in Client \X Nat : e[2] \in 1 .. openContexts[e[1]][c]}

OpenCount(c) ==
    /\ IsFiniteSet(Openings(c))
    /\ ~isOpenExclusive[c] => Cardinality(Openings(c)) <= openShared[c]
    /\ isOpenExclusive[c] => openShared[c] = 0 /\ Cardinality(Openings(c)) <= 1

NoCloseAll == \A cl \in Client : pc[cl] # "closing all"

OpenInv ==
    /\ NoCloseAll
    /\ \A c \in Context : OpenCount(c)

LEMMA AtMostOne ==
    ASSUME NEW S, IsFiniteSet(S), Cardinality(S) <= 1, NEW e \in S, NEW f \in S
    PROVE  e = f
  <1>1. Cardinality(S) \in Nat /\ Cardinality(S) # 0
    BY FS_CardinalityType, FS_EmptySet
  <1>2. Cardinality(S) = 1
    BY <1>1
  <1>3. PICK x : S = {x}
    BY <1>2, FS_Singleton
  <1> QED
    BY <1>3

(* A new entry adds at most one element.                                   *)
LEMMA OpenAddsOne ==
    ASSUME TypeOK, NEW cl \in Client, NEW c \in Context, RegisterOpen(cl, c), IsFiniteSet(Openings(c))
    PROVE  /\ IsFiniteSet(Openings(c)')
           /\ Cardinality(Openings(c)') <= Cardinality(Openings(c)) + 1
           /\ \A d \in Context \ {c} : Openings(d)' = Openings(d)
  <1> DEFINE new == <<cl, openContexts[cl][c] + 1>>
  <1>1. openContexts[cl][c] \in Nat
    BY DEF TypeOK
  <1>2. /\ openContexts'[cl][c] \in 1 .. openContexts[cl][c] + 1
        /\ \A x \in Client, y \in Context :
              x # cl \/ y # c => openContexts'[x][y] = openContexts[x][y]
    BY <1>1, RegisterOpenEffect
  <1>3. Openings(c)' \subseteq Openings(c) \cup {new}
    <2> SUFFICES ASSUME NEW e \in Client \X Nat, e[2] \in 1 .. openContexts'[e[1]][c],
                        e \notin Openings(c)
                 PROVE  e = new
      BY DEF Openings
    <2>1. e[1] = cl
      BY <1>2 DEF Openings
    <2>2. e[2] = openContexts[cl][c] + 1
      BY <1>1, <1>2, <2>1 DEF Openings
    <2> QED
      BY <2>1, <2>2
  <1>4. /\ IsFiniteSet(Openings(c) \cup {new})
        /\ Cardinality(Openings(c) \cup {new}) <= Cardinality(Openings(c)) + 1
        /\ Cardinality(Openings(c)) \in Nat
        /\ Cardinality(Openings(c) \cup {new}) \in Nat
    <2> HIDE DEF new
    <2>1. /\ IsFiniteSet(Openings(c) \cup {new})
          /\ Cardinality(Openings(c) \cup {new}) =
                IF new \in Openings(c) THEN Cardinality(Openings(c)) ELSE Cardinality(Openings(c)) + 1
      BY FS_AddElement
    <2>2. Cardinality(Openings(c)) \in Nat /\ Cardinality(Openings(c) \cup {new}) \in Nat
      BY <2>1, FS_CardinalityType
    <2> QED
      BY <2>1, <2>2
  <1> HIDE DEF new
  <1>5. /\ IsFiniteSet(Openings(c)')
        /\ Cardinality(Openings(c)') <= Cardinality(Openings(c) \cup {new})
        /\ Cardinality(Openings(c)') \in Nat
    BY <1>3, <1>4, FS_Subset, FS_CardinalityType
  <1>6. \A d \in Context \ {c} : Openings(d)' = Openings(d)
    BY <1>2 DEF Openings
  <1> QED
    BY <1>4, <1>5, <1>6

(* A close takes exactly one.                                              *)
LEMMA CloseTakesOne ==
    ASSUME TypeOK, NEW cl \in Client, NEW c \in Context, HasOpen(cl, c), IsFiniteSet(Openings(c)),
           openContexts' = [openContexts EXCEPT ![cl][c] = @ - 1]
    PROVE  /\ IsFiniteSet(Openings(c)')
           /\ Cardinality(Openings(c)') = Cardinality(Openings(c)) - 1
           /\ Cardinality(Openings(c)') \in Nat
           /\ Cardinality(Openings(c)) \in Nat
           /\ \A d \in Context \ {c} : Openings(d)' = Openings(d)
  <1> DEFINE last == <<cl, openContexts[cl][c]>>
  <1>1. /\ openContexts \in [Client -> [Context -> Nat]]
        /\ openContexts[cl][c] > 0
        /\ openContexts' = [openContexts EXCEPT ![cl][c] = openContexts[cl][c] - 1]
    BY DEF TypeOK, HasOpen
  <1>2. \A x \in Client, y \in Context : openContexts'[x][y] =
            IF x = cl /\ y = c THEN openContexts[cl][c] - 1 ELSE openContexts[x][y]
    BY <1>1, DecrementTable
  <1>3. openContexts[cl][c] \in Nat
    BY <1>1
  <1>4. last \in Openings(c)
    BY <1>1, <1>3 DEF Openings
  <1>5. Openings(c)' = Openings(c) \ {last}
    <2>1. ASSUME NEW e \in Client \X Nat
          PROVE  e[2] \in 1 .. openContexts'[e[1]][c] <=>
                     e[2] \in 1 .. openContexts[e[1]][c] /\ e # last
      <3>1. CASE e[1] # cl
        BY <1>2, <3>1
      <3>2. CASE e[1] = cl
        <4>1. openContexts'[cl][c] = openContexts[cl][c] - 1
          BY <1>2
        <4>2. e = last <=> e[2] = openContexts[cl][c]
          BY <3>2
        <4> QED
          BY <1>3, <3>2, <4>1, <4>2
      <3> QED
        BY <3>1, <3>2
    <2> QED
      BY <2>1 DEF Openings
  <1> HIDE DEF last
  <1>6. /\ IsFiniteSet(Openings(c)')
        /\ Cardinality(Openings(c)') = Cardinality(Openings(c)) - 1
    BY <1>4, <1>5, FS_RemoveElement
  <1>7. \A d \in Context \ {c} : Openings(d)' = Openings(d)
    BY <1>2 DEF Openings
  <1> QED
    BY <1>6, <1>7, FS_CardinalityType

(* One entry of cl for c is closed.                                        *)
LEMMA CloseKeepsCount ==
    ASSUME TypeOK, NEW cl \in Client, NEW c \in Context, HasOpen(cl, c),
           \A d \in Context : OpenCount(d),
           CloseContext(cl, c), openContexts' = [openContexts EXCEPT ![cl][c] = @ - 1]
    PROVE  \A d \in Context : OpenCount(d)'
  <1>1. /\ IsFiniteSet(Openings(c)')
        /\ Cardinality(Openings(c)') = Cardinality(Openings(c)) - 1
        /\ Cardinality(Openings(c)') \in Nat
        /\ Cardinality(Openings(c)) \in Nat
        /\ \A d \in Context \ {c} : Openings(d)' = Openings(d)
    BY CloseTakesOne DEF OpenCount
  <1>2. \A d \in Context \ {c} : OpenCount(d)'
    <2>1. \A d \in Context \ {c} :
             openShared'[d] = openShared[d] /\ isOpenExclusive'[d] = isOpenExclusive[d]
      BY CloseContextEffect
    <2> QED
      BY <1>1, <2>1 DEF OpenCount
  <1>3. OpenCount(c)'
    <2>1. openShared[c] \in Nat
      BY DEF TypeOK
    <2>2. CASE ~isOpenExclusive[c]
      <3>1. /\ isOpenExclusive'[c] = isOpenExclusive[c]
            /\ openShared'[c] = IF openShared[c] > 0 THEN openShared[c] - 1 ELSE openShared[c]
        BY <2>2, CloseContextEffect
      <3>2. Cardinality(Openings(c)) <= openShared[c]
        BY <2>2 DEF OpenCount
      <3> QED
        BY <1>1, <2>1, <2>2, <3>1, <3>2 DEF OpenCount
    <2>3. CASE isOpenExclusive[c]
      <3>1. openShared[c] = 0 /\ Cardinality(Openings(c)) <= 1
        BY <2>3 DEF OpenCount
      <3>2. openShared'[c] = openShared[c]
        BY <2>3, CloseContextEffect
      <3>3. Cardinality(Openings(c)') = 0
        BY <1>1, <3>1
      <3> QED
        BY <1>1, <2>1, <3>1, <3>2, <3>3 DEF OpenCount
    <2> QED
      BY <2>2, <2>3
  <1> QED
    BY <1>2, <1>3

LEMMA OpenKeepsCount ==
    ASSUME TypeOK, NEW cl \in Client, NEW c \in Context,
           \A d \in Context : OpenCount(d),
           OpenShared(cl, c) \/ OpenExclusive(cl, c)
    PROVE  \A d \in Context : OpenCount(d)'
  <1>1. openShared[c] \in Nat
    BY DEF TypeOK
  <1>2. CASE UNCHANGED <<openShared, isOpenExclusive, openContexts>>
    <2>1. \A d \in Context : Openings(d)' = Openings(d)
      BY <1>2 DEF Openings
    <2> QED
      BY <1>2, <2>1 DEF OpenCount
  <1>3. ASSUME RegisterOpen(cl, c)
        PROVE  /\ IsFiniteSet(Openings(c)')
               /\ Cardinality(Openings(c)') <= Cardinality(Openings(c)) + 1
               /\ Cardinality(Openings(c)') \in Nat
               /\ Cardinality(Openings(c)) \in Nat
               /\ \A d \in Context \ {c} : Openings(d)' = Openings(d)
    BY <1>3, OpenAddsOne, FS_CardinalityType DEF OpenCount
  <1>4. CASE /\ ~isOpenExclusive[c]
             /\ openShared' = [openShared EXCEPT ![c] = @ + 1]
             /\ RegisterOpen(cl, c)
             /\ UNCHANGED isOpenExclusive
    <2>1. openShared'[c] = openShared[c] + 1
      BY <1>4 DEF TypeOK
    <2>2. \A d \in Context \ {c} : openShared'[d] = openShared[d]
      BY <1>4 DEF TypeOK
    <2>3. OpenCount(c)'
      BY <1>1, <1>3, <1>4, <2>1 DEF OpenCount
    <2>4. \A d \in Context \ {c} : OpenCount(d)'
      BY <1>3, <1>4, <2>2 DEF OpenCount
    <2> QED
      BY <2>3, <2>4
  <1>5. CASE /\ CanOpenExclusive(c)
             /\ isOpenExclusive' = [isOpenExclusive EXCEPT ![c] = TRUE]
             /\ RegisterOpen(cl, c)
             /\ UNCHANGED openShared
    <2>1. isOpenExclusive'[c] /\ \A d \in Context \ {c} : isOpenExclusive'[d] = isOpenExclusive[d]
      BY <1>5 DEF TypeOK
    <2>2. openShared[c] = 0 /\ Cardinality(Openings(c)) <= 0
      BY <1>5 DEF CanOpenExclusive, OpenCount
    <2>3. OpenCount(c)'
      BY <1>3, <1>5, <2>1, <2>2 DEF OpenCount
    <2>4. \A d \in Context \ {c} : OpenCount(d)'
      BY <1>3, <1>5, <2>1 DEF OpenCount
    <2> QED
      BY <2>3, <2>4
  <1> QED
    BY <1>2, <1>4, <1>5 DEF OpenShared, OpenExclusive

LEMMA OpenInvStep ==
    ASSUME ~SendsCloseAll
    PROVE  TypeOK /\ OpenInv /\ [Next]_vars => OpenInv'
  <1> SUFFICES ASSUME TypeOK, OpenInv, [Next]_vars
               PROVE  OpenInv'
    OBVIOUS
  <1> USE DEF context, entries
  <1>1. NoCloseAll'
    <2>1. \A cl \in Client : Step(cl) => NoCloseAll'
      <3> SUFFICES ASSUME NEW cl \in Client, Step(cl)
                   PROVE  NoCloseAll'
        OBVIOUS
      <3>1. \/ pc' = pc
            \/ \E s \in {"off", "ready", "unlocking", "leaving"} : pc' = [pc EXCEPT ![cl] = s]
        BY DEF Step, OnContext, OnRecord, Leave, Connect, OpenShared, OpenExclusive, Close,
               CloseAll, CloseAllNext, CloseAllDone, LockFile, LockRec, UnlockRec, CheckFileLock,
               UnlockFile, UnlockAll, Disconnect, ReleaseRecord, ReleaseContext, FreeClient
      <3> QED
        BY <3>1 DEF OpenInv, NoCloseAll, TypeOK
    <2> QED
      BY <2>1 DEF Next, vars, OpenInv, NoCloseAll
  <1>2. ASSUME UNCHANGED <<openShared, isOpenExclusive, openContexts>>
        PROVE  \A c \in Context : OpenCount(c)'
    BY <1>2 DEF OpenInv, OpenCount, Openings
  <1>3. ASSUME NEW cl \in Client, NEW c \in Context,
               OpenShared(cl, c) \/ OpenExclusive(cl, c)
        PROVE  \A d \in Context : OpenCount(d)'
    BY <1>3, OpenKeepsCount DEF OpenInv
  <1>4. ASSUME NEW cl \in Client, NEW c \in Context, Close(cl, c)
        PROVE  \A d \in Context : OpenCount(d)'
    <2>1. CASE HasOpen(cl, c)
      <3>1. CloseContext(cl, c) /\ openContexts' = [openContexts EXCEPT ![cl][c] = @ - 1]
        BY <1>4, <2>1 DEF Close
      <3> QED
        BY <2>1, <3>1, CloseKeepsCount DEF OpenInv
    <2>2. CASE ~HasOpen(cl, c)
      BY <1>2, <1>4, <2>2 DEF Close
    <2> QED
      BY <2>1, <2>2
  <1>5. ASSUME NEW cl \in Client, NEW c \in Context, ReleaseContext(cl, c)
        PROVE  \A d \in Context : OpenCount(d)'
    <2>1. /\ HasOpen(cl, c) /\ CloseContext(cl, c)
          /\ openContexts' = [openContexts EXCEPT ![cl][c] = @ - 1]
      BY <1>5 DEF ReleaseContext
    <2> QED
      BY <2>1, CloseKeepsCount DEF OpenInv
  <1>6. ASSUME NEW cl \in Client, NEW c \in Context, CloseAllNext(cl, c)
        PROVE  FALSE
    BY <1>6 DEF CloseAllNext, OpenInv, NoCloseAll
  <1>7. ASSUME NEW cl \in Client,
               \/ Connect(cl) \/ CloseAll(cl) \/ CloseAllDone(cl) \/ Disconnect(cl) \/ FreeClient(cl)
               \/ \E c \in Context : LockFile(cl, c) \/ UnlockFile(cl, c) \/ UnlockAll(cl, c)
               \/ \E x \in Records : OnRecord(cl, x) \/ ReleaseRecord(cl, x)
        PROVE  \A d \in Context : OpenCount(d)'
    BY <1>2, <1>7
       DEF Connect, CloseAll, CloseAllDone, Disconnect, FreeClient, LockFile, UnlockFile, UnlockAll,
           OnRecord, LockRec, UnlockRec, CheckFileLock, ReleaseRecord
  <1>8. ASSUME UNCHANGED vars
        PROVE  \A d \in Context : OpenCount(d)'
    <2>1. UNCHANGED <<openShared, isOpenExclusive, openContexts>>
      BY <1>8 DEF vars
    <2> QED
      BY <1>2, <2>1
  <1>9. \A d \in Context : OpenCount(d)'
    <2>1. ASSUME NEW cl \in Client, Step(cl)
          PROVE  \A d \in Context : OpenCount(d)'
      BY <1>3, <1>4, <1>5, <1>6, <1>7, <2>1 DEF Step, OnContext, Leave
    <2> QED
      BY <1>8, <2>1 DEF Next
  <1> QED
    BY <1>1, <1>9 DEF OpenInv

LEMMA OpenInvImplies ==
    ASSUME TypeOK, OpenInv
    PROVE  ExclusiveIsAlone
  <1> SUFFICES ASSUME NEW c \in Context, isOpenExclusive[c],
                      NEW a \in Client, NEW b \in Client, HasOpen(a, c), HasOpen(b, c)
               PROVE  a = b /\ openContexts[a][c] = 1
    BY DEF ExclusiveIsAlone
  <1>1. openContexts[a][c] \in Nat /\ openContexts[b][c] \in Nat
    BY DEF TypeOK
  <1>2. <<a, 1>> \in Openings(c) /\ <<b, 1>> \in Openings(c)
    BY <1>1 DEF Openings, HasOpen
  <1>3. <<a, openContexts[a][c]>> \in Openings(c)
    BY <1>1 DEF Openings, HasOpen
  <1>4. IsFiniteSet(Openings(c)) /\ Cardinality(Openings(c)) <= 1
    BY DEF OpenInv, OpenCount
  <1>5. <<a, 1>> = <<b, 1>> /\ <<a, 1>> = <<a, openContexts[a][c]>>
    BY <1>2, <1>3, <1>4, AtMostOne
  <1> QED
    BY <1>5

(* The counts are right while no client sends CLOSE_ALL.                   *)
THEOREM OpenCountsKept ==
    ASSUME ~SendsCloseAll
    PROVE  Spec => []OpenInv
  <1>1. Init => OpenInv
    <2> SUFFICES ASSUME Init
                 PROVE  OpenInv
      OBVIOUS
    <2>1. \A c \in Context : Openings(c) = {}
      BY DEF Init, Openings, NoPending
    <2>2. \A c \in Context : OpenCount(c)
      BY <2>1, FS_EmptySet DEF Init, OpenCount
    <2> QED
      BY <2>2 DEF Init, OpenInv, NoCloseAll
  <1>2. TypeOK /\ OpenInv /\ [Next]_vars => OpenInv'
    BY OpenInvStep
  <1> QED
    BY <1>1, <1>2, TypeCorrect, PTL DEF Spec

(* An exclusive open excludes every other open of the context, provided no *)
(* client sends CLOSE_ALL.                                                 *)
THEOREM ExclusiveAlone ==
    ASSUME ~SendsCloseAll
    PROVE  Spec => []ExclusiveIsAlone
  <1>1. TypeOK /\ OpenInv => ExclusiveIsAlone
    BY OpenInvImplies
  <1> QED
    BY <1>1, TypeCorrect, OpenCountsKept, PTL

-----------------------------------------------------------------------------
(* The file lock of a client that has the context open is its own to drop. *)

(* What a worker between the test and the release of a file lock relies    *)
(* on.                                                                     *)
FileInv ==
    \A cl \in Client :
        /\ pc[cl] # "unlocking" => pending[cl] = NoPending
        /\ \A c \in Context : pc[cl] = "unlocking" /\ pending[cl][c] > 0 => HoldsFile(cl, c)

(* A context that a client has open cannot be opened exclusively.          *)
LEMMA OpenBlocksExclusive ==
    ASSUME TypeOK, OpenInv, NEW cl \in Client, NEW c \in Context, HasOpen(cl, c)
    PROVE  ~CanOpenExclusive(c)
  <1> SUFFICES ASSUME CanOpenExclusive(c)
               PROVE  FALSE
    OBVIOUS
  <1>1. IsFiniteSet(Openings(c)) /\ Cardinality(Openings(c)) <= 0
    BY DEF CanOpenExclusive, OpenInv, OpenCount
  <1>2. Openings(c) = {}
    BY <1>1, FS_CardinalityType, FS_EmptySet
  <1>3. openContexts[cl][c] \in Nat
    BY DEF TypeOK
  <1>4. <<cl, 1>> \in Openings(c)
    BY <1>3 DEF Openings, HasOpen
  <1> QED
    BY <1>2, <1>4

(* A step of one client leaves the tables and the progress of the others.  *)
LEMMA StepIsPrivate ==
    ASSUME TypeOK, NEW cl \in Client, NEW other \in Client \ {cl}, Step(other)
    PROVE  /\ openContexts'[cl] = openContexts[cl]
           /\ pc'[cl] = pc[cl]
           /\ pending'[cl] = pending[cl]
           /\ recLocks'[cl] = recLocks[cl]
  <1>1. openContexts'[cl] = openContexts[cl]
    BY DEF Step, OnContext, OnRecord, Leave, Connect, OpenShared, OpenExclusive, Close,
           CloseAll, CloseAllNext, CloseAllDone, LockFile, LockRec, UnlockRec, CheckFileLock,
           UnlockFile, UnlockAll, Disconnect, ReleaseRecord, ReleaseContext, FreeClient,
           RegisterOpen, TypeOK
  <1>2. pc'[cl] = pc[cl]
    BY DEF Step, OnContext, OnRecord, Leave, Connect, OpenShared, OpenExclusive, Close,
           CloseAll, CloseAllNext, CloseAllDone, LockFile, LockRec, UnlockRec, CheckFileLock,
           UnlockFile, UnlockAll, Disconnect, ReleaseRecord, ReleaseContext, FreeClient, TypeOK
  <1>3. pending'[cl] = pending[cl]
    BY DEF Step, OnContext, OnRecord, Leave, Connect, OpenShared, OpenExclusive, Close,
           CloseAll, CloseAllNext, CloseAllDone, LockFile, LockRec, UnlockRec, CheckFileLock,
           UnlockFile, UnlockAll, Disconnect, ReleaseRecord, ReleaseContext, FreeClient, TypeOK
  <1>4. recLocks'[cl] = recLocks[cl]
    BY DEF Step, OnContext, OnRecord, Leave, Connect, OpenShared, OpenExclusive, Close,
           CloseAll, CloseAllNext, CloseAllDone, LockFile, LockRec, UnlockRec, CheckFileLock,
           UnlockFile, UnlockAll, Disconnect, ReleaseRecord, ReleaseContext, FreeClient,
           CloseContext, ReleaseInContext, RegisterRecLock, TypeOK
  <1> QED
    BY <1>1, <1>2, <1>3, <1>4

LEMMA OthersKeepFile ==
    ASSUME TypeOK, OpenInv, FileInv, NEW cl \in Client, NEW c \in Context, HoldsFile(cl, c),
           NEW other \in Client \ {cl}, Step(other)
    PROVE  HoldsFile(cl, c)'
  <1> USE DEF context
  <1>1. HasOpen(cl, c)'
    BY StepIsPrivate DEF HoldsFile, HasOpen
  <1>2. isLocked[c] /\ clientLocking[c] = cl
    BY DEF HoldsFile, OwnsFile
  <1>3. ASSUME UNCHANGED <<isLocked, clientLocking>>
        PROVE  OwnsFile(cl, c)'
    BY <1>2, <1>3 DEF OwnsFile
  <1>4. ASSUME NEW d \in Context, OpenExclusive(other, d)
        PROVE  OwnsFile(cl, c)'
    <2>1. ~CanOpenExclusive(c)
      BY OpenBlocksExclusive DEF HoldsFile
    <2> QED
      BY <1>2, <1>4, <2>1 DEF OpenExclusive, OwnsFile, TypeOK
  <1>5. ASSUME NEW d \in Context, CloseContext(other, d)
        PROVE  OwnsFile(cl, c)'
    <2>1. isLocked' = isLocked /\ clientLocking'[c] = clientLocking[c]
      BY <1>2, <1>5, CloseContextEffect
    <2> QED
      BY <1>2, <2>1 DEF OwnsFile
  <1>6. ASSUME NEW d \in Context, LockFile(other, d)
        PROVE  OwnsFile(cl, c)'
    BY <1>2, <1>6 DEF LockFile, CanLockFile, OwnsFile, TypeOK
  <1>7. ASSUME NEW d \in Context, UnlockFile(other, d)
        PROVE  OwnsFile(cl, c)'
    <2>1. OwnsFile(other, d) /\ DropFileLock(d)
      BY <1>7 DEF UnlockFile, FileInv, HoldsFile
    <2>2. d # c
      BY <1>2, <2>1 DEF OwnsFile
    <2> QED
      BY <1>2, <2>1, <2>2, DropFileLockEffect DEF OwnsFile
  <1>8. ASSUME NEW d \in Context, DropOwnFileLock(other, d)
        PROVE  OwnsFile(cl, c)'
    <2>1. CASE d = c
      <3>1. ~OwnsFile(other, d)
        BY <1>2, <2>1 DEF OwnsFile
      <3> QED
        BY <1>3, <1>8, <3>1, DropOwnFileLockEffect
    <2>2. CASE d # c
      BY <1>2, <1>8, <2>2, DropOwnFileLockEffect DEF OwnsFile
    <2> QED
      BY <2>1, <2>2
  <1>9. ASSUME NEW d \in Context,
               Close(other, d) \/ ReleaseContext(other, d) \/ CloseAllNext(other, d)
        PROVE  OwnsFile(cl, c)'
    BY <1>3, <1>5, <1>9 DEF Close, ReleaseContext, CloseAllNext
  <1>10. ASSUME NEW d \in Context, UnlockAll(other, d)
         PROVE  OwnsFile(cl, c)'
    BY <1>3, <1>8, <1>10 DEF UnlockAll
  <1>11. ASSUME NEW x \in Records, UnlockRec(other, x)
         PROVE  OwnsFile(cl, c)'
    <2>1. x[1] \in Context /\ DropOwnFileLock(other, x[1])
      BY <1>11, ServerAssumption DEF UnlockRec, ServerAssumption
    <2> QED
      BY <1>8, <2>1
  <1>12. ASSUME \/ Connect(other) \/ CloseAll(other) \/ CloseAllDone(other)
                \/ Disconnect(other) \/ FreeClient(other)
                \/ \E d \in Context : OpenShared(other, d)
                \/ \E x \in Records :
                      LockRec(other, x) \/ CheckFileLock(other, x) \/ ReleaseRecord(other, x)
         PROVE  OwnsFile(cl, c)'
    <2>1. UNCHANGED <<isLocked, clientLocking>>
      BY <1>12 DEF Connect, CloseAll, CloseAllDone, Disconnect, FreeClient, OpenShared,
                   LockRec, CheckFileLock, ReleaseRecord
    <2> QED
      BY <1>3, <2>1
  <1>13. OwnsFile(cl, c)'
    BY <1>4, <1>6, <1>7, <1>9, <1>10, <1>11, <1>12 DEF Step, OnContext, OnRecord, Leave
  <1> QED
    BY <1>1, <1>13 DEF HoldsFile

LEMMA FileInvStep ==
    ASSUME ~SendsCloseAll
    PROVE  TypeOK /\ OpenInv /\ FileInv /\ [Next]_vars => FileInv'
  <1> SUFFICES ASSUME TypeOK, OpenInv, FileInv, [Next]_vars, NEW cl \in Client
               PROVE  /\ pc'[cl] # "unlocking" => pending'[cl] = NoPending
                      /\ \A c \in Context :
                            pc'[cl] = "unlocking" /\ pending'[cl][c] > 0 => HoldsFile(cl, c)'
    BY DEF FileInv, NoPending
  <1> USE DEF context, entries
  <1>1. CASE UNCHANGED vars
    BY <1>1 DEF vars, FileInv, HoldsFile, HasOpen, OwnsFile
  <1>2. ASSUME NEW other \in Client \ {cl}, Step(other)
        PROVE  /\ pc'[cl] # "unlocking" => pending'[cl] = NoPending
               /\ \A c \in Context :
                     pc'[cl] = "unlocking" /\ pending'[cl][c] > 0 => HoldsFile(cl, c)'
    <2>1. pc'[cl] = pc[cl] /\ pending'[cl] = pending[cl]
      BY <1>2, StepIsPrivate
    <2> QED
      BY <1>2, <2>1, OthersKeepFile DEF FileInv
  <1>3. ASSUME Step(cl)
        PROVE  /\ pc'[cl] # "unlocking" => pending'[cl] = NoPending
               /\ \A c \in Context :
                     pc'[cl] = "unlocking" /\ pending'[cl][c] > 0 => HoldsFile(cl, c)'
    <2>1. CASE \E x \in Records : CheckFileLock(cl, x) /\ pc' # pc
      <3>1. PICK x \in Records : CheckFileLock(cl, x) /\ pc' # pc
        BY <2>1
      <3>2. /\ HoldsFile(cl, x[1])
            /\ UNCHANGED <<openContexts, isLocked, clientLocking>>
            /\ pc[cl] = "ready"
            /\ pc' = [pc EXCEPT ![cl] = "unlocking"]
            /\ pending' = [pending EXCEPT ![cl][x[1]] = 1]
        BY <3>1 DEF CheckFileLock, HoldsFile, Ready
      <3>3. pending[cl] = NoPending
        BY <3>2 DEF FileInv
      <3>4. \A c \in Context \ {x[1]} : pending'[cl][c] = 0
        BY <3>2, <3>3 DEF TypeOK, NoPending
      <3>5. HoldsFile(cl, x[1])'
        BY <3>2 DEF HoldsFile, HasOpen, OwnsFile
      <3>6. pc'[cl] = "unlocking"
        BY <3>2 DEF TypeOK
      <3> QED
        BY <3>4, <3>5, <3>6
    <2>2. CASE \E c \in Context : UnlockFile(cl, c)
      <3>1. pc'[cl] = "ready" /\ pending'[cl] = NoPending
        BY <2>2 DEF UnlockFile, TypeOK
      <3> QED
        BY <3>1
    <2>3. CASE /\ ~\E x \in Records : CheckFileLock(cl, x) /\ pc' # pc
               /\ ~\E c \in Context : UnlockFile(cl, c)
      <3>1. /\ pc[cl] # "unlocking"
            /\ pending' = pending
            /\ pc'[cl] # "unlocking"
        <4>1. \A c \in Context : ~CloseAllNext(cl, c)
          BY DEF CloseAllNext, OpenInv, NoCloseAll
        <4>2. ~CloseAll(cl)
          BY DEF CloseAll
        <4>5. ASSUME NEW x \in Records, CheckFileLock(cl, x)
              PROVE  pc[cl] # "unlocking" /\ pending' = pending
          <5>1. pc' = pc
            BY <2>3, <4>5
          <5>2. pc' # [pc EXCEPT ![cl] = "unlocking"] \/ pc[cl] = "unlocking"
            BY <5>1 DEF TypeOK
          <5>3. CASE UNCHANGED pending /\ pc[cl] # "unlocking"
            BY <5>3
          <5>4. CASE Ready(cl) /\ pc' = [pc EXCEPT ![cl] = "unlocking"]
            BY <5>2, <5>4 DEF Ready
          <5>5. Ready(cl)
            BY <4>5 DEF CheckFileLock
          <5> QED
            BY <4>5, <5>3, <5>4, <5>5 DEF CheckFileLock, Ready
        <4>3. pc[cl] # "unlocking" /\ pending' = pending
          BY <1>3, <2>3, <4>1, <4>2, <4>5
             DEF Step, OnContext, OnRecord, Leave, Connect, OpenShared, OpenExclusive, Close,
                 CloseAllDone, LockFile, LockRec, UnlockRec, UnlockAll, Disconnect,
                 ReleaseRecord, ReleaseContext, FreeClient, Ready
        <4>4. pc' = pc \/ \E s \in {"off", "ready", "leaving"} : pc' = [pc EXCEPT ![cl] = s]
          BY <1>3, <2>3, <4>1, <4>2
             DEF Step, OnContext, OnRecord, Leave, Connect, OpenShared, OpenExclusive, Close,
                 CloseAllDone, LockFile, LockRec, UnlockRec, CheckFileLock, UnlockAll, Disconnect,
                 ReleaseRecord, ReleaseContext, FreeClient
        <4> QED
          BY <4>3, <4>4 DEF TypeOK
      <3> QED
        BY <3>1 DEF FileInv
    <2> QED
      BY <2>1, <2>2, <2>3
  <1> QED
    BY <1>1, <1>2, <1>3 DEF Next

THEOREM FileInvKept ==
    ASSUME ~SendsCloseAll
    PROVE  Spec => []FileInv
  <1>1. Init => FileInv
    BY DEF Init, FileInv
  <1>2. TypeOK /\ OpenInv /\ FileInv /\ [Next]_vars => FileInv'
    BY FileInvStep
  <1> QED
    BY <1>1, <1>2, TypeCorrect, OpenCountsKept, PTL DEF Spec

(* UNLOCK_REC drops a file lock that is still the client's.                *)
THEOREM ClearsOwn ==
    ASSUME ~SendsCloseAll
    PROVE  Spec => []ClearsOwnFileLock
  <1>1. FileInv => ClearsOwnFileLock
    BY DEF FileInv, ClearsOwnFileLock, HoldsFile
  <1> QED
    BY <1>1, FileInvKept, PTL

(* No step of another client takes the file lock of a client that has the  *)
(* context open.                                                           *)
THEOREM FileLockIsKept ==
    ASSUME ~SendsCloseAll
    PROVE  Spec => FileLockKept
  <1>1. TypeOK /\ OpenInv /\ FileInv /\ [Next]_vars =>
          [\A cl \in Client, c \in Context :
             HoldsFile(cl, c) /\ ~HoldsFile(cl, c)' => ~OtherStep(cl)]_vars
    BY OthersKeepFile DEF OtherStep
  <1> QED
    BY <1>1, TypeCorrect, OpenCountsKept, FileInvKept, PTL DEF Spec, FileLockKept

-----------------------------------------------------------------------------
(* The record locks, up to the first command that meets the structure of   *)
(* another record: see OwnStructure.  A client may have locks on records   *)
(* of one number in several contexts, and give them up in any order.       *)

(* The two halves of TablesAgree for one record.                           *)
Agree(cl, x) ==
    /\ lockedRecords[x] = cl => recLocks[cl][x] = 1 /\ HasOpen(cl, x[1])
    /\ lockedRecords[x] # cl => recLocks[cl][x] = 0

LEMMA AgreeMeans ==
    TablesAgree <=> freed = {} /\ \A cl \in Client, x \in Records : Agree(cl, x)
  BY DEF TablesAgree, Agree

(* What a command releases is the client's own: the entries R of the       *)
(* context and the structures R of the client.                             *)
LEMMA ReleaseOwn ==
    ASSUME TypeOK, TablesAgree, NEW cl \in Client, NEW R \in SUBSET Records,
           \A x \in R : recLocks[cl][x] > 0,
           Remove(cl, R, R)
    PROVE  /\ freed' = {}
           /\ \A x \in R : lockedRecords[x] = cl /\ lockedRecords'[x] = NoClient
           /\ \A x \in Records \ R : lockedRecords'[x] = lockedRecords[x]
  <1>1. freed = {}
    BY DEF TablesAgree
  <1>2. \A x \in R : lockedRecords[x] = cl
    BY DEF TablesAgree
  <1> QED
    BY <1>1, <1>2, RemoveEffect

LEMMA ReleaseInContextOwn ==
    ASSUME TypeOK, TablesAgree, NEW cl \in Client, NEW c \in Context, ReleaseInContext(cl, c)
    PROVE  /\ freed' = {}
           /\ \A x \in Records : x[1] = c => lockedRecords'[x] # cl /\ recLocks'[cl][x] = 0
           /\ \A x \in Records : x[1] = c /\ lockedRecords[x] = cl => lockedRecords'[x] = NoClient
           /\ \A x \in Records : x[1] # c \/ lockedRecords[x] # cl => lockedRecords'[x] = lockedRecords[x]
           /\ \A x \in Records : x[1] # c => recLocks'[cl][x] = recLocks[cl][x]
           /\ \A b \in Client \ {cl} : recLocks'[b] = recLocks[b]
  <1>1. freed = {}
    BY DEF TablesAgree
  <1>2. \A x \in Records : recLocks[cl][x] > 0 <=> lockedRecords[x] = cl
    BY DEF TablesAgree
  <1>3. \A x \in Records : recLocks[cl][x] = 0 <=> lockedRecords[x] # cl
    BY DEF TablesAgree
  <1>4. cl # NoClient
    BY ServerAssumption DEF ServerAssumption
  <1> QED
    BY <1>1, <1>2, <1>3, <1>4, ReleaseInContextEffect

(* The record released by UNLOCK_REC is the one the command names.         *)
LEMMA UnlockRecOwn ==
    ASSUME OwnStructure, TypeOK, TablesAgree, NEW cl \in Client, NEW x \in Records, UnlockRec(cl, x)
    PROVE  /\ freed' = {}
           /\ lockedRecords[x] = cl /\ lockedRecords'[x] = NoClient
           /\ \A y \in Records \ {x} : lockedRecords'[y] = lockedRecords[y]
           /\ \A b \in Client, y \in Records :
                 recLocks'[b][y] = IF b = cl /\ y = x THEN recLocks[cl][x] - 1 ELSE recLocks[b][y]
  <1>1. PICK s \in FoundRecLock(cl, x[2]) :
          /\ Remove(cl, {x}, {s})
          /\ \A b \in Client, y \in Records :
                recLocks'[b][y] = IF b = cl /\ y = s THEN recLocks[cl][s] - 1 ELSE recLocks[b][y]
    BY UnlockRecEffect
  <1>2. s = x /\ recLocks[cl][x] > 0
    <2>1. s \in Records /\ recLocks[cl][s] > 0 /\ recLocks[cl][s] \in Nat
      BY DEF FoundRecLock, TypeOK
    <2>2. recLocks'[cl][s] # recLocks[cl][s]
      BY <1>1, <2>1
    <2>3. OnRecord(cl, x)
      BY DEF OnRecord
    <2> QED
      BY <2>1, <2>2, <2>3 DEF OwnStructure
  <1>3. {x} \in SUBSET Records /\ Remove(cl, {x}, {x}) /\ \A y \in {x} : recLocks[cl][y] > 0
    BY <1>1, <1>2
  <1>4. /\ freed' = {}
        /\ \A y \in {x} : lockedRecords[y] = cl /\ lockedRecords'[y] = NoClient
        /\ \A y \in Records \ {x} : lockedRecords'[y] = lockedRecords[y]
    BY <1>3, ReleaseOwn
  <1> QED
    BY <1>1, <1>2, <1>4

LEMMA ReleaseRecordOwn ==
    ASSUME TypeOK, TablesAgree, NEW cl \in Client, NEW x \in Records, ReleaseRecord(cl, x)
    PROVE  /\ freed' = {}
           /\ lockedRecords[x] = cl /\ lockedRecords'[x] = NoClient
           /\ \A y \in Records \ {x} : lockedRecords'[y] = lockedRecords[y]
           /\ \A b \in Client, y \in Records :
                 recLocks'[b][y] = IF b = cl /\ y = x THEN recLocks[cl][x] - 1 ELSE recLocks[b][y]
  <1>1. /\ {x} \in SUBSET Records
        /\ Remove(cl, {x}, {x})
        /\ \A y \in {x} : recLocks[cl][y] > 0
    BY DEF ReleaseRecord
  <1>2. /\ freed' = {}
        /\ \A y \in {x} : lockedRecords[y] = cl /\ lockedRecords'[y] = NoClient
        /\ \A y \in Records \ {x} : lockedRecords'[y] = lockedRecords[y]
    BY <1>1, ReleaseOwn
  <1>3. /\ recLocks \in [Client -> [Records -> Nat]]
        /\ recLocks[cl][x] > 0
        /\ recLocks' = [recLocks EXCEPT ![cl][x] = recLocks[cl][x] - 1]
    BY DEF ReleaseRecord, TypeOK
  <1> QED
    BY <1>2, <1>3, DecrementTable

(* A record is granted when it is free.                                    *)
LEMMA LockRecOwn ==
    ASSUME OwnStructure, TypeOK, TablesAgree, NEW cl \in Client, NEW x \in Records, LockRec(cl, x),
           ~UNCHANGED <<lockedRecords, recLocks>>
    PROVE  /\ ~isLocked[x[1]] /\ ~isOpenExclusive[x[1]]
           /\ HasOpen(cl, x[1])
           /\ lockedRecords[x] = NoClient
           /\ lockedRecords' = [lockedRecords EXCEPT ![x] = cl]
           /\ \A b \in Client, y \in Records :
                 recLocks'[b][y] = IF b = cl /\ y = x THEN 1 ELSE recLocks[b][y]
  <1>1. /\ ~isLocked[x[1]] /\ ~isOpenExclusive[x[1]]
        /\ HasOpen(cl, x[1])
        /\ NoClient \in FoundOwner(x)
        /\ lockedRecords' = [lockedRecords EXCEPT ![x] = cl]
        /\ RegisterRecLock(cl, x)
    BY LockRecEffect
  <1>2. lockedRecords[x] = NoClient
    BY <1>1 DEF FoundOwner, TablesAgree
  <1>3. recLocks[cl][x] = 0
    BY <1>2, ServerAssumption DEF TablesAgree, ServerAssumption
  <1>4. \A b \in Client, y \in Records :
            recLocks'[b][y] = IF b = cl /\ y = x THEN 1 ELSE recLocks[b][y]
    <2>1. recLocks'[cl] = [y \in Records |->
              IF y = x THEN (IF KeepDuplicates THEN recLocks[cl][y] + 1 ELSE 1)
              ELSE IF ~KeepDuplicates /\ y[2] = x[2] THEN 0 ELSE recLocks[cl][y]]
      BY <1>1 DEF RegisterRecLock, TypeOK
    <2>2. \A b \in Client \ {cl} : recLocks'[b] = recLocks[b]
      BY <1>1 DEF RegisterRecLock, TypeOK
    <2>3. \A y \in Records \ {x} : recLocks'[cl][y] = recLocks[cl][y]
      BY DEF OwnStructure, OnRecord
    <2> QED
      BY <1>3, <2>1, <2>2, <2>3
  <1> QED
    BY <1>1, <1>2, <1>4

(* The entries of a context that a step may change are the actor's.        *)
OwnEntries(cl) ==
    \A x \in Records :
        \/ lockedRecords'[x] = lockedRecords[x]
        \/ lockedRecords[x] = cl /\ lockedRecords'[x] = NoClient
        \/ lockedRecords[x] = NoClient /\ lockedRecords'[x] = cl

(* The tables agree after a step if the actor's do.                        *)
LEMMA AgreeForActor ==
    ASSUME TypeOK, TablesAgree, NEW cl \in Client, Step(cl),
           freed' = {}, OwnEntries(cl), \A x \in Records : Agree(cl, x)'
    PROVE  TablesAgree'
  <1>1. NoClient \notin Client
    BY ServerAssumption DEF ServerAssumption
  <1>2. ASSUME NEW b \in Client \ {cl}, NEW x \in Records
        PROVE  Agree(b, x)'
    <2>1. recLocks'[b] = recLocks[b] /\ openContexts'[b] = openContexts[b]
      BY StepIsPrivate
    <2>2. lockedRecords'[x] = b <=> lockedRecords[x] = b
      BY <1>1 DEF OwnEntries
    <2>3. Agree(b, x)
      BY AgreeMeans
    <2> QED
      BY <2>1, <2>2, <2>3 DEF Agree, HasOpen
  <1> QED
    BY <1>2, AgreeMeans DEF TablesAgree, Agree

(* Closing releases all the client has in the context.                     *)
LEMMA AgreeAfterClose ==
    ASSUME TypeOK, TablesAgree, NEW cl \in Client, NEW c \in Context, CloseContext(cl, c),
           \A d \in Context \ {c} : openContexts'[cl][d] = openContexts[cl][d]
    PROVE  freed' = {} /\ OwnEntries(cl) /\ \A x \in Records : Agree(cl, x)'
  <1>1. ReleaseInContext(cl, c)
    BY DEF CloseContext
  <1>2. /\ freed' = {}
        /\ \A x \in Records : x[1] = c => lockedRecords'[x] # cl /\ recLocks'[cl][x] = 0
        /\ \A x \in Records : x[1] = c /\ lockedRecords[x] = cl => lockedRecords'[x] = NoClient
        /\ \A x \in Records : x[1] # c \/ lockedRecords[x] # cl => lockedRecords'[x] = lockedRecords[x]
        /\ \A x \in Records : x[1] # c => recLocks'[cl][x] = recLocks[cl][x]
    BY <1>1, ReleaseInContextOwn
  <1>3. OwnEntries(cl)
    BY <1>2 DEF OwnEntries
  <1>4. ASSUME NEW x \in Records
        PROVE  Agree(cl, x)'
    <2>1. x[1] \in Context /\ Agree(cl, x)
      BY AgreeMeans, ServerAssumption DEF ServerAssumption
    <2>2. CASE x[1] = c
      BY <1>2, <2>2 DEF Agree
    <2>3. CASE x[1] # c
      BY <1>2, <2>1, <2>3 DEF Agree, HasOpen
    <2> QED
      BY <2>2, <2>3
  <1> QED
    BY <1>2, <1>3, <1>4

(* The actor's record locks in the two tables agree after its step.         *)
LEMMA ActorAgrees ==
    ASSUME OwnStructure, TypeOK, TablesAgree, NEW cl \in Client, Step(cl)
    PROVE  freed' = {} /\ OwnEntries(cl) /\ \A x \in Records : Agree(cl, x)'
  <1> USE DEF context, entries
  <1> DEFINE Kept == freed' = {} /\ OwnEntries(cl) /\ \A x \in Records : Agree(cl, x)'
  <1>1. freed = {} /\ \A x \in Records : Agree(cl, x)
    BY AgreeMeans
  <1>2. ASSUME UNCHANGED <<entries, recLocks>>,
               \A c \in Context : HasOpen(cl, c) => HasOpen(cl, c)'
        PROVE  Kept
    <2>1. \A x \in Records : x[1] \in Context
      BY ServerAssumption DEF ServerAssumption
    <2> QED
      BY <1>1, <1>2, <2>1 DEF OwnEntries, Agree
  <1>3. ASSUME UNCHANGED <<entries, recLocks, openContexts>>
        PROVE  Kept
    BY <1>2, <1>3 DEF HasOpen
  <1>4. ASSUME NEW c \in Context, OpenShared(cl, c) \/ OpenExclusive(cl, c)
        PROVE  Kept
    <2>1. ASSUME RegisterOpen(cl, c)
          PROVE  \A d \in Context : HasOpen(cl, d) => HasOpen(cl, d)'
      <3>1. /\ openContexts'[cl][c] = IF KeepDuplicates THEN openContexts[cl][c] + 1 ELSE 1
            /\ \A d \in Context \ {c} : openContexts'[cl][d] = openContexts[cl][d]
        BY <2>1, RegisterOpenEffect
      <3>2. openContexts[cl][c] \in Nat
        BY DEF TypeOK
      <3>3. KeepDuplicates \in BOOLEAN
        BY ServerAssumption DEF ServerAssumption
      <3> QED
        BY <3>1, <3>2, <3>3 DEF HasOpen
    <2> QED
      BY <1>2, <1>3, <1>4, <2>1 DEF OpenShared, OpenExclusive
  <1>5. ASSUME NEW c \in Context, Close(cl, c)
        PROVE  Kept
    <2>1. ASSUME CloseContext(cl, c),
                 openContexts' = [openContexts EXCEPT ![cl][c] = openContexts[cl][c] - 1]
          PROVE  Kept
      BY <2>1, AgreeAfterClose DEF TypeOK
    <2> QED
      BY <1>3, <1>5, <2>1 DEF Close
  <1>6. ASSUME NEW c \in Context, ReleaseContext(cl, c)
        PROVE  Kept
    BY <1>6, AgreeAfterClose DEF ReleaseContext, TypeOK
  <1>7. ASSUME NEW c \in Context, CloseAllNext(cl, c)
        PROVE  Kept
    BY <1>7, AgreeAfterClose DEF CloseAllNext
  <1>8. ASSUME NEW c \in Context, UnlockAll(cl, c)
        PROVE  Kept
    <2>1. ASSUME ReleaseInContext(cl, c), UNCHANGED openContexts
          PROVE  Kept
      <3>1. /\ freed' = {}
            /\ \A x \in Records : x[1] = c => lockedRecords'[x] # cl /\ recLocks'[cl][x] = 0
            /\ \A x \in Records : x[1] = c /\ lockedRecords[x] = cl => lockedRecords'[x] = NoClient
            /\ \A x \in Records : x[1] # c \/ lockedRecords[x] # cl => lockedRecords'[x] = lockedRecords[x]
            /\ \A x \in Records : x[1] # c => recLocks'[cl][x] = recLocks[cl][x]
        BY <2>1, ReleaseInContextOwn
      <3> QED
        BY <1>1, <2>1, <3>1 DEF OwnEntries, Agree, HasOpen
    <2> QED
      BY <1>3, <1>8, <2>1 DEF UnlockAll
  <1>9. ASSUME NEW x \in Records, UnlockRec(cl, x) \/ ReleaseRecord(cl, x)
        PROVE  Kept
    <2>1. /\ freed' = {}
          /\ lockedRecords[x] = cl /\ lockedRecords'[x] = NoClient
          /\ \A y \in Records \ {x} : lockedRecords'[y] = lockedRecords[y]
          /\ recLocks'[cl][x] = recLocks[cl][x] - 1
          /\ \A y \in Records \ {x} : recLocks'[cl][y] = recLocks[cl][y]
      BY <1>9, UnlockRecOwn, ReleaseRecordOwn
    <2>2. openContexts' = openContexts
      BY <1>9 DEF UnlockRec, ReleaseRecord
    <2>3. recLocks[cl][x] = 1 /\ NoClient # cl
      BY <1>1, <2>1, ServerAssumption DEF Agree, ServerAssumption
    <2>4. \A y \in Records \ {x} : Agree(cl, y)'
      BY <1>1, <2>1, <2>2 DEF Agree, HasOpen
    <2>5. Agree(cl, x)'
      BY <2>1, <2>3 DEF Agree
    <2> QED
      BY <2>1, <2>4, <2>5 DEF OwnEntries
  <1>10. ASSUME NEW x \in Records, LockRec(cl, x)
         PROVE  Kept
    <2>1. UNCHANGED <<freed, openContexts>>
      BY <1>10 DEF LockRec
    <2>2. CASE UNCHANGED <<lockedRecords, recLocks>>
      BY <1>3, <2>1, <2>2
    <2>3. CASE ~UNCHANGED <<lockedRecords, recLocks>>
      <3>1. /\ HasOpen(cl, x[1])
            /\ lockedRecords[x] = NoClient
            /\ lockedRecords' = [lockedRecords EXCEPT ![x] = cl]
            /\ \A y \in Records : recLocks'[cl][y] = IF y = x THEN 1 ELSE recLocks[cl][y]
        BY <1>10, <2>3, LockRecOwn
      <3>2. lockedRecords'[x] = cl /\ \A y \in Records \ {x} : lockedRecords'[y] = lockedRecords[y]
        BY <3>1 DEF TypeOK
      <3>3. \A y \in Records : Agree(cl, y)'
        BY <1>1, <2>1, <3>1, <3>2 DEF Agree, HasOpen
      <3> QED
        BY <1>1, <2>1, <3>1, <3>2, <3>3 DEF OwnEntries
    <2> QED
      BY <2>2, <2>3
  <1>11. ASSUME \/ Connect(cl) \/ CloseAll(cl) \/ CloseAllDone(cl)
                \/ Disconnect(cl) \/ FreeClient(cl)
                \/ \E c \in Context : LockFile(cl, c) \/ UnlockFile(cl, c)
                \/ \E x \in Records : CheckFileLock(cl, x)
         PROVE  Kept
    <2>1. UNCHANGED <<entries, recLocks, openContexts>>
      BY <1>11 DEF Connect, CloseAll, CloseAllDone, Disconnect, FreeClient, LockFile,
                   UnlockFile, CheckFileLock
    <2> QED
      BY <1>3, <2>1
  <1> HIDE DEF Kept
  <1>12. Kept
    BY <1>4, <1>5, <1>6, <1>7, <1>8, <1>9, <1>10, <1>11
       DEF Step, OnContext, OnRecord, Leave
  <1> QED
    BY <1>12 DEF Kept

LEMMA TablesAgreeStep ==
    TypeOK /\ TablesAgree /\ [Next]_vars /\ [OwnStructure]_vars => TablesAgree'
  <1> SUFFICES ASSUME TypeOK, TablesAgree, [Next]_vars, [OwnStructure]_vars
               PROVE  TablesAgree'
    OBVIOUS
  <1>1. CASE UNCHANGED vars
    BY <1>1 DEF vars, context, entries, TablesAgree, HasOpen
  <1>2. ASSUME NEW cl \in Client, Step(cl), OwnStructure
        PROVE  TablesAgree'
    BY <1>2, ActorAgrees, AgreeForActor
  <1> QED
    BY <1>1, <1>2 DEF Next

(* The context tables and the client tables agree in every state up to the *)
(* first command that meets the structure of another record: no order of   *)
(* opens, closes, locks, releases and departures separates them otherwise. *)
THEOREM TablesAgreeKept == Spec /\ [][OwnStructure]_vars => []TablesAgree
  <1>1. Init => TablesAgree
    BY ServerAssumption DEF Init, TablesAgree, NoRecLocks, ServerAssumption
  <1>2. TypeOK /\ TablesAgree /\ [Next]_vars /\ [OwnStructure]_vars => TablesAgree'
    BY TablesAgreeStep
  <1> QED
    BY <1>1, <1>2, TypeCorrect, PTL DEF Spec

(* No step of another client takes a record lock from its owner, as long   *)
(* as no command of any client met the structure of another record.        *)
THEOREM RecordLockIsKept == Spec /\ [][OwnStructure]_vars => RecordLockKept
  <1>1. TypeOK /\ TablesAgree /\ [Next]_vars /\ [OwnStructure]_vars =>
          [\A cl \in Client, x \in Records :
             lockedRecords[x] = cl /\ lockedRecords'[x] # cl => ~OtherStep(cl)]_vars
    <2> SUFFICES ASSUME TypeOK, TablesAgree, OwnStructure, NEW cl \in Client, NEW x \in Records,
                        lockedRecords[x] = cl, lockedRecords'[x] # cl,
                        NEW other \in Client \ {cl}, Step(other)
                 PROVE  FALSE
      BY DEF OtherStep
    <2>1. OwnEntries(other)
      BY ActorAgrees
    <2> QED
      BY <2>1, ServerAssumption DEF OwnEntries, ServerAssumption
  <1> QED
    BY <1>1, TypeCorrect, TablesAgreeKept, PTL DEF Spec, RecordLockKept

-----------------------------------------------------------------------------
(* A context that is open exclusively has no record lock, and the tables   *)
(* implement RecordLocks.                                                  *)

IsShut(c) == isLocked[c] \/ isOpenExclusive[c]

(* A step that shuts no context and works on the context c only.           *)
WorksOn(c) ==
    /\ \A x \in Records :
           \/ lockedRecords'[x] = lockedRecords[x]
           \/ x[1] = c /\ lockedRecords'[x] = NoClient
    /\ \A d \in Context : isOpenExclusive'[d] => isOpenExclusive[d]
    /\ \A d \in Context : isLocked'[d] => isLocked[d]
    /\ \A d \in Context \ {c} :
           isOpenExclusive'[d] = isOpenExclusive[d] /\ isLocked'[d] = isLocked[d]

(* The four ways in which a step can work on the record locks.             *)
Grants(cl, x) ==
    /\ lockedRecords[x] = NoClient
    /\ ~IsShut(x[1])
    /\ lockedRecords' = [lockedRecords EXCEPT ![x] = cl]
    /\ UNCHANGED <<isOpenExclusive, isLocked>>

Shuts(c) ==
    /\ \A x \in Records : x[1] = c => lockedRecords[x] = NoClient
    /\ UNCHANGED lockedRecords
    /\ \/ isOpenExclusive' = [isOpenExclusive EXCEPT ![c] = TRUE] /\ UNCHANGED isLocked
       \/ isLocked' = [isLocked EXCEPT ![c] = TRUE] /\ UNCHANGED isOpenExclusive

OnRecordLocks(cl) ==
    \/ UNCHANGED <<lockedRecords, isOpenExclusive, isLocked>>
    \/ \E x \in Records : Grants(cl, x)
    \/ \E c \in Context : Shuts(c)
    \/ \E c \in Context : WorksOn(c)

(* Nobody has a record lock in a context that no client has open.          *)
LEMMA ExclusiveOpenFindsNone ==
    ASSUME TypeOK, OpenInv, TablesAgree, NEW c \in Context, CanOpenExclusive(c)
    PROVE  \A x \in Records : x[1] = c => lockedRecords[x] = NoClient
  <1> SUFFICES ASSUME NEW x \in Records, x[1] = c, lockedRecords[x] # NoClient
               PROVE  FALSE
    OBVIOUS
  <1>1. PICK cl \in Client : lockedRecords[x] = cl
    BY DEF TypeOK
  <1>2. HasOpen(cl, c)
    BY <1>1 DEF TablesAgree
  <1> QED
    BY <1>2, OpenBlocksExclusive

LEMMA CloseWorksOn ==
    ASSUME TypeOK, TablesAgree, NEW cl \in Client, NEW c \in Context, CloseContext(cl, c)
    PROVE  WorksOn(c)
  <1>1. ReleaseInContext(cl, c)
    BY DEF CloseContext
  <1>2. \A x \in Records :
            \/ lockedRecords'[x] = lockedRecords[x]
            \/ x[1] = c /\ lockedRecords'[x] = NoClient
    BY <1>1, ReleaseInContextOwn
  <1>3. /\ isLocked' = isLocked
        /\ \A d \in Context : isOpenExclusive'[d] => isOpenExclusive[d]
        /\ \A d \in Context \ {c} : isOpenExclusive'[d] = isOpenExclusive[d]
    BY DEF CloseContext, TypeOK
  <1> QED
    BY <1>2, <1>3 DEF WorksOn

LEMMA StepOnRecordLocks ==
    ASSUME OwnStructure, TypeOK, OpenInv, TablesAgree, NEW cl \in Client, Step(cl)
    PROVE  OnRecordLocks(cl)
  <1> USE DEF context, entries
  <1>1. ASSUME NEW c \in Context, OpenExclusive(cl, c)
        PROVE  OnRecordLocks(cl)
    <2>1. CASE CanOpenExclusive(c)
      <3>1. Shuts(c)
        BY <1>1, <2>1, ExclusiveOpenFindsNone DEF OpenExclusive, Shuts
      <3> QED
        BY <3>1 DEF OnRecordLocks
    <2>2. CASE ~CanOpenExclusive(c)
      BY <1>1, <2>2 DEF OpenExclusive, OnRecordLocks
    <2> QED
      BY <2>1, <2>2
  <1>2. ASSUME NEW c \in Context,
               Close(cl, c) \/ CloseAllNext(cl, c) \/ ReleaseContext(cl, c)
        PROVE  OnRecordLocks(cl)
    BY <1>2, CloseWorksOn DEF Close, CloseAllNext, ReleaseContext, OnRecordLocks
  <1>3. ASSUME NEW c \in Context, LockFile(cl, c)
        PROVE  OnRecordLocks(cl)
    <2>1. CASE NoEntries(c) /\ isLocked' = [isLocked EXCEPT ![c] = TRUE]
               /\ UNCHANGED <<isOpenExclusive, lockedRecords>>
      <3>1. Shuts(c)
        BY <2>1 DEF Shuts, NoEntries, InContext
      <3> QED
        BY <3>1 DEF OnRecordLocks
    <2> QED
      BY <1>3, <2>1 DEF LockFile, CanLockFile, OnRecordLocks
  <1>4. ASSUME NEW c \in Context, UnlockFile(cl, c)
        PROVE  OnRecordLocks(cl)
    <2>1. WorksOn(c)
      BY <1>4, DropFileLockEffect DEF UnlockFile, WorksOn
    <2> QED
      BY <2>1 DEF OnRecordLocks
  <1>5. ASSUME NEW c \in Context, UnlockAll(cl, c)
        PROVE  OnRecordLocks(cl)
    <2>1. CASE HasOpen(cl, c)
      <3>1. ReleaseInContext(cl, c) /\ DropOwnFileLock(cl, c) /\ UNCHANGED isOpenExclusive
        BY <1>5, <2>1 DEF UnlockAll
      <3>2. \A x \in Records :
                \/ lockedRecords'[x] = lockedRecords[x]
                \/ x[1] = c /\ lockedRecords'[x] = NoClient
        BY <3>1, ReleaseInContextOwn
      <3>3. WorksOn(c)
        BY <3>1, <3>2, DropOwnFileLockEffect DEF WorksOn
      <3> QED
        BY <3>3 DEF OnRecordLocks
    <2>2. CASE ~HasOpen(cl, c)
      BY <1>5, <2>2 DEF UnlockAll, OnRecordLocks
    <2> QED
      BY <2>1, <2>2
  <1>6. ASSUME NEW x \in Records, UnlockRec(cl, x)
        PROVE  OnRecordLocks(cl)
    <2>1. x[1] \in Context /\ DropOwnFileLock(cl, x[1]) /\ UNCHANGED isOpenExclusive
      BY <1>6, ServerAssumption DEF UnlockRec, ServerAssumption
    <2>2. /\ lockedRecords'[x] = NoClient
          /\ \A y \in Records \ {x} : lockedRecords'[y] = lockedRecords[y]
      BY <1>6, UnlockRecOwn
    <2>3. WorksOn(x[1])
      BY <2>1, <2>2, DropOwnFileLockEffect DEF WorksOn
    <2> QED
      BY <2>1, <2>3 DEF OnRecordLocks
  <1>7. ASSUME NEW x \in Records, ReleaseRecord(cl, x)
        PROVE  OnRecordLocks(cl)
    <2>1. x[1] \in Context /\ UNCHANGED <<isLocked, isOpenExclusive>>
      BY <1>7, ServerAssumption DEF ReleaseRecord, ServerAssumption
    <2>2. /\ lockedRecords'[x] = NoClient
          /\ \A y \in Records \ {x} : lockedRecords'[y] = lockedRecords[y]
      BY <1>7, ReleaseRecordOwn
    <2>3. WorksOn(x[1])
      BY <2>1, <2>2 DEF WorksOn
    <2> QED
      BY <2>1, <2>3 DEF OnRecordLocks
  <1>8. ASSUME NEW x \in Records, LockRec(cl, x)
        PROVE  OnRecordLocks(cl)
    <2>1. UNCHANGED <<isLocked, isOpenExclusive>>
      BY <1>8 DEF LockRec
    <2>2. CASE UNCHANGED <<lockedRecords, recLocks>>
      BY <2>1, <2>2 DEF OnRecordLocks
    <2>3. CASE ~UNCHANGED <<lockedRecords, recLocks>>
      <3>1. Grants(cl, x)
        BY <1>8, <2>1, <2>3, LockRecOwn DEF Grants, IsShut
      <3> QED
        BY <3>1 DEF OnRecordLocks
    <2> QED
      BY <2>2, <2>3
  <1>9. ASSUME \/ Connect(cl) \/ CloseAll(cl) \/ CloseAllDone(cl)
               \/ Disconnect(cl) \/ FreeClient(cl)
               \/ \E c \in Context : OpenShared(cl, c)
               \/ \E x \in Records : CheckFileLock(cl, x)
        PROVE  OnRecordLocks(cl)
    BY <1>9 DEF Connect, CloseAll, CloseAllDone, Disconnect, FreeClient, OpenShared,
                CheckFileLock, OnRecordLocks
  <1> QED
    BY <1>1, <1>2, <1>3, <1>4, <1>5, <1>6, <1>7, <1>8, <1>9
       DEF Step, OnContext, OnRecord, Leave

LEMMA ExclusiveStep ==
    TypeOK /\ OpenInv /\ TablesAgree /\ ExclusiveExcludesRecords
      /\ [Next]_vars /\ [OwnStructure]_vars => ExclusiveExcludesRecords'
  <1> SUFFICES ASSUME TypeOK, OpenInv, TablesAgree, ExclusiveExcludesRecords,
                      [Next]_vars, [OwnStructure]_vars,
                      NEW c \in Context, isOpenExclusive'[c],
                      NEW x \in Records, x[1] = c
               PROVE  lockedRecords'[x] = NoClient /\ x \notin freed'
    BY DEF ExclusiveExcludesRecords, NoEntries, InContext
  <1>1. isOpenExclusive[c] => lockedRecords[x] = NoClient
    BY DEF ExclusiveExcludesRecords, NoEntries, InContext
  <1>2. CASE UNCHANGED vars
    BY <1>1, <1>2 DEF vars, context, entries, TablesAgree
  <1>3. ASSUME NEW cl \in Client, Step(cl), OwnStructure
        PROVE  lockedRecords'[x] = NoClient
    <2>1. OnRecordLocks(cl)
      BY <1>3, StepOnRecordLocks
    <2>2. ASSUME NEW y \in Records, Grants(cl, y)
          PROVE  lockedRecords'[x] = NoClient
      BY <1>1, <2>2 DEF Grants, IsShut, TypeOK
    <2>3. ASSUME NEW d \in Context, Shuts(d)
          PROVE  lockedRecords'[x] = NoClient
      BY <1>1, <2>3 DEF Shuts, TypeOK
    <2>4. ASSUME NEW d \in Context, WorksOn(d)
          PROVE  lockedRecords'[x] = NoClient
      BY <1>1, <2>4 DEF WorksOn
    <2> QED
      BY <1>1, <2>1, <2>2, <2>3, <2>4 DEF OnRecordLocks
  <1>4. ASSUME NEW cl \in Client, Step(cl), OwnStructure
        PROVE  x \notin freed'
    BY <1>4, ActorAgrees
  <1> QED
    BY <1>2, <1>3, <1>4 DEF Next

(* While a context is open exclusively nobody has a record lock in it, as  *)
(* long as no command met the structure of another record and no client    *)
(* sends CLOSE_ALL.                                                        *)
THEOREM ExclusiveExcludes ==
    ASSUME ~SendsCloseAll
    PROVE  Spec /\ [][OwnStructure]_vars => []ExclusiveExcludesRecords
  <1>1. Init => ExclusiveExcludesRecords
    BY DEF Init, ExclusiveExcludesRecords
  <1>2. TypeOK /\ OpenInv /\ TablesAgree /\ ExclusiveExcludesRecords
          /\ [Next]_vars /\ [OwnStructure]_vars => ExclusiveExcludesRecords'
    BY ExclusiveStep
  <1> QED
    BY <1>1, <1>2, TypeCorrect, OpenCountsKept, TablesAgreeKept, PTL DEF Spec

-----------------------------------------------------------------------------
(* Every step implements a step of RecordLocks, or none of its steps.      *)

ShutContexts == {c \in Context : IsShut(c)}

(* What a step that works on a context takes from it, it takes from one    *)
(* owner; a context from which it takes something is not shut.             *)
LEMMA WorkRefines ==
    ASSUME TypeOK, TypeOK', FileLockExcludesRecords, ExclusiveExcludesRecords,
           NEW cl \in Client, OwnEntries(cl), NEW c \in Context, WorksOn(c)
    PROVE  \/ \E R \in SUBSET Records :
                 /\ \A x \in R : lockedRecords[x] = cl
                 /\ lockedRecords' = [x \in Records |-> IF x \in R THEN NoClient ELSE lockedRecords[x]]
                 /\ ShutContexts' = ShutContexts
           \/ /\ lockedRecords' = lockedRecords
              /\ \/ ShutContexts' = ShutContexts \ {c}
                 \/ ShutContexts' = ShutContexts
  <1> DEFINE R == {x \in Records : lockedRecords'[x] # lockedRecords[x]}
  <1>1. /\ lockedRecords \in [Records -> Client \cup {NoClient}]
        /\ lockedRecords' \in [Records -> Client \cup {NoClient}]
    BY DEF TypeOK
  <1>2. \A d \in Context \ {c} : IsShut(d)' <=> IsShut(d)
    BY DEF WorksOn, IsShut
  <1>3. IsShut(c)' => IsShut(c)
    BY DEF WorksOn, IsShut
  <1>4. CASE R = {}
    <2>1. lockedRecords' = lockedRecords
      BY <1>1, <1>4
    <2>2. CASE IsShut(c)'
      BY <1>2, <1>3, <2>1, <2>2 DEF ShutContexts
    <2>3. CASE ~IsShut(c)'
      BY <1>2, <2>1, <2>3 DEF ShutContexts
    <2> QED
      BY <2>2, <2>3
  <1>5. CASE R # {}
    <2>1. \A x \in R : x[1] = c /\ lockedRecords'[x] = NoClient
      BY DEF WorksOn
    <2>2. \A x \in R : lockedRecords[x] = cl
      BY <2>1, ServerAssumption DEF OwnEntries, ServerAssumption
    <2>3. lockedRecords' = [x \in Records |-> IF x \in R THEN NoClient ELSE lockedRecords[x]]
      BY <1>1, <2>1
    <2>4. ~IsShut(c)
      <3>1. PICK x \in R : TRUE
        BY <1>5
      <3>2. lockedRecords[x] # NoClient /\ x \in InContext(c)
        BY <2>1, <2>2, ServerAssumption DEF InContext, ServerAssumption
      <3> QED
        BY <3>2 DEF FileLockExcludesRecords, ExclusiveExcludesRecords, NoEntries, IsShut
    <2>5. ShutContexts' = ShutContexts
      BY <1>2, <1>3, <2>4 DEF ShutContexts
    <2> QED
      BY <2>2, <2>3, <2>5
  <1> QED
    BY <1>4, <1>5

LEMMA GrantRefines ==
    ASSUME TypeOK, NEW cl \in Client, NEW x \in Records, Grants(cl, x)
    PROVE  Promise!Grant(cl, x)
  BY DEF Promise!Grant, Grants, IsShut

LEMMA ShutRefines ==
    ASSUME TypeOK, NEW c \in Context, Shuts(c)
    PROVE  Promise!Shut(c)
  <1>1. \A d \in Context \ {c} : IsShut(d)' <=> IsShut(d)
    BY DEF Shuts, IsShut, TypeOK
  <1>2. IsShut(c)'
    BY DEF Shuts, IsShut, TypeOK
  <1>3. ShutContexts' = ShutContexts \cup {c}
    BY <1>1, <1>2 DEF ShutContexts
  <1> QED
    BY <1>3 DEF Promise!Shut, Shuts, ShutContexts, IsShut

LEMMA StepRefines ==
    TypeOK /\ OpenInv /\ TablesAgree /\ FileLockExcludesRecords
      /\ ExclusiveExcludesRecords /\ [Next]_vars /\ [OwnStructure]_vars
      => [Promise!Next]_<<lockedRecords, {c \in Context : isLocked[c] \/ isOpenExclusive[c]}>>
  <1> SUFFICES ASSUME TypeOK, OpenInv, TablesAgree, FileLockExcludesRecords,
                      ExclusiveExcludesRecords, [Next]_vars, [OwnStructure]_vars
               PROVE  Promise!Next \/ UNCHANGED <<lockedRecords, ShutContexts>>
    BY DEF ShutContexts, IsShut
  <1>1. TypeOK'
    BY TypeStep
  <1>2. CASE UNCHANGED vars
    BY <1>2 DEF vars, context, entries, ShutContexts, IsShut
  <1>3. ASSUME NEW cl \in Client, Step(cl), OwnStructure
        PROVE  Promise!Next \/ UNCHANGED <<lockedRecords, ShutContexts>>
    <2>1. OnRecordLocks(cl) /\ OwnEntries(cl)
      BY <1>3, StepOnRecordLocks, ActorAgrees
    <2>2. CASE UNCHANGED <<lockedRecords, isOpenExclusive, isLocked>>
      BY <2>2 DEF ShutContexts, IsShut
    <2>3. ASSUME NEW x \in Records, Grants(cl, x)
          PROVE  Promise!Next
      BY <2>3, GrantRefines DEF Promise!Next
    <2>4. ASSUME NEW c \in Context, Shuts(c)
          PROVE  Promise!Next
      BY <2>4, ShutRefines DEF Promise!Next
    <2>5. ASSUME NEW c \in Context, WorksOn(c)
          PROVE  Promise!Next \/ UNCHANGED <<lockedRecords, ShutContexts>>
      <3>1. ASSUME NEW R \in SUBSET Records,
                   \A x \in R : lockedRecords[x] = cl,
                   lockedRecords' = [x \in Records |-> IF x \in R THEN NoClient ELSE lockedRecords[x]],
                   ShutContexts' = ShutContexts
            PROVE  Promise!Next
        <4>1. Promise!Release(cl, R)
          BY <3>1 DEF Promise!Release, ShutContexts, IsShut
        <4> QED
          BY <4>1 DEF Promise!Next
      <3>2. ASSUME lockedRecords' = lockedRecords, ShutContexts' = ShutContexts \ {c}
            PROVE  Promise!Next
        <4>1. Promise!Reopen(c)
          BY <3>2 DEF Promise!Reopen, ShutContexts, IsShut
        <4> QED
          BY <4>1 DEF Promise!Next
      <3> QED
        BY <1>1, <2>1, <2>5, <3>1, <3>2, WorkRefines
    <2> QED
      BY <2>1, <2>2, <2>3, <2>4, <2>5 DEF OnRecordLocks
  <1> QED
    BY <1>2, <1>3 DEF Next

(* The server keeps the promise RecordLocks about record locks, as long as *)
(* no command met the structure of another record and no client sends      *)
(* CLOSE_ALL.                                                              *)
THEOREM ServerRefinesRecordLocks ==
    ASSUME ~SendsCloseAll
    PROVE  Spec /\ [][OwnStructure]_vars => RefinesRecordLocks
  <1>1. Init => Promise!Init
    BY DEF Init, Promise!Init
  <1>2. TypeOK /\ OpenInv /\ TablesAgree /\ FileLockExcludesRecords
          /\ ExclusiveExcludesRecords /\ [Next]_vars /\ [OwnStructure]_vars
          => [Promise!Next]_<<lockedRecords, {c \in Context : isLocked[c] \/ isOpenExclusive[c]}>>
    BY StepRefines
  <1> QED
    BY <1>1, <1>2, TypeCorrect, OpenCountsKept, TablesAgreeKept, FileLockExcludes,
       ExclusiveExcludes, PTL DEF Spec, RefinesRecordLocks, Promise!Spec

-----------------------------------------------------------------------------
(* The commands on a context as LockTable has them.                        *)

holders(c) ==
    [r \in Recno |-> IF <<c, r>> \in Records THEN lockedRecords[<<c, r>>] ELSE NoClient]
opens(c) == [cl \in Client |-> openContexts[cl][c]]

(* The members of the table of a context after a step.                     *)
LEMMA TableAfter ==
    ASSUME NEW c \in Context
    PROVE  table(c)' =
             [shared |-> openShared'[c], exclusive |-> isOpenExclusive'[c], locked |-> isLocked'[c],
              owner |-> clientLocking'[c], holder |-> holders(c)', opens |-> opens(c)']
  BY DEF table, holders, opens

LEMMA TableMembers ==
    ASSUME NEW c \in Context
    PROVE  /\ table(c).shared = openShared[c]
           /\ table(c).exclusive = isOpenExclusive[c]
           /\ table(c).locked = isLocked[c]
           /\ table(c).owner = clientLocking[c]
           /\ table(c).holder = holders(c)
           /\ table(c).opens = opens(c)
  BY DEF table, holders, opens

LEMMA TableOpens ==
    ASSUME NEW cl \in Client, NEW c \in Context
    PROVE  /\ Single!HasOpen(table(c), cl) <=> HasOpen(cl, c)
           /\ Single!OwnsFile(table(c), cl) <=> OwnsFile(cl, c)
  <1>1. table(c).opens[cl] = openContexts[cl][c]
    BY TableMembers DEF opens
  <1>2. Single!HasOpen(table(c), cl) <=> HasOpen(cl, c)
    BY <1>1 DEF Single!HasOpen, HasOpen
  <1>3. Single!OwnsFile(table(c), cl) <=> OwnsFile(cl, c)
    BY TableMembers DEF Single!OwnsFile, OwnsFile
  <1> QED
    BY <1>2, <1>3

(* A step that leaves what the table shows leaves the table.               *)
LEMMA TableStays ==
    ASSUME UNCHANGED <<openShared, isOpenExclusive, isLocked, clientLocking,
                       lockedRecords, openContexts>>,
           NEW c \in Context
    PROVE  table(c)' = table(c)
  BY DEF table

LEMMA AnswerIs ==
    ASSUME TypeOK, NEW cl \in Client, NEW code, Answer(cl, code)
    PROVE  reply'[cl] = code
  BY DEF Answer, TypeOK

LEMMA RegisteredIn ==
    ASSUME TypeOK, NEW cl \in Client, NEW c \in Context, RegisterOpen(cl, c)
    PROVE  opens(c)' = Single!Registered(table(c), cl)
  <1>1. /\ openContexts'[cl][c] = IF KeepDuplicates THEN openContexts[cl][c] + 1 ELSE 1
        /\ \A b \in Client \ {cl} : openContexts'[b][c] = openContexts[b][c]
    BY RegisterOpenEffect
  <1>2. table(c).opens = [b \in Client |-> openContexts[b][c]]
    BY TableMembers DEF opens
  <1> QED
    BY <1>1, <1>2 DEF opens, Single!Registered

LEMMA ClosedIn ==
    ASSUME TypeOK, NEW cl \in Client, NEW c \in Context,
           openContexts' = [openContexts EXCEPT ![cl][c] = @ - 1]
    PROVE  opens(c)' = [table(c).opens EXCEPT ![cl] = @ - 1]
  <1>1. /\ openContexts'[cl][c] = openContexts[cl][c] - 1
        /\ \A b \in Client \ {cl} : openContexts'[b][c] = openContexts[b][c]
    BY DEF TypeOK
  <1>2. table(c).opens = [b \in Client |-> openContexts[b][c]]
    BY TableMembers DEF opens
  <1> QED
    BY <1>1, <1>2 DEF opens

LEMMA ReleasedIn ==
    ASSUME TypeOK, TablesAgree, NEW cl \in Client, NEW c \in Context, ReleaseInContext(cl, c)
    PROVE  holders(c)' = Single!Without(table(c), cl, Recno)
  <1>1. /\ \A x \in Records : x[1] = c /\ lockedRecords[x] = cl => lockedRecords'[x] = NoClient
        /\ \A x \in Records : lockedRecords[x] # cl => lockedRecords'[x] = lockedRecords[x]
    BY ReleaseInContextOwn
  <1>2. \A r \in Recno : <<c, r>> \in Records =>
            lockedRecords'[<<c, r>>]
              = IF lockedRecords[<<c, r>>] = cl THEN NoClient ELSE lockedRecords[<<c, r>>]
    BY <1>1
  <1>3. NoClient # cl
    BY ServerAssumption DEF ServerAssumption
  <1>4. table(c).holder
          = [r \in Recno |-> IF <<c, r>> \in Records THEN lockedRecords[<<c, r>>] ELSE NoClient]
    BY TableMembers DEF holders
  <1>5. \A r \in Recno :
            (IF <<c, r>> \in Records THEN lockedRecords'[<<c, r>>] ELSE NoClient)
              = IF table(c).holder[r] = cl THEN NoClient ELSE table(c).holder[r]
    BY <1>2, <1>3, <1>4
  <1> QED
    BY <1>5 DEF holders, Single!Without

(* One record of the context changes hands.                                *)
LEMMA HolderChanges ==
    ASSUME NEW c \in Context, NEW r \in Recno, <<c, r>> \in Records,
           \A y \in Records \ {<<c, r>>} : lockedRecords'[y] = lockedRecords[y]
    PROVE  holders(c)' = [holders(c) EXCEPT ![r] = lockedRecords'[<<c, r>>]]
  <1>1. \A q \in Recno \ {r} : <<c, q>> # <<c, r>>
    OBVIOUS
  <1> QED
    BY <1>1 DEF holders

LEMMA ServesOpenShared ==
    ASSUME TypeOK, NEW cl \in Client, NEW c \in Context, OpenShared(cl, c)
    PROVE  Answers(cl, c, Single!CanOpenShared(table(c)), Single!OpenShared(table(c), cl))
  <1> USE DEF entries
  <1>1. Single!CanOpenShared(table(c)) <=> ~isOpenExclusive[c]
    BY TableMembers DEF Single!CanOpenShared
  <1>2. CASE isOpenExclusive[c]
    <2>1. table(c)' = table(c)
      BY <1>2, TableStays DEF OpenShared
    <2>2. reply'[cl] = "failed"
      BY <1>2, AnswerIs DEF OpenShared
    <2> QED
      BY <1>1, <1>2, <2>1, <2>2 DEF Answers
  <1>3. CASE ~isOpenExclusive[c]
    <2>1. openShared'[c] = openShared[c] + 1
      BY <1>3 DEF OpenShared, TypeOK
    <2>2. opens(c)' = Single!Registered(table(c), cl)
      BY <1>3, RegisteredIn DEF OpenShared
    <2>3. holders(c)' = holders(c)
      BY DEF OpenShared, holders
    <2>4. table(c)' = Single!OpenShared(table(c), cl)
      BY <2>1, <2>2, <2>3, TableAfter, TableMembers DEF OpenShared, Single!OpenShared
    <2>5. reply'[cl] = "success"
      BY <1>3, AnswerIs DEF OpenShared
    <2> QED
      BY <1>1, <1>3, <2>4, <2>5 DEF Answers
  <1> QED
    BY <1>2, <1>3

LEMMA ServesOpenExclusive ==
    ASSUME TypeOK, NEW cl \in Client, NEW c \in Context, OpenExclusive(cl, c)
    PROVE  Answers(cl, c, Single!CanOpenExclusive(table(c)), Single!OpenExclusive(table(c), cl))
  <1> USE DEF entries
  <1>1. Single!CanOpenExclusive(table(c)) <=> CanOpenExclusive(c)
    BY TableMembers DEF Single!CanOpenExclusive, CanOpenExclusive
  <1>2. CASE ~CanOpenExclusive(c)
    <2>1. table(c)' = table(c)
      BY <1>2, TableStays DEF OpenExclusive
    <2>2. reply'[cl] = "failed"
      BY <1>2, AnswerIs DEF OpenExclusive
    <2> QED
      BY <1>1, <1>2, <2>1, <2>2 DEF Answers
  <1>3. CASE CanOpenExclusive(c)
    <2>1. isOpenExclusive'[c] = TRUE /\ clientLocking'[c] = cl
      BY <1>3 DEF OpenExclusive, TypeOK
    <2>2. opens(c)' = Single!Registered(table(c), cl)
      BY <1>3, RegisteredIn DEF OpenExclusive
    <2>3. holders(c)' = holders(c)
      BY DEF OpenExclusive, holders
    <2>4. table(c)' = Single!OpenExclusive(table(c), cl)
      BY <2>1, <2>2, <2>3, TableAfter, TableMembers DEF OpenExclusive, Single!OpenExclusive
    <2>5. reply'[cl] = "success"
      BY <1>3, AnswerIs DEF OpenExclusive
    <2> QED
      BY <1>1, <1>3, <2>4, <2>5 DEF Answers
  <1> QED
    BY <1>2, <1>3

(* A command that closes a context and one that leaves it do the same.     *)
LEMMA ClosesTable ==
    ASSUME TypeOK, TablesAgree, NEW cl \in Client, NEW c \in Context, CloseContext(cl, c),
           openContexts' = [openContexts EXCEPT ![cl][c] = @ - 1]
    PROVE  table(c)' = Single!Close(table(c), cl)
  <1>1. holders(c)' = Single!Without(table(c), cl, Recno)
    BY ReleasedIn DEF CloseContext
  <1>2. opens(c)' = [table(c).opens EXCEPT ![cl] = @ - 1]
    BY ClosedIn
  <1>3. isOpenExclusive[c] \in BOOLEAN /\ isOpenExclusive'[c] \in BOOLEAN /\ openShared[c] \in Nat
    BY CloseContextEffect DEF TypeOK
  <1>4. /\ openShared'[c] = IF ~isOpenExclusive[c] /\ openShared[c] > 0
                            THEN openShared[c] - 1 ELSE openShared[c]
        /\ isOpenExclusive'[c] = (isOpenExclusive[c] /\ clientLocking[c] # cl)
        /\ isLocked'[c] = isLocked[c]
        /\ clientLocking'[c] = IF isOpenExclusive[c] /\ clientLocking[c] = cl
                               THEN NoClient ELSE clientLocking[c]
    BY <1>3, CloseContextEffect
  <1> QED
    BY <1>1, <1>2, <1>4, TableAfter, TableMembers DEF Single!Close

LEMMA ServesClose ==
    ASSUME TypeOK, TablesAgree, NEW cl \in Client, NEW c \in Context, Close(cl, c)
    PROVE  Answers(cl, c, Single!HasOpen(table(c), cl), Single!Close(table(c), cl))
  <1> USE DEF context, entries
  <1>1. CASE HasOpen(cl, c)
    <2>1. table(c)' = Single!Close(table(c), cl)
      BY <1>1, ClosesTable DEF Close
    <2>2. reply'[cl] = "success"
      BY <1>1, AnswerIs DEF Close
    <2> QED
      BY <1>1, <2>1, <2>2, TableOpens DEF Answers
  <1>2. CASE ~HasOpen(cl, c)
    <2>1. table(c)' = table(c)
      BY <1>2, TableStays DEF Close
    <2>2. reply'[cl] = "failed"
      BY <1>2, AnswerIs DEF Close
    <2> QED
      BY <1>2, <2>1, <2>2, TableOpens DEF Answers
  <1> QED
    BY <1>1, <1>2

LEMMA HolderOf ==
    ASSUME NEW c \in Context, NEW r \in Recno, <<c, r>> \in Records
    PROVE  table(c).holder[r] = lockedRecords[<<c, r>>]
  BY TableMembers DEF holders

LEMMA NoHolders ==
    ASSUME TablesAgree, NEW c \in Context
    PROVE  NoEntries(c) <=> \A r \in Recno : table(c).holder[r] = NoClient
  <1>1. freed = {}
    BY DEF TablesAgree
  <1>2. \A x \in InContext(c) : x \in Records /\ x = <<c, x[2]>> /\ x[2] \in Recno
    BY ServerAssumption DEF InContext, ServerAssumption
  <1>3. \A r \in Recno : table(c).holder[r]
            = IF <<c, r>> \in Records THEN lockedRecords[<<c, r>>] ELSE NoClient
    BY TableMembers DEF holders
  <1>4. \A r \in Recno : <<c, r>> \in Records => <<c, r>> \in InContext(c)
    BY DEF InContext
  <1>5. ASSUME NoEntries(c), NEW r \in Recno
        PROVE  table(c).holder[r] = NoClient
    BY <1>3, <1>4, <1>5 DEF NoEntries
  <1>6. ASSUME \A r \in Recno : table(c).holder[r] = NoClient
        PROVE  NoEntries(c)
    <2> SUFFICES ASSUME NEW x \in InContext(c)
                 PROVE  lockedRecords[x] = NoClient /\ x \notin freed
      BY DEF NoEntries
    <2>1. x = <<c, x[2]>> /\ x[2] \in Recno /\ <<c, x[2]>> \in Records
      BY <1>2
    <2>2. lockedRecords[<<c, x[2]>>] = NoClient
      BY <1>3, <1>6, <2>1
    <2> QED
      BY <1>1, <2>1, <2>2
  <1> QED
    BY <1>5, <1>6

LEMMA ServesLockFile ==
    ASSUME TypeOK, TablesAgree, NEW cl \in Client, NEW c \in Context, LockFile(cl, c)
    PROVE  Answers(cl, c, Single!CanLockFile(table(c), cl), Single!LockFile(table(c), cl))
  <1> USE DEF entries
  <1>1. Single!CanLockFile(table(c), cl)
          <=> HasOpen(cl, c) /\ (CanLockFile(c) \/ OwnsFile(cl, c))
    <2>1. NoEntries(c) <=> \A r \in Recno : table(c).holder[r] = NoClient
      BY NoHolders
    <2> QED
      BY <2>1, TableOpens, TableMembers DEF Single!CanLockFile, CanLockFile, OwnsFile
  <1>2. CASE HasOpen(cl, c) /\ CanLockFile(c)
    <2>0. ~OwnsFile(cl, c)
      BY <1>2 DEF CanLockFile, OwnsFile
    <2>1. isLocked'[c] = TRUE /\ clientLocking'[c] = cl
      BY <1>2, <2>0 DEF LockFile, TypeOK
    <2>2. holders(c)' = holders(c) /\ opens(c)' = opens(c)
      BY DEF LockFile, holders, opens
    <2>3. table(c)' = Single!LockFile(table(c), cl)
      BY <2>1, <2>2, TableAfter, TableMembers DEF LockFile, Single!LockFile
    <2>4. reply'[cl] = "success"
      BY <1>2, <2>0, AnswerIs DEF LockFile
    <2> QED
      BY <1>1, <1>2, <2>3, <2>4 DEF Answers
  <1>3. CASE HasOpen(cl, c) /\ OwnsFile(cl, c)
    <2>0. ~CanLockFile(c)
      BY <1>3 DEF CanLockFile, OwnsFile
    <2>1. UNCHANGED <<isLocked, clientLocking>> /\ Answer(cl, "success")
      BY <1>3, <2>0 DEF LockFile
    <2>2. table(c)' = table(c)
      BY <2>1, TableStays DEF LockFile
    <2>3. isLocked[c] = TRUE /\ clientLocking[c] = cl
      BY <1>3 DEF OwnsFile, TypeOK
    <2>4. table(c) = Single!LockFile(table(c), cl)
      BY <2>3, TableMembers DEF table, Single!LockFile
    <2> QED
      BY <1>1, <1>3, <2>1, <2>2, <2>4, AnswerIs DEF Answers
  <1>4. CASE ~HasOpen(cl, c) \/ (~CanLockFile(c) /\ ~OwnsFile(cl, c))
    <2>1. UNCHANGED <<isLocked, clientLocking>> /\ Answer(cl, "failed")
      BY <1>4 DEF LockFile
    <2>2. table(c)' = table(c)
      BY <2>1, TableStays DEF LockFile
    <2> QED
      BY <1>1, <1>4, <2>1, <2>2, AnswerIs DEF Answers
  <1> QED
    BY <1>2, <1>3, <1>4

(* The file lock after a release: the client's is gone, another stays.     *)
LEMMA FileLockAfter ==
    ASSUME TypeOK, NEW cl \in Client, NEW c \in Context, DropOwnFileLock(cl, c)
    PROVE  /\ isLocked'[c] = (table(c).locked /\ table(c).owner # cl)
           /\ clientLocking'[c]
                = IF Single!OwnsFile(table(c), cl) THEN NoClient ELSE table(c).owner
  <1>1. isLocked[c] \in BOOLEAN
    BY DEF TypeOK
  <1>2. CASE OwnsFile(cl, c)
    <2>1. isLocked'[c] = FALSE /\ clientLocking'[c] = NoClient
      BY <1>2 DEF DropOwnFileLock, DropFileLock, TypeOK
    <2> QED
      BY <1>2, <2>1, TableOpens, TableMembers DEF OwnsFile
  <1>3. CASE ~OwnsFile(cl, c)
    <2>1. isLocked'[c] = isLocked[c] /\ clientLocking'[c] = clientLocking[c]
      BY <1>3 DEF DropOwnFileLock
    <2> QED
      BY <1>1, <1>3, <2>1, TableOpens, TableMembers DEF OwnsFile
  <1> QED
    BY <1>2, <1>3

LEMMA ServesUnlockAll ==
    ASSUME TypeOK, TablesAgree, NEW cl \in Client, NEW c \in Context, UnlockAll(cl, c)
    PROVE  Answers(cl, c, Single!HasOpen(table(c), cl), Single!UnlockAll(table(c), cl))
  <1> USE DEF entries
  <1>1. CASE HasOpen(cl, c)
    <2>1. ReleaseInContext(cl, c) /\ DropOwnFileLock(cl, c) /\ Answer(cl, "success")
      BY <1>1 DEF UnlockAll
    <2>2. holders(c)' = Single!Without(table(c), cl, Recno)
      BY <2>1, ReleasedIn
    <2>3. opens(c)' = opens(c)
      BY DEF UnlockAll, opens
    <2>4. table(c)' = Single!UnlockAll(table(c), cl)
      BY <2>1, <2>2, <2>3, FileLockAfter, TableAfter, TableMembers
         DEF UnlockAll, Single!UnlockAll, Single!Released
    <2> QED
      BY <1>1, <2>1, <2>4, AnswerIs, TableOpens DEF Answers
  <1>2. CASE ~HasOpen(cl, c)
    <2>1. table(c)' = table(c)
      BY <1>2, TableStays DEF UnlockAll
    <2>2. Answer(cl, "failed")
      BY <1>2 DEF UnlockAll
    <2> QED
      BY <1>2, <2>1, <2>2, AnswerIs, TableOpens DEF Answers
  <1> QED
    BY <1>1, <1>2

LEMMA ServesUnlockFile ==
    ASSUME TypeOK, TablesAgree, FileInv, FileLockExcludesRecords,
           NEW cl \in Client, NEW c \in Context, UnlockFile(cl, c)
    PROVE  Answers(cl, c, Single!OwnsFile(table(c), cl), Single!UnlockAll(table(c), cl))
  <1> USE DEF entries
  <1>1. OwnsFile(cl, c) /\ DropFileLock(c) /\ Answer(cl, "success")
    BY DEF UnlockFile, FileInv, HoldsFile
  <1>2. \A r \in Recno : table(c).holder[r] = NoClient
    BY <1>1, NoHolders DEF OwnsFile, FileLockExcludesRecords
  <1>3. NoClient # cl
    BY ServerAssumption DEF ServerAssumption
  <1>4. holders(c) = Single!Without(table(c), cl, Recno)
    <2>1. \A r \in Recno : table(c).holder[r]
              = IF r \in Recno /\ table(c).holder[r] = cl THEN NoClient ELSE table(c).holder[r]
      BY <1>2, <1>3
    <2>2. holders(c) = [r \in Recno |-> table(c).holder[r]]
      BY TableMembers DEF holders
    <2> QED
      BY <2>1, <2>2 DEF Single!Without
  <1>5. holders(c)' = holders(c) /\ opens(c)' = opens(c)
    BY DEF UnlockFile, holders, opens
  <1>6. DropOwnFileLock(cl, c)
    BY <1>1 DEF DropOwnFileLock
  <1>7. table(c)' = Single!UnlockAll(table(c), cl)
    BY <1>4, <1>5, <1>6, FileLockAfter, TableAfter, TableMembers
       DEF UnlockFile, Single!UnlockAll, Single!Released
  <1> QED
    BY <1>1, <1>7, AnswerIs, TableOpens DEF Answers

LEMMA ServesLockRec ==
    ASSUME TypeOK, TablesAgree, NEW cl \in Client, NEW c \in Context, NEW r \in Recno,
           <<c, r>> \in Records, LockRec(cl, <<c, r>>)
    PROVE  Answers(cl, c, Single!CanLockRec(table(c), cl, r), Single!LockRec(table(c), cl, r))
  <1> USE DEF context, entries
  <1>1. Single!CanLockRec(table(c), cl, r)
          <=> /\ HasOpen(cl, c)
              /\ IF IsShut(c) THEN clientLocking[c] = cl
                              ELSE lockedRecords[<<c, r>>] \in {cl, NoClient}
    BY TableOpens, TableMembers, HolderOf DEF Single!CanLockRec, Single!Shut, IsShut
  <1>2. FoundOwner(<<c, r>>) = {lockedRecords[<<c, r>>]}
    BY DEF FoundOwner, TablesAgree
  <1>3. NoClient # cl
    BY ServerAssumption DEF ServerAssumption
  <1>4. UNCHANGED <<openShared, isOpenExclusive, isLocked, clientLocking, openContexts>>
    BY DEF LockRec
  <1>5. CASE ~IsShut(c) /\ HasOpen(cl, c) /\ lockedRecords[<<c, r>>] = NoClient
    <2>1. lockedRecords' = [lockedRecords EXCEPT ![<<c, r>>] = cl] /\ Answer(cl, "success")
      BY <1>2, <1>5 DEF LockRec, IsShut
    <2>2. /\ lockedRecords'[<<c, r>>] = cl
          /\ \A y \in Records \ {<<c, r>>} : lockedRecords'[y] = lockedRecords[y]
      BY <2>1 DEF TypeOK
    <2>3. holders(c)' = [holders(c) EXCEPT ![r] = cl]
      BY <2>2, HolderChanges
    <2>4. opens(c)' = opens(c)
      BY <1>4 DEF opens
    <2>5. ~Single!Shut(table(c))
      BY <1>5, TableMembers DEF Single!Shut, IsShut
    <2>6. table(c)' = Single!LockRec(table(c), cl, r)
      BY <1>4, <2>3, <2>4, <2>5, TableAfter, TableMembers DEF Single!LockRec
    <2> QED
      BY <1>1, <1>5, <2>1, <2>6, AnswerIs DEF Answers
  <1>6. ASSUME UNCHANGED lockedRecords
        PROVE  table(c)' = table(c)
    BY <1>4, <1>6, TableStays
  <1>7. CASE ~IsShut(c) /\ HasOpen(cl, c) /\ lockedRecords[<<c, r>>] # NoClient
    <2>1. /\ UNCHANGED lockedRecords
          /\ Answer(cl, IF lockedRecords[<<c, r>>] = cl THEN "success" ELSE "failed")
      BY <1>2, <1>7 DEF LockRec, IsShut
    <2>2. CASE lockedRecords[<<c, r>>] = cl
      <3>1. ~Single!Shut(table(c))
        BY <1>7, TableMembers DEF Single!Shut, IsShut
      <3>2. [table(c).holder EXCEPT ![r] = cl] = table(c).holder
        <4>1. table(c).holder = [q \in Recno |-> holders(c)[q]] /\ table(c).holder[r] = cl
          BY <2>2, HolderOf, TableMembers DEF holders
        <4> QED
          BY <4>1
      <3>3. table(c) = Single!LockRec(table(c), cl, r)
        BY <3>1, <3>2, TableMembers DEF table, Single!LockRec
      <3> QED
        BY <1>1, <1>6, <1>7, <2>1, <2>2, <3>3, AnswerIs DEF Answers
    <2>3. CASE lockedRecords[<<c, r>>] # cl
      BY <1>1, <1>6, <1>7, <2>1, <2>3, AnswerIs DEF Answers
    <2> QED
      BY <2>2, <2>3
  <1>8. CASE IsShut(c) /\ HasOpen(cl, c)
    <2>1. /\ UNCHANGED lockedRecords
          /\ Answer(cl, IF clientLocking[c] = cl THEN "success" ELSE "failed")
      BY <1>8 DEF LockRec, IsShut
    <2>2. table(c) = Single!LockRec(table(c), cl, r)
      <3>1. Single!Shut(table(c))
        BY <1>8, TableMembers DEF Single!Shut, IsShut
      <3> QED
        BY <3>1, TableMembers DEF table, Single!LockRec
    <2> QED
      BY <1>1, <1>6, <1>8, <2>1, <2>2, AnswerIs DEF Answers
  <1>9. CASE ~HasOpen(cl, c)
    <2>1. UNCHANGED lockedRecords /\ Answer(cl, "failed")
      BY <1>9 DEF LockRec
    <2> QED
      BY <1>1, <1>6, <1>9, <2>1, AnswerIs DEF Answers
  <1> QED
    BY <1>5, <1>7, <1>8, <1>9

LEMMA ServesUnlockRec ==
    ASSUME OwnStructure, TypeOK, TablesAgree, NEW cl \in Client, NEW c \in Context, NEW r \in Recno,
           <<c, r>> \in Records, UnlockRec(cl, <<c, r>>)
    PROVE  Answers(cl, c, Single!CanUnlockRec(table(c), cl, r), Single!UnlockRec(table(c), cl, r))
  <1>1. /\ lockedRecords[<<c, r>>] = cl /\ lockedRecords'[<<c, r>>] = NoClient
        /\ \A y \in Records \ {<<c, r>>} : lockedRecords'[y] = lockedRecords[y]
    BY UnlockRecOwn
  <1>2. HasOpen(cl, c) /\ DropOwnFileLock(cl, c) /\ Answer(cl, "success")
    BY DEF UnlockRec
  <1>3. Single!CanUnlockRec(table(c), cl, r)
    BY <1>1, <1>2, HolderOf, TableOpens DEF Single!CanUnlockRec
  <1>4. holders(c)' = Single!Without(table(c), cl, {r})
    <2>1. holders(c)' = [holders(c) EXCEPT ![r] = NoClient]
      BY <1>1, HolderChanges
    <2>2. table(c).holder = holders(c) /\ holders(c)[r] = cl
      BY <1>1, TableMembers, HolderOf
    <2>3. holders(c) = [q \in Recno |-> holders(c)[q]]
      BY DEF holders
    <2> QED
      BY <2>1, <2>2, <2>3 DEF Single!Without
  <1>5. opens(c)' = opens(c)
    BY DEF UnlockRec, opens
  <1>6. table(c)' = Single!UnlockRec(table(c), cl, r)
    BY <1>2, <1>4, <1>5, FileLockAfter, TableAfter, TableMembers
       DEF UnlockRec, Single!UnlockRec, Single!Released
  <1> QED
    BY <1>2, <1>3, <1>6, AnswerIs DEF Answers

LEMMA ServesCheckFileLock ==
    ASSUME TypeOK, TablesAgree, NEW cl \in Client, NEW c \in Context, NEW r \in Recno,
           <<c, r>> \in Records, CheckFileLock(cl, <<c, r>>)
    PROVE  /\ table(c)' = table(c)
           /\ reply' # reply => ~Single!CanUnlockRec(table(c), cl, r)
  <1> USE DEF context, entries
  <1>1. table(c)' = table(c)
    BY TableStays DEF CheckFileLock
  <1>2. ASSUME reply' # reply
        PROVE  ~Single!CanUnlockRec(table(c), cl, r)
    <2>1. \/ ~HasOpen(cl, c)
          \/ FoundRecLock(cl, r) = {} /\ ~OwnsFile(cl, c)
      BY <1>2 DEF CheckFileLock
    <2>2. FoundRecLock(cl, r) = {} => lockedRecords[<<c, r>>] # cl
      BY DEF FoundRecLock, TablesAgree
    <2> QED
      BY <2>1, <2>2, HolderOf, TableOpens DEF Single!CanUnlockRec
  <1> QED
    BY <1>1, <1>2

(* Every command does to its context and answers what LockTable says, the  *)
(* client having locks of the same record number in other contexts or not, *)
(* up to the first command that meets the structure of another record and  *)
(* as long as no client sends CLOSE_ALL.                                   *)
THEOREM ServerServesAsLockTable ==
    ASSUME ~SendsCloseAll
    PROVE  Spec /\ [][OwnStructure]_vars => ServesAsLockTable
  <1> DEFINE Served ==
        \A cl \in Client, c \in Context :
            /\ OpenShared(cl, c) =>
                   Answers(cl, c, Single!CanOpenShared(table(c)), Single!OpenShared(table(c), cl))
            /\ OpenExclusive(cl, c) =>
                   Answers(cl, c, Single!CanOpenExclusive(table(c)), Single!OpenExclusive(table(c), cl))
            /\ Close(cl, c) =>
                   Answers(cl, c, Single!HasOpen(table(c), cl), Single!Close(table(c), cl))
            /\ LockFile(cl, c) =>
                   Answers(cl, c, Single!CanLockFile(table(c), cl), Single!LockFile(table(c), cl))
            /\ UnlockAll(cl, c) =>
                   Answers(cl, c, Single!HasOpen(table(c), cl), Single!UnlockAll(table(c), cl))
            /\ UnlockFile(cl, c) =>
                   Answers(cl, c, Single!OwnsFile(table(c), cl), Single!UnlockAll(table(c), cl))
            /\ ReleaseContext(cl, c) => table(c)' = Single!Close(table(c), cl)
            /\ \A r \in {x[2] : x \in InContext(c)} :
                  /\ LockRec(cl, <<c, r>>) =>
                         Answers(cl, c, Single!CanLockRec(table(c), cl, r), Single!LockRec(table(c), cl, r))
                  /\ UnlockRec(cl, <<c, r>>) =>
                         Answers(cl, c, Single!CanUnlockRec(table(c), cl, r), Single!UnlockRec(table(c), cl, r))
                  /\ CheckFileLock(cl, <<c, r>>) =>
                         /\ table(c)' = table(c)
                         /\ reply' # reply => ~Single!CanUnlockRec(table(c), cl, r)
  <1>1. TypeOK /\ TablesAgree /\ FileInv /\ FileLockExcludesRecords /\ OwnStructure => Served
    <2> SUFFICES ASSUME TypeOK, TablesAgree, FileInv, FileLockExcludesRecords, OwnStructure,
                        NEW cl \in Client, NEW c \in Context
                 PROVE  Served!(cl, c)
      OBVIOUS
    <2>1. ReleaseContext(cl, c) => table(c)' = Single!Close(table(c), cl)
      BY ClosesTable DEF ReleaseContext
    <2>2. ASSUME NEW r \in {x[2] : x \in InContext(c)}
          PROVE  r \in Recno /\ <<c, r>> \in Records
      BY ServerAssumption DEF InContext, ServerAssumption
    <2>3. ASSUME NEW r \in {x[2] : x \in InContext(c)}
          PROVE  /\ LockRec(cl, <<c, r>>) =>
                     Answers(cl, c, Single!CanLockRec(table(c), cl, r), Single!LockRec(table(c), cl, r))
                 /\ UnlockRec(cl, <<c, r>>) =>
                     Answers(cl, c, Single!CanUnlockRec(table(c), cl, r), Single!UnlockRec(table(c), cl, r))
                 /\ CheckFileLock(cl, <<c, r>>) =>
                     /\ table(c)' = table(c)
                     /\ reply' # reply => ~Single!CanUnlockRec(table(c), cl, r)
      BY <2>2, ServesLockRec, ServesUnlockRec, ServesCheckFileLock
    <2> QED
      BY <2>1, <2>3, ServesOpenShared, ServesOpenExclusive, ServesClose, ServesLockFile,
         ServesUnlockAll, ServesUnlockFile
  <1>2. TypeOK /\ TablesAgree /\ FileInv /\ FileLockExcludesRecords /\ [OwnStructure]_vars
          => [Served]_vars
    BY <1>1
  <1> QED
    BY <1>2, TypeCorrect, TablesAgreeKept, FileInvKept, FileLockExcludes, PTL
       DEF Spec, ServesAsLockTable

(* The condition of the last theorems is met by every behaviour of clients *)
(* that use no record number in two contexts, those of AreaLocks, which    *)
(* work on one context, among them.                                        *)
THEOREM OwnNumbersSuffice ==
    ASSUME \A x, y \in Records : x[2] = y[2] => x = y
    PROVE  Spec => [][OwnStructure]_vars
  <1>1. TypeOK => OwnStructure
    <2> SUFFICES ASSUME TypeOK, NEW cl \in Client, NEW x \in Records, NEW y \in Records,
                        y # x, recLocks'[cl][y] # recLocks[cl][y], OnRecord(cl, x)
                 PROVE  FALSE
      BY DEF OwnStructure
    <2>1. CASE LockRec(cl, x)
      <3>1. RegisterRecLock(cl, x)
        BY <2>1, LockRecEffect
      <3>2. recLocks'[cl][y] = IF ~KeepDuplicates /\ y[2] = x[2] THEN 0 ELSE recLocks[cl][y]
        BY <3>1 DEF RegisterRecLock, TypeOK
      <3> QED
        BY <3>2
    <2>2. CASE UnlockRec(cl, x)
      <3>1. PICK s \in FoundRecLock(cl, x[2]) :
              \A a \in Client, z \in Records :
                 recLocks'[a][z] = IF a = cl /\ z = s THEN recLocks[cl][s] - 1 ELSE recLocks[a][z]
        BY <2>2, UnlockRecEffect
      <3> QED
        BY <3>1 DEF FoundRecLock
    <2>3. CASE CheckFileLock(cl, x)
      BY <2>3 DEF CheckFileLock
    <2> QED
      BY <2>1, <2>2, <2>3 DEF OnRecord
  <1> QED
    BY <1>1, TypeCorrect, PTL
=============================================================================
