----------------------------- MODULE LockTable -----------------------------
(***************************************************************************)
(* One context of the lock server as its clients see it: what each command *)
(* answers (the predicates) and what it leaves in the context (the other   *)
(* operators).  A command that is refused leaves everything as it is.  No  *)
(* command meets a structure of another context, as when clients lock      *)
(* records of one context only; LockServer is shown to behave so then      *)
(* (ServesAsLockTable and OwnSpec of LockServer).                          *)
(***************************************************************************)
EXTENDS Integers

CONSTANTS
    Client,        \* connections to the server
    Recno,         \* record numbers
    NoClient,      \* the NULL of clientLocking
    KeepDuplicates \* cfl_hash keeps the older entries of a key on insertion

(* opens: entries of the context in client->openContexts of each client.   *)
Table == [shared: Nat, exclusive: BOOLEAN, locked: BOOLEAN, owner: Client \cup {NoClient},
          holder: [Recno -> Client \cup {NoClient}], opens: [Client -> Nat]]

EmptyTable ==
    [shared |-> 0, exclusive |-> FALSE, locked |-> FALSE, owner |-> NoClient,
     holder |-> [r \in Recno |-> NoClient], opens |-> [cl \in Client |-> 0]]

HasOpen(t, cl) == t.opens[cl] > 0
OwnsFile(t, cl) == t.locked /\ t.owner = cl
Registered(t, cl) == [t.opens EXCEPT ![cl] = IF KeepDuplicates THEN @ + 1 ELSE 1]

IgnoringExclusive(t) == TRUE
CanOpenShared(t) == ~t.exclusive
OpenShared(t, cl) ==
    [shared |-> t.shared + 1, exclusive |-> t.exclusive, locked |-> t.locked, owner |-> t.owner,
     holder |-> t.holder, opens |-> Registered(t, cl)]

CanOpenExclusive(t) == t.shared = 0 /\ ~t.exclusive
OpenExclusive(t, cl) ==
    [shared |-> t.shared, exclusive |-> TRUE, locked |-> t.locked, owner |-> cl,
     holder |-> t.holder, opens |-> Registered(t, cl)]

HeldBy(t, cl) == {r \in Recno : t.holder[r] = cl}
Without(t, cl, R) == [r \in Recno |-> IF r \in R /\ t.holder[r] = cl THEN NoClient ELSE t.holder[r]]

(* The record locks go, a file lock stays.                                 *)
Close(t, cl) ==
    [shared |-> IF ~t.exclusive /\ t.shared > 0 THEN t.shared - 1 ELSE t.shared,
     exclusive |-> t.exclusive /\ t.owner # cl,
     locked |-> t.locked,
     owner |-> IF t.exclusive /\ t.owner = cl THEN NoClient ELSE t.owner,
     holder |-> Without(t, cl, Recno),
     opens |-> [t.opens EXCEPT ![cl] = @ - 1]]

IgnoringRecords(t, cl) == HasOpen(t, cl) /\ (t.locked => t.owner = cl)
CanLockFile(t, cl) ==
    /\ HasOpen(t, cl)
    /\ t.locked => t.owner = cl
    /\ ~t.locked => \A r \in Recno : t.holder[r] = NoClient
LockFile(t, cl) ==
    [shared |-> t.shared, exclusive |-> t.exclusive, locked |-> TRUE, owner |-> cl,
     holder |-> t.holder, opens |-> t.opens]

Shut(t) == t.locked \/ t.exclusive
CanLockRec(t, cl, r) ==
    /\ HasOpen(t, cl)
    /\ IF Shut(t) THEN t.owner = cl ELSE t.holder[r] \in {cl, NoClient}
LockRec(t, cl, r) ==
    [shared |-> t.shared, exclusive |-> t.exclusive, locked |-> t.locked, owner |-> t.owner,
     holder |-> IF Shut(t) THEN t.holder ELSE [t.holder EXCEPT ![r] = cl], opens |-> t.opens]

(* The client's record locks of R go, and its file lock with them.         *)
Released(t, cl, R) ==
    [shared |-> t.shared, exclusive |-> t.exclusive,
     locked |-> t.locked /\ t.owner # cl,
     owner |-> IF OwnsFile(t, cl) THEN NoClient ELSE t.owner,
     holder |-> Without(t, cl, R), opens |-> t.opens]

CanUnlockRec(t, cl, r) == HasOpen(t, cl) /\ (t.holder[r] = cl \/ OwnsFile(t, cl))
UnlockRec(t, cl, r) == Released(t, cl, {r})
UnlockAll(t, cl) == Released(t, cl, Recno)
=============================================================================
