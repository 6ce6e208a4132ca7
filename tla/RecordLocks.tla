----------------------------- MODULE RecordLocks -----------------------------
(***************************************************************************)
(* What the lock server promises about record locks: a lock is given to    *)
(* one client, for a record nobody has and only while the context is not   *)
(* shut by a file lock or an exclusive open; a context is shut only when   *)
(* none of its records is locked; and a step takes back the locks of one   *)
(* client only.                                                            *)
(***************************************************************************)
CONSTANTS Client, Context, Records, NoClient

VARIABLES
    owner,  \* the client that has the lock of each record, or NoClient
    shut    \* the contexts in which no record can be locked

Init ==
    /\ owner = [x \in Records |-> NoClient]
    /\ shut = {}

Grant(cl, x) ==
    /\ owner[x] = NoClient
    /\ x[1] \notin shut
    /\ owner' = [owner EXCEPT ![x] = cl]
    /\ UNCHANGED shut

Release(cl, R) ==
    /\ \A x \in R : owner[x] = cl
    /\ owner' = [x \in Records |-> IF x \in R THEN NoClient ELSE owner[x]]
    /\ UNCHANGED shut

Shut(c) ==
    /\ \A x \in Records : x[1] = c => owner[x] = NoClient
    /\ shut' = shut \cup {c}
    /\ UNCHANGED owner

Reopen(c) ==
    /\ shut' = shut \ {c}
    /\ UNCHANGED owner

Next ==
    \/ \E cl \in Client, x \in Records : Grant(cl, x)
    \/ \E cl \in Client, R \in SUBSET Records : Release(cl, R)
    \/ \E c \in Context : Shut(c) \/ Reopen(c)

Spec == Init /\ [][Next]_<<owner, shut>>
=============================================================================
