---------------------------- MODULE MCLockServer ----------------------------
(* Instances of LockServer for TLC. *)
EXTENDS LockServer, TLC

CONSTANTS c1, c2, r1, r2

(* The two contexts have a record of the same number, and one has another. *)
SharedNumber == {<<c1, r1>>, <<c2, r1>>, <<c2, r2>>}

(* The two contexts have a record of the same number, and are alike. *)
SameNumber == {<<c1, r1>>, <<c2, r1>>}

Symmetry == Permutations(Client) \cup Permutations(Context)
=============================================================================
