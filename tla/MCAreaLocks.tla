---------------------------- MODULE MCAreaLocks ----------------------------
(* Instances of AreaLocks for TLC. *)
EXTENDS AreaLocks, TLC

CONSTANTS a1, a2, c1, c2, p1, p2

(* Two programs, each with one work area on the table. *)
OneEachConnection == (a1 :> c1) @@ (a2 :> c2)
OneEachProgram == (c1 :> p1) @@ (c2 :> p2)

(* One program with two work areas on its only connection. *)
TwoAreasConnection == (a1 :> c1) @@ (a2 :> c1)
TwoAreasProgram == c1 :> p1

(* The two programs of the first instance can be exchanged. *)
Swap == (a1 :> a2) @@ (a2 :> a1) @@ (c1 :> c2) @@ (c2 :> c1) @@ (p1 :> p2) @@ (p2 :> p1)
ProgramSymmetry == {Swap}
AreaSymmetry == Permutations({a1, a2})
=============================================================================
