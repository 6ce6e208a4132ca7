----------------------------- MODULE MCWorkArea -----------------------------
(***************************************************************************)
(* Tables of two and of three rows with two keys, and three combinations   *)
(* of the modes and the settings of a work area.                           *)
(***************************************************************************)
EXTENDS WorkArea, TLC

R(k) == [key |-> k, del |-> FALSE]
TwoRows == (1 :> R(2)) @@ (2 :> R(1))
ThreeRows == (1 :> R(2)) @@ (2 :> R(1)) @@ (3 :> R(2))

Plain == [rows |-> ThreeRows, deleted |-> FALSE, order |-> 1, filter |-> NoFilter, block |-> FALSE,
          limits |-> FALSE, exact |-> TRUE, immediate |-> FALSE]

MCStarts ==
    {[Plain EXCEPT !.limits = TRUE, !.exact = FALSE, !.deleted = TRUE],
     [Plain EXCEPT !.rows = TwoRows, !.immediate = TRUE, !.block = TRUE, !.filter = Filter],
     [Plain EXCEPT !.rows = TwoRows, !.order = 0, !.block = TRUE, !.deleted = TRUE]}

(* call is only read by RowCursor, of each step.                           *)
WithoutCall == <<area, setDeleted, rows, changes>>

=============================================================================
