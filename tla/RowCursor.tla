----------------------------- MODULE RowCursor ------------------------------
(***************************************************************************)
(* What a work area promises to a program that moves over its rows, in     *)
(* terms of the rows and of the place where the program stands.            *)
(*                                                                         *)
(* GO TOP, GO BOTTOM and SEEK end where the rows say at that moment.  SKIP *)
(* may work on rows as they were when the database was last asked, so it   *)
(* promises what such a cursor can: steady has the rows that nobody        *)
(* changed since, and a movement never passes over a steady row that is    *)
(* shown, never comes back, and never stops on a steady row that is not    *)
(* shown.  From Nowhere (after GOTO 0, before an appended row is saved, or *)
(* when the row was read again with another key) it promises nothing.      *)
(***************************************************************************)
EXTENDS Integers

CONSTANTS
    Keys,
    FilterKeys,  \* the keys the filter shows
    End,         \* after the last row
    Nowhere      \* no place in the order

VARIABLES
    rows,        \* the rows of the table, by number
    ordered,     \* by key, and by number within a key; else by number
    hidesDeleted, filtered,
    at,          \* number and key of the row where the program stands
    edited,      \* the program changed the key since it came here
    steady,
    bof, found,
    call         \* what the program asked for, or who acted

settings == <<ordered, hidesDeleted, filtered>>
vars == <<rows, settings, at, edited, steady, bof, found, call>>

-----------------------------------------------------------------------------
PlaceOf(t, p) == [pk |-> p, key |-> t[p].key]
IsPlace(x) == x \notin {End, Nowhere}

(* In the order after the step.                                            *)
Before(x, y) ==
    \/ ordered' /\ x.key < y.key
    \/ (ordered' => x.key = y.key) /\ x.pk < y.pk

Shown(t, p) ==
    /\ hidesDeleted => ~t[p].del
    /\ filtered => t[p].key \in FilterKeys

(* The places of the rows that are shown, after the step; and of those     *)
(* among them that the cursor must know.                                   *)
ShownPlaces == {PlaceOf(rows', p) : p \in {q \in DOMAIN rows' : Shown(rows', q)}}
Untouched == {p \in steady : rows'[p] = rows[p]}
KnownPlaces == LET known == Untouched IN {x \in ShownPlaces : x.pk \in known}

Firsts(S) == {x \in S : \A y \in S : ~Before(y, x)}
Lasts(S) == {x \in S : \A y \in S : ~Before(x, y)}

(* A steady row is where it is known to be.                                *)
StandsShown(x) == x.pk \in Untouched => x \in KnownPlaces

-----------------------------------------------------------------------------
(* A call may save the row where the program stands, or an appended one.   *)
Changed == {p \in DOMAIN rows' : p \notin DOMAIN rows \/ rows'[p] # rows[p]}
Saved(C) ==
    /\ \A p, q \in C : p = q
    /\ IsPlace(at) => C \subseteq {at.pk}
Saves == DOMAIN rows \subseteq DOMAIN rows' /\ Saved(Changed)

(* The database may have been asked, or not.                               *)
Refreshes == steady' \in {Untouched, DOMAIN rows'}

Arrives ==
    /\ Saves
    /\ Refreshes
    /\ edited' => edited /\ bof'
    /\ UNCHANGED <<hidesDeleted, filtered>>
Keeps == Arrives /\ UNCHANGED ordered

(* Opening the index also chooses its order and goes to the top.           *)
Top ==
    /\ call' = <<"GO TOP">>
    /\ Arrives
    /\ ordered => ordered'
    /\ at' \in IF ShownPlaces = {} THEN {End} ELSE Firsts(ShownPlaces)
    /\ ~found'

Bottom ==
    /\ call' = <<"GO BOTTOM">>
    /\ Keeps
    /\ at' \in IF ShownPlaces = {} THEN {End, Nowhere} ELSE Lasts(ShownPlaces)
    /\ ~found'

(* To the first or the last row of a key, or with soft to the first row    *)
(* that is not before it.                                                  *)
Seek(k, soft, last) ==
    LET S == {x \in ShownPlaces : x.key = k \/ (soft /\ x.key > k)}
    IN  /\ call' = <<"SEEK", k, soft, last>>
        /\ ordered
        /\ Keeps
        /\ found' = (S # {})
        /\ at' \in IF S = {} THEN {End, Nowhere} ELSE IF last THEN Lasts(S) ELSE Firsts(S)

GoTo(p) ==
    /\ call' = <<"GOTO", p>>
    /\ Keeps
    /\ at' = PlaceOf(rows', p)

GoToNone == call' = <<"GOTO", 0>> /\ Keeps /\ at' \in {End, Nowhere}

Forward ==
    /\ call' = <<"SKIP", "ASC">>
    /\ Keeps
    /\ ~bof'
    /\ CASE at = Nowhere -> TRUE
         [] at = End -> at' = End
         [] IsPlace(at) ->
              LET after == {x \in KnownPlaces : Before(at, x)}
              IN  \/ /\ at' = End
                     /\ after = {}
                  \/ /\ IsPlace(at')
                     /\ Before(at, at')
                     /\ \A x \in after : ~Before(x, at')
                     /\ StandsShown(at')

(* Before the first row it stays, or ends on the first row that is shown,  *)
(* and once there it does not look for rows before it.                     *)
Backward ==
    /\ call' = <<"SKIP", "DESC">>
    /\ Keeps
    /\ CASE at = Nowhere -> TRUE
         [] at = End ->
              at' \in IF ShownPlaces = {} THEN {End, Nowhere} ELSE Lasts(ShownPlaces)
         [] IsPlace(at) ->
              LET before == {x \in KnownPlaces : Before(x, at)}
              IN  \/ /\ bof'
                     /\ bof \/ before = {}
                     /\ \/ at' = at
                        \/ at' \in Firsts(ShownPlaces)
                        \/ at' = Nowhere /\ ShownPlaces = {}
                  \/ /\ ~bof'
                     /\ IsPlace(at')
                     /\ Before(at', at)
                     /\ \A x \in before : ~Before(at', x)
                     /\ StandsShown(at')

(* A row of the program, saved at once or later.                           *)
Append ==
    /\ call' = <<"APPEND">>
    /\ UNCHANGED settings
    /\ ~edited'
    /\ steady' = Untouched
    /\ \/ Saves /\ at' = Nowhere
       \/ \E p \in DOMAIN rows' \ DOMAIN rows :
             /\ DOMAIN rows' = DOMAIN rows \cup {p}
             /\ Saved(Changed \ {p})
             /\ at' = PlaceOf(rows', p)

-----------------------------------------------------------------------------
(* The program changes its record and saves it, and reads it again.        *)
Edit ==
    /\ call' = <<"CHANGE">>
    /\ UNCHANGED <<rows, settings, steady, bof, found>>
    /\ edited => edited'
    /\ IF IsPlace(at) THEN at' \in [pk: {at.pk}, key: Keys] ELSE at' = at

Save ==
    /\ call' = <<"CHANGE">>
    /\ Saves
    /\ steady' = Untouched
    /\ UNCHANGED <<settings, bof, found, edited>>
    /\ at' = at \/ (at = Nowhere /\ IsPlace(at') /\ Changed = {at'.pk})

Reread ==
    /\ call' = <<"CHANGE">>
    /\ UNCHANGED <<rows, settings, steady, bof, found>>
    /\ ~edited'
    /\ IF IsPlace(at) /\ ~edited /\ rows[at.pk].key = at.key THEN at' = at ELSE at' = Nowhere

(* The order changes; with an edited key the place may be lost.            *)
Choose ==
    /\ call' = <<"SET">>
    /\ Saves
    /\ steady' = Untouched
    /\ UNCHANGED <<edited, bof, found>>
    /\ at' = at \/ (edited /\ at' = Nowhere) \/ (at = Nowhere /\ IsPlace(at') /\ Changed = {at'.pk})

(* Another session changes one row.                                        *)
Others ==
    /\ call' = <<"OTHERS">>
    /\ \E p \in DOMAIN rows' :
          /\ DOMAIN rows' = DOMAIN rows \cup {p}
          /\ \A q \in DOMAIN rows \ {p} : rows'[q] = rows[q]
    /\ steady' = Untouched
    /\ UNCHANGED <<settings, at, edited, bof, found>>

Next ==
    \/ Top \/ Bottom \/ Forward \/ Backward
    \/ \E k \in Keys, soft \in BOOLEAN, last \in BOOLEAN : Seek(k, soft, last)
    \/ \E p \in DOMAIN rows : GoTo(p)
    \/ GoToNone
    \/ Append \/ Edit \/ Save \/ Reread \/ Choose \/ Others

Spec == [][Next]_vars

=============================================================================
