--------------------------- MODULE ContextRegistry ---------------------------
(***************************************************************************)
(* What findCreateContext promises the commands that open a table: a name  *)
(* is registered once, with an id of its own and for ever, and whoever     *)
(* asks for the name is given this id.                                     *)
(***************************************************************************)
CONSTANTS Worker, Name, Empty, None

VARIABLES
    registry, \* the ids of the names registered
    given     \* the id each worker was given last

vars == <<registry, given>>

Init ==
    /\ registry = [n \in {} |-> None]
    /\ given = [w \in Worker |-> None]

Injective(f) == \A m, n \in DOMAIN f : f[m] = f[n] => m = n

(* The table of a name is registered with its default context.             *)
WithDefault(n) == {n, [n EXCEPT !.value = Empty]}

Register(n) ==
    /\ DOMAIN registry' = DOMAIN registry \cup WithDefault(n)
    /\ \A m \in DOMAIN registry : registry'[m] = registry[m]
    /\ Injective(registry')

Give(w, n) ==
    /\ n \in DOMAIN registry \/ Register(n)
    /\ n \in DOMAIN registry => UNCHANGED registry
    /\ given' = [given EXCEPT ![w] = registry'[n]]

(* A search that found nothing yet.                                        *)
Ask(w, n) ==
    /\ n \notin DOMAIN registry
    /\ given' = [given EXCEPT ![w] = None]
    /\ UNCHANGED registry

Next == \E w \in Worker, n \in Name : Give(w, n) \/ Ask(w, n)

Spec == Init /\ [][Next]_vars
=============================================================================
