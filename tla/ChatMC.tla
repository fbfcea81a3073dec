-------------------------------- MODULE ChatMC --------------------------------
(***************************************************************************)
(* Two turns for TLC.                                                      *)
(***************************************************************************)
EXTENDS ChatSync, TLC

CONSTANTS t1, t2

Symmetry == Permutations(Turns)

(* A bound: two turns in one generation of the runtime, or one turn across *)
(* two; and at most one of the turns is answered with text.                *)
OneMore ==
    /\ Cardinality({t \in Turns : sends[t] # "new"}) + spent.gens <= 3
    /\ \E t \in Turns : \A u \in Turns \ {t} : text[Answer(u)] = 0
===============================================================================
