----------------------------- MODULE MCRotation -----------------------------
(***************************************************************************)
(* Small inputs for a rotation: clauses over three variables in the order  *)
(* of Pool, and at most one hard clause.                                   *)
(***************************************************************************)
EXTENDS Rotation

Pool == <<{1}, {-1, 2}, {-2, 3}, {-3}, {-2}, {-1, 3}, {1, 3}, {-1, -3}>>

Picks(n) == {t \in SUBSET (1..Len(Pool)) : Cardinality(t) = n}

MCInputs ==
    {[clauses |-> [c \in 1..dimension |->
                      Pool[CHOOSE i \in s : Cardinality({j \in s : j <= i}) = c]],
      hard_clauses |-> {Pool[i] : i \in h}] :
        s \in Picks(dimension), h \in Picks(0) \cup Picks(1)}
===========================================================================
