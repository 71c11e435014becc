------------------------------ MODULE MCShrink -----------------------------
(***************************************************************************)
(* Small inputs for shrink: the clauses over variables 1 and 2 in the      *)
(* order of Pool, any `dimension` of them as the soft constraints.         *)
(***************************************************************************)
EXTENDS Shrink, Sequences

Pool == <<{1}, {-1}, {2}, {-2}, {1, 2}, {1, -2}, {-1, 2}, {-1, -2}>>

Chosen(t) ==
    [c \in 1..dimension |-> Pool[CHOOSE k \in t : Cardinality({j \in t : j <= k}) = c]]

Picks(n) == {t \in SUBSET (1..Len(Pool)) : Cardinality(t) = n}

(* The last line has the literals of the first one in another order.       *)
MCRepeatedInputs ==
    {[clauses |-> [Chosen(t) EXCEPT ![dimension] = Chosen(t)[1]], hard_clauses |-> {}] :
        t \in Picks(dimension)}
===========================================================================
