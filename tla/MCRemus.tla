------------------------------ MODULE MCRemus -----------------------------
(***************************************************************************)
(* Small inputs for ReMUS: `dimension` of the clauses of Pool, over two    *)
(* variables, in the order of Pool.                                        *)
(***************************************************************************)
EXTENDS Remus

Pool == <<{1}, {-1}, {2}, {-2}, {1, 2}, {1, -2}, {-1, 2}, {-1, -2}>>

MCPlainInputs ==
    {[clauses |-> [c \in 1..dimension |->
                      Pool[CHOOSE i \in s : Cardinality({j \in s : j <= i}) = c]],
      hard_clauses |-> {}] :
        s \in {t \in SUBSET (1..Len(Pool)) : Cardinality(t) = dimension}}
===========================================================================
