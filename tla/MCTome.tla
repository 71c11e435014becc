------------------------------ MODULE MCTome ------------------------------
(***************************************************************************)
(* Small inputs for TOME: `dimension` of the clauses of Pool, over two     *)
(* variables, in the order of Pool.                                        *)
(***************************************************************************)
EXTENDS Tome

Pool == <<{1}, {-1}, {2}, {-2}, {1, 2}, {1, -2}, {-1, 2}, {-1, -2}>>

Chosen(s) ==
    [c \in 1..dimension |-> Pool[CHOOSE i \in s : Cardinality({j \in s : j <= i}) = c]]

Picks(n) == {t \in SUBSET (1..Len(Pool)) : Cardinality(t) = n}

(* cnf files, and gcnf files with up to two clauses in group 0, possibly   *)
(* contradictory ones.                                                     *)
MCInputs ==
    {[clauses |-> Chosen(s), hard_clauses |-> {Pool[i] : i \in h}] :
        s \in Picks(dimension), h \in {{}, {1}, {1, 2}, {5, 8}}}
===========================================================================
