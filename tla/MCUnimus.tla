------------------------------ MODULE MCUnimus -----------------------------
(***************************************************************************)
(* Small inputs for UNIMUS: `dimension` of the clauses of Pool, over two   *)
(* variables, in the order of Pool.  Five of them include a unit clause,   *)
(* which may be called {1}: other choices differ by renaming literals.     *)
(***************************************************************************)
EXTENDS Unimus

Pool == <<{1}, {-1}, {2}, {-2}, {1, 2}, {1, -2}, {-1, 2}, {-1, -2}>>

MCPlainInputs ==
    {[clauses |-> [c \in 1..dimension |->
                      Pool[CHOOSE i \in s : Cardinality({j \in s : j <= i}) = c]],
      hard_clauses |-> {}] :
        s \in {t \in SUBSET (1..Len(Pool)) : Cardinality(t) = dimension /\ 1 \in t}}
===========================================================================
