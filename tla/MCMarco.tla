------------------------------ MODULE MCMarco -----------------------------
(***************************************************************************)
(* Small inputs for MARCO: the clauses over variables 1 and 2 in the order *)
(* of Pool, any `dimension` of them as the soft constraints of a file.     *)
(***************************************************************************)
EXTENDS Marco

Pool == <<{1}, {-1}, {2}, {-2}, {1, 2}, {1, -2}, {-1, 2}, {-1, -2}>>

Chosen(s) ==
    [c \in 1..dimension |-> Pool[CHOOSE i \in s : Cardinality({j \in s : j <= i}) = c]]

Picks(n) == {t \in SUBSET (1..Len(Pool)) : Cardinality(t) = n}

(* cnf files: no hard clauses. *)
MCPlainInputs == {[clauses |-> Chosen(s), hard_clauses |-> {}] : s \in Picks(dimension)}

(* gcnf files: one or two of the clauses in group 0. *)
MCHardInputs ==
    {[clauses |-> Chosen(s), hard_clauses |-> {Pool[i] : i \in h}] :
        s \in Picks(dimension), h \in Picks(1) \cup Picks(2)}

(* A file that lists a clause twice, in two lines that differ as text.    *)
MCRepeatedInputs ==
    {[clauses |-> [Chosen(s) EXCEPT ![dimension] = Chosen(s)[1]], hard_clauses |-> {}] :
        s \in Picks(dimension)}

MCInputs == MCPlainInputs \cup MCRepeatedInputs
===========================================================================
