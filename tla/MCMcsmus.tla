------------------------------ MODULE MCMcsmus -----------------------------
(***************************************************************************)
(* An input for shrink_mcsmus.                                             *)
(***************************************************************************)
EXTENDS Mcsmus

(* The first five are a MUS that unit propagation does not refute; of the  *)
(* others two are satisfied by what it fixes.                              *)
MCUnitInputs ==
    { [clauses |-> <<{3}, {-3, 1, 2}, {-3, 1, -2}, {-3, -1, 2}, {-3, -1, -2},
                     {3, 1}, {3, 2}, {4}>>,
       hard_clauses |-> {}] }
===========================================================================
