---------------------------- MODULE MCSingleMus ---------------------------
(***************************************************************************)
(* Two formulas with overlapping MUSes, one of them with a hard clause.    *)
(***************************************************************************)
EXTENDS SingleMus

MCInputs ==
    { [clauses |-> <<{1, 2}, {1, -2}, {-1, 3}, {-1, -3}, {2, 3}, {-2, -3}>>,
       hard_clauses |-> {}],
      [clauses |-> <<{-1, 2}, {1, -2}, {-1, -2}, {3}, {-3, 1}, {2, -3}>>,
       hard_clauses |-> {{1, 2}}] }
===========================================================================
