------------------------------ MODULE SatOracle ----------------------------
(***************************************************************************)
(* What the enumeration algorithms take a SatSolver to be: a file is read  *)
(* once, then subsets of its constraints are checked, one at a time.  The  *)
(* answer depends on the subset alone, whatever was checked before.        *)
(***************************************************************************)
EXTENDS Cnf

VARIABLES
    query,     \* the check under way, and whether to improve the subset
    answer     \* what the last one said, and the subset it left in place

satVars == <<cnfVars, query, answer>>

NoQuery == [kind |-> "none"]
Check(g, core, grow) == [kind |-> "check", f |-> g, core |-> core, grow |-> grow]

Init ==
    /\ clauses = <<>> /\ hard_clauses = {}
    /\ query = [kind |-> "parse"] /\ answer = [kind |-> "none"]

Load ==
    /\ query.kind = "parse"
    /\ query' = NoQuery
    /\ clauses' \in [Constraint -> SUBSET Lit] /\ hard_clauses' \in SUBSET SUBSET Lit
    /\ UNCHANGED answer

Ask ==
    /\ query.kind = "none"
    /\ \E g \in SUBSET Constraint : \E core, grow \in BOOLEAN : query' = Check(g, core, grow)
    /\ UNCHANGED <<cnfVars, answer>>

Answer ==
    /\ query.kind = "check"
    /\ query' = NoQuery
    /\ IF Sat(query.f)
       THEN \E g \in IF query.grow THEN Extensions(query.f) ELSE {query.f} :
               answer' = [kind |-> "sat", f |-> g]
       ELSE \E g \in IF query.core THEN Cores(query.f) ELSE {query.f} :
               answer' = [kind |-> "unsat", f |-> g]
    /\ UNCHANGED cnfVars

Next == Load \/ Ask \/ Answer

Spec == Init /\ [][Next]_satVars
===========================================================================
