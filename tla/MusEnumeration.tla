-------------------------- MODULE MusEnumeration --------------------------
(***************************************************************************)
(* What the tool promises, whatever algorithm runs: every MUS of the input *)
(* is reported, each exactly once, nothing else is, and the enumeration    *)
(* is over only when no MUS is left (README: "online enumeration of        *)
(* minimal unsatisfiable subsets").                                        *)
(***************************************************************************)
EXTENDS Cnf, Sequences

VARIABLES reported, complete

enumVars == <<clauses, hard_clauses, reported, complete>>

ReportedMuses == {reported[i] : i \in DOMAIN reported}

EnumInit == Parse /\ reported = <<>> /\ complete = FALSE

Report ==
    /\ ~complete
    /\ \E m \in AllMuses \ ReportedMuses : reported' = Append(reported, m)
    /\ UNCHANGED <<clauses, hard_clauses, complete>>

Complete ==
    /\ ~complete
    /\ AllMuses \subseteq ReportedMuses
    /\ complete' = TRUE
    /\ UNCHANGED <<clauses, hard_clauses, reported>>

EnumNext == Report \/ Complete

EnumSpec == EnumInit /\ [][EnumNext]_enumVars
===========================================================================
