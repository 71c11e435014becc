----------------------------- MODULE Extraction ----------------------------
(***************************************************************************)
(* What every single MUS extraction does, whatever its algorithm: the      *)
(* seed shrinks, it stays unsatisfiable, and more and more of it is known  *)
(* to be critical.  The extraction may stop once all of it is.             *)
(***************************************************************************)
EXTENDS Cnf

VARIABLES
    rest,      \* what is left of the seed
    needed     \* the constraints known to be critical for it

extractionVars == <<cnfVars, rest, needed>>

Critical(g) == {c \in g : Sat(g \ {c})}

Init ==
    /\ Parse
    /\ rest \in {g \in SUBSET Constraint : ~Sat(g)}
    /\ needed \in SUBSET Critical(rest)

(* Nothing that is known to be critical leaves, and nothing becomes        *)
(* critical that could be removed.                                         *)
Next ==
    /\ rest' \in {g \in SUBSET rest : ~Sat(g)}
    /\ needed' \in {n \in SUBSET Critical(rest') : needed \subseteq n}
    /\ UNCHANGED cnfVars

Spec == Init /\ [][Next]_extractionVars
===========================================================================
