------------------------------- MODULE Shrink ------------------------------
(***************************************************************************)
(* One call of BooleanSolver::shrink, the single MUS extraction: the       *)
(* deletion loop of SatSolver::shrink (--shrink custom), the one with      *)
(* propagation of criticals (--shrink extension), and the detour through   *)
(* files and the external tool muser2 (--shrink muser, also taken whenever *)
(* mcsmus throws an exception under --shrink default).                     *)
(***************************************************************************)
EXTENDS Cnf

CONSTANT ShrinkAlgs   \* values of --shrink that are considered

ASSUME ShrinkAlgsAssumption == ShrinkAlgs \subseteq {"custom", "extension", "muser"}

VARIABLES
    shrink_alg,      \* --shrink
    f, given,        \* the parameters: the seed, and its known criticals
    phase,           \* "loop", "file" (exported, not yet imported) or "returned"
    s,               \* the constraints left; the result in the end
    i,               \* the constraint of the loop's next turn
    crits            \* local copy of given

shrinkVars == <<cnfVars, shrink_alg, f, given, phase, s, i, crits>>

(* Master calls with an unsatisfiable seed and constraints critical for it. *)
Init ==
    /\ Parse
    /\ shrink_alg \in ShrinkAlgs
    /\ f \in {g \in SUBSET Constraint : ~Sat(g)}
    /\ given \in SUBSET {c \in f : Sat(f \ {c})}
    /\ phase = "loop" /\ s = f /\ i = 1 /\ crits = given

Looping == phase = "loop" /\ shrink_alg # "muser" /\ i \in Constraint

Skip ==
    /\ Looping
    /\ i \notin s \/ i \in crits
    /\ i' = i + 1
    /\ UNCHANGED <<cnfVars, shrink_alg, f, given, phase, s, crits>>

(* The solver replaces what is left by an unsatisfiable core of it. *)
Remove ==
    /\ Looping
    /\ i \in s \ crits
    /\ s' \in Cores(s \ {i})
    /\ i' = i + 1
    /\ UNCHANGED <<cnfVars, shrink_alg, f, given, phase, crits>>

(* Mutant: one falsified constraint among several is enough.               *)
CriticalPropagationAnyHit(g, cr, c) ==
    cr \cup {h \in Constraint : \A X \in SUBSET Constraint :
                 /\ c \in X
                 /\ \A e \in X : \A l \in clauses[e] : Hits(l, g) \ cr \subseteq X
                 => h \in X}

(* critical_propagation: the rule of CriticalExtension from c on, stopping *)
(* at constraints that are in crits already.                               *)
CriticalPropagation(g, cr, c) ==
    cr \cup {h \in Constraint : \A X \in SUBSET Constraint :
                 /\ c \in X
                 /\ \A e \in X : \A l \in clauses[e] : \A d \in g \ cr :
                        Hits(l, g) = {d} => d \in X
                 => h \in X}

(* Mutant: the turn of a critical constraint is taken again.               *)
KeepAgain ==
    /\ Looping
    /\ i \in s \ crits
    /\ Sat(s \ {i})
    /\ UNCHANGED <<cnfVars, i, crits, shrink_alg, f, given, phase, s>>

(* Criticals are propagated inside f, though s is smaller by now. *)
Keep ==
    /\ Looping
    /\ i \in s \ crits
    /\ Sat(s \ {i})
    /\ crits' = IF shrink_alg = "extension"
                   THEN CriticalPropagation(f, crits \cup {i}, i) ELSE crits
    /\ i' = i + 1
    /\ UNCHANGED <<cnfVars, shrink_alg, f, given, phase, s>>

LoopEnds ==
    /\ phase = "loop" /\ shrink_alg # "muser" /\ i = dimension + 1
    /\ phase' = "returned"
    /\ UNCHANGED <<cnfVars, shrink_alg, f, given, s, i, crits>>

---------------------------------------------------------------------------
(* The file that muser2 writes: the clauses that are always on and those   *)
(* of a minimal set of groups.                                             *)
MuserResults == ShrinkResults(f, given)

(* export_formula_crits, and the run of muser2 on the file. *)
RunMuser ==
    /\ phase = "loop" /\ shrink_alg = "muser"
    /\ s' \in MuserResults
    /\ phase' = "file"
    /\ UNCHANGED <<cnfVars, shrink_alg, f, given, i, crits>>

(* clauses_map: the constraint found for a clause is the last one with     *)
(* these literals.                                                         *)
LastWith(clause) == {c \in Constraint : clauses[c] = clause
                                        /\ \A d \in Constraint : clauses[d] = clause => d <= c}

(* Mutant: the clauses that are always on are taken to be implicit.        *)
ImportGroupsOnly ==
    /\ phase = "file"
    /\ s' = UNION {LastWith(clauses[c]) : c \in s \ given}
    /\ phase' = "returned"
    /\ UNCHANGED <<cnfVars, shrink_alg, f, given, i, crits>>

(* import_formula_crits: clauses of the file are looked up by their        *)
(* literals, the hard ones as well.                                        *)
Import ==
    /\ phase = "file"
    /\ s' = UNION {LastWith(clause) : clause \in {clauses[c] : c \in s} \cup hard_clauses}
    /\ phase' = "returned"
    /\ UNCHANGED <<cnfVars, shrink_alg, f, given, i, crits>>

Returned == phase = "returned" /\ UNCHANGED shrinkVars

Next ==
    \/ Skip \/ Remove \/ Keep \/ LoopEnds \/ RunMuser \/ Import
    \/ Returned

Spec == Init /\ [][Next]_shrinkVars

(* A loop of one thread; the solvers return, and so does muser2. *)
FairSpec == Spec /\ WF_shrinkVars(Next)

---------------------------------------------------------------------------
(* What the constraints visited and kept promise: they are needed, so that *)
(* the loop, which never comes back to a constraint, ends in a MUS.        *)
KeptAreNeeded ==
    phase = "loop" => /\ s \subseteq f /\ ~Sat(s)
                      /\ \A c \in s : c < i \/ c \in crits => Sat(s \ {c})

(* shrink is a single MUS extraction (--shrink): whatever the algorithm,   *)
(* Master gets back a subset of the seed that is a MUS.                    *)
ReturnsMus == phase = "returned" => s \in ShrinkResults(f, given) /\ IsMus(s)

(* "The MUS is not a subset of the seed." is what Master reports when the  *)
(* result of shrink has constraints that the seed has not (DBG).           *)
StaysInSeed == phase = "returned" => s \subseteq f

(* The call returns. *)
Termination == <>(phase = "returned")
===========================================================================
