------------------------------- MODULE Cnf --------------------------------
(***************************************************************************)
(* The input of the tool and what a satisfiability check says about it.    *)
(*                                                                         *)
(* BooleanSolver::parse reads a (g)cnf file into `clauses`, the soft       *)
(* constraints whose minimal unsatisfiable subsets are enumerated, and     *)
(* `hard_clauses`, which every subset is checked together with.  The code  *)
(* numbers the constraints from 0; here constraint i of the code is i + 1, *)
(* so that c and -c are the literals of its variable in Explorer's map.    *)
(* A clause is the set of its literals, a Formula (vector<bool>) is the    *)
(* set of the constraints whose bit is on.                                 *)
(***************************************************************************)
EXTENDS Integers, FiniteSets

CONSTANTS
    vars,        \* number of variables of the formula
    dimension,   \* number of soft constraints
    Inputs       \* the files the tool is run on

Var == 1..vars
Lit == Var \cup {-v : v \in Var}
Constraint == 1..dimension

Input == [clauses : [Constraint -> SUBSET Lit], hard_clauses : SUBSET SUBSET Lit]

ASSUME SizesAssumption == vars \in Nat /\ dimension \in Nat
ASSUME InputsAssumption == Inputs \subseteq Input

VARIABLES clauses, hard_clauses

cnfVars == <<clauses, hard_clauses>>

CnfTypeOK ==
    /\ clauses \in [Constraint -> SUBSET Lit]
    /\ hard_clauses \in SUBSET SUBSET Lit

Parse == \E in \in Inputs : clauses = in.clauses /\ hard_clauses = in.hard_clauses

---------------------------------------------------------------------------
(* An assignment is the set of the variables it makes true. *)

LitTrue(a, l) == IF l > 0 THEN l \in a ELSE -l \notin a

Satisfies(a, clause) == \E l \in clause : LitTrue(a, l)

Models(f) ==
    {a \in SUBSET Var : /\ \A c \in f : Satisfies(a, clauses[c])
                        /\ \A h \in hard_clauses : Satisfies(a, h)}

(* SatSolver::solve without improvement. *)
Sat(f) == Models(f) # {}

(* solve(f, _, grow): on "satisfiable" f is extended by every constraint   *)
(* that the model found happens to satisfy.                                *)
Extensions(f) ==
    {f \cup {c \in Constraint : Satisfies(a, clauses[c])} : a \in Models(f)}

(* solve(f, core, _): on "unsatisfiable" f is replaced by the control      *)
(* variables of the final conflict, some unsatisfiable subset of f.        *)
Cores(f) == {g \in SUBSET f : ~Sat(g)}

---------------------------------------------------------------------------
(* What the tool enumerates. *)

IsMus(f) == f \subseteq Constraint /\ ~Sat(f) /\ \A c \in f : Sat(f \ {c})

IsMss(f) ==
    f \subseteq Constraint /\ Sat(f) /\ \A c \in Constraint \ f : ~Sat(f \cup {c})

AllMuses == {f \in SUBSET Constraint : IsMus(f)}

AllMcses == {Constraint \ f : f \in {g \in SUBSET Constraint : IsMss(g)}}

---------------------------------------------------------------------------
(* Constraints of f that a flip of literal l would falsify. *)
Hits(l, f) == {c \in f : -l \in clauses[c]}

(* Mutant: one falsified constraint among several is enough.               *)
ExtensionClosedAnyHit(X, f) ==
    \A c \in X : \A l \in clauses[c] : \A h \in f : h \in Hits(l, f) => h \in X

(* BooleanSolver::critical_extension: if c is critical for f and flipping  *)
(* its literal l can only break the one constraint h of f, then h is taken *)
(* to be critical too.  The queue of the code computes the least set that  *)
(* contains crits and is closed under this rule; hard clauses play no part.*)
ExtensionClosed(X, f) ==
    \A c \in X : \A l \in clauses[c] : \A h \in f : Hits(l, f) = {h} => h \in X

CriticalExtension(crits, f) ==
    LET closed == {X \in SUBSET Constraint : ExtensionClosed(X, f) /\ crits \subseteq X}
    IN  {h \in Constraint : \A X \in closed : h \in X}

(* Mutant: one neighbour in the subset among several is enough.            *)
RotationClosedAnyHit(X, f) ==
    \A c \in X \cap f : \A l \in clauses[c] : Hits(l, f) \ {c} \subseteq X

(* BooleanSolver::criticals_rotation: the same over the edges of the flip  *)
(* graph, which lead from c to other constraints only, and starting from   *)
(* the criticals inside f.                                                 *)
RotationClosed(X, f) ==
    \A c \in X \cap f : \A l \in clauses[c] : \A h \in f :
        Hits(l, f) \ {c} = {h} => h \in X

CriticalsRotation(crits, f) ==
    LET closed == {X \in SUBSET Constraint : RotationClosed(X, f) /\ crits \subseteq X}
    IN  {h \in Constraint : \A X \in closed : h \in X}

(* Mutant: the result is translated back to constraints outside the seed.  *)
ShrinkResultsAnywhere(f, cr) ==
    {m \in SUBSET Constraint : cr \subseteq m /\ ~Sat(m) /\ \A c \in m \ cr : Sat(m \ {c})}

(* What satSolver->shrink(f, crits) promises: crits is always on, and the  *)
(* other constraints of f are reduced to a set that is minimal beside it.  *)
ShrinkResults(f, cr) ==
    {m \in SUBSET (f \cup cr) : /\ cr \subseteq m
                                /\ ~Sat(m)
                                /\ \A c \in m \ cr : Sat(m \ {c})}

(* Mutant: the MUSes known in the cover are not looked at.                 *)
RotationSeedsUnguarded(m, c, cover, known) ==
    {s \in SUBSET (cover \ {c}) : m \ {c} \subseteq s /\ ~Sat(s)}

(* What a rotation of the MUS m may return for its constraint c: m without *)
(* c, extended inside the cover to an unsatisfiable set that contains none *)
(* of the MUSes known in the cover.                                        *)
RotationSeeds(m, c, cover, known) ==
    {s \in SUBSET (cover \ {c}) :
        m \ {c} \subseteq s /\ ~Sat(s) /\ \A n \in known : ~(n \subseteq s)}
===========================================================================
