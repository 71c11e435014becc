----------------------------- MODULE Explorer -----------------------------
(***************************************************************************)
(* Explorer: the map of the power set of the constraints.  A subset is     *)
(* explored when block_down (it, and so every subset of it, is             *)
(* satisfiable) or block_up (every superset is unsatisfiable) has ruled it *)
(* out; the map is kept as clauses over one variable per constraint, in    *)
(* three incremental SAT solvers that get different parts of it.           *)
(***************************************************************************)
EXTENDS Cnf

VARIABLES
    mcses,                 \* complements of the sets blocked down
    critical,              \* constraints c with {c} in mcses
    blocked_muses,         \* Explorer::muses, the sets blocked up
    mus_intersection,      \* constraints in every set blocked up
    testedForCriticality,  \* singleton correction sets already tried
    solver,                \* clauses of both kinds
    topSolver,             \* clauses of block_up only
    botSolver              \* clauses of block_down only

explorerVars == <<mcses, critical, blocked_muses, mus_intersection,
                  testedForCriticality, solver, topSolver, botSolver>>

MapLit == Constraint \cup {-c : c \in Constraint}

ExplorerTypeOK ==
    /\ mcses \in SUBSET SUBSET Constraint
    /\ critical \in SUBSET Constraint
    /\ blocked_muses \in SUBSET SUBSET Constraint
    /\ mus_intersection \in SUBSET Constraint
    /\ testedForCriticality \in SUBSET Constraint
    /\ solver \in SUBSET SUBSET MapLit
    /\ topSolver \in SUBSET SUBSET MapLit
    /\ botSolver \in SUBSET SUBSET MapLit

ExplorerInit ==
    /\ mcses = {}
    /\ critical = {}
    /\ blocked_muses = {}
    /\ mus_intersection = Constraint
    /\ testedForCriticality = {}
    /\ solver = {}
    /\ topSolver = {}
    /\ botSolver = {}

---------------------------------------------------------------------------
(* Reading the map. *)

SatisfiesAll(f, map) == \A cl \in map : Satisfies(f, cl)

(* isUnexplored *)
Unexplored(f) == SatisfiesAll(f, solver)

UnexploredSets == {f \in SUBSET Constraint : Unexplored(f)}

Maximal(family) == {f \in family : \A g \in family : f \subseteq g => g = f}
Minimal(family) == {f \in family : \A g \in family : g \subseteq f => g = f}

(* Mutant: the default polarity is not set, so any model may come.         *)
AnyUnexplored(subset) == {f \in SUBSET subset : Unexplored(f)}

(* Mutant: the query with assumptions does not set the polarity.           *)
AnyInSubset(subset) ==
    {f \in SUBSET subset :
        /\ Unexplored(f)
        /\ subset = Constraint => \A c \in Constraint \ f : ~Unexplored(f \cup {c})}

(* get_top_unexplored(assumptions), get_unexplored(1): every decision sets *)
(* a variable to true, so each false variable is implied and the model is  *)
(* a maximal one.  No model is the empty result.                           *)
TopUnexplored(subset) == Maximal({f \in SUBSET subset : Unexplored(f)})

(* Mutant: the default polarity is not set.                                *)
AnyBotUnexplored == UnexploredSets

(* get_unexplored(0): decisions set variables to false.                    *)
BotUnexplored == Minimal(UnexploredSets)

(* Mutant: the polarity of topSolver is not set.                           *)
AnyAbove(bot) ==
    {f \in SUBSET Constraint : bot \subseteq f /\ SatisfiesAll(f, topSolver)}

(* get_top_unexplored(bot): a maximal model of topSolver over bot; that    *)
(* solver does not have the clauses of block_down.                         *)
TopAbove(bot) ==
    Maximal({f \in SUBSET Constraint : bot \subseteq f /\ SatisfiesAll(f, topSolver)})

(* Mutant: being in some correction set is taken for being critical.       *)
MaybeCritical(c, f) == c \in critical \/ \E mcs \in mcses : c \in mcs

(* is_critical: f without c misses a known correction set entirely. *)
IsCritical(c, f) ==
    \/ c \in critical
    \/ \E mcs \in mcses : c \in mcs /\ mcs \cap f \subseteq {c}

(* getImplied *)
Implied(crits, f) == crits \cup {c \in f : IsCritical(c, f)}

---------------------------------------------------------------------------
(* Writing the map.  The second solver is reached through &&, so it misses *)
(* a clause when Solver::addClause on the first one returns false, which   *)
(* it may as soon as the clauses have no model, and never before.  (The    *)
(* list testedForCriticality is written by the mining loop of Master only.) *)

Consistent(map) == \E f \in SUBSET Constraint : SatisfiesAll(f, map)

AfterAnd(other, cl) ==
    {other \cup {cl}} \cup (IF Consistent(solver \cup {cl}) THEN {} ELSE {other})

(* Mutant: the clause only reaches the solver of the bottom queries. *)
BlockDownBotOnly(f) ==
    LET mcs == Constraint \ f IN
    /\ mcses' = mcses \cup {mcs}
    /\ critical' = critical \cup {c \in Constraint : mcs = {c}}
    /\ botSolver' \in AfterAnd(botSolver, mcs)
    /\ UNCHANGED <<solver, blocked_muses, mus_intersection, topSolver>>

BlockDown(f) ==
    LET mcs == Constraint \ f IN
    /\ mcses' = mcses \cup {mcs}
    /\ critical' = critical \cup {c \in Constraint : mcs = {c}}
    /\ solver' = solver \cup {mcs}
    /\ botSolver' \in AfterAnd(botSolver, mcs)
    /\ UNCHANGED <<blocked_muses, mus_intersection, topSolver>>

(* Mutants: the constraints in every known MUS are left out, whether they  *)
(* are critical or not; the literals miss their sign; their numbers are    *)
(* one too high.                                                           *)
UpClauseIntersection(f) == {-c : c \in f \ mus_intersection}
UpClausePositive(f) == f \ critical
UpClauseOffByOne(f) == {-(c + 1) : c \in f \ critical}

(* The constraints known to be critical are left out of the clause: the    *)
(* sets without them are blocked down already.                             *)
UpClause(f) == {-c : c \in f \ critical}

BlockUp(f) ==
    /\ blocked_muses' = blocked_muses \cup {f}
    /\ mus_intersection' = mus_intersection \cap f
    /\ solver' = solver \cup {UpClause(f)}
    /\ topSolver' \in AfterAnd(topSolver, UpClause(f))
    /\ UNCHANGED <<mcses, critical, botSolver>>
===========================================================================
