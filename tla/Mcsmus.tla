------------------------------- MODULE Mcsmus ------------------------------
(***************************************************************************)
(* One call of BooleanSolver::shrink_mcsmus, the default single MUS        *)
(* extraction, and inside it of MUSSolver::find_mus: the algorithm         *)
(* "mishmash" with minimal correction sets, model rotation around the      *)
(* constraints found critical, refinement of what is left by the final     *)
(* conflict, and criticals mined from the correction sets of Explorer.     *)
(*                                                                         *)
(* The parameters' known criticals are hard clauses of the extraction.  A  *)
(* soft constraint c has a control variable that is true in a model of the *)
(* solver exactly if the model violates c, so a model is the set of the    *)
(* variables of the formula that it makes true.                            *)
(***************************************************************************)
EXTENDS Cnf, Sequences

CONSTANT McsesBound   \* how many correction sets Explorer may have found

VARIABLES
    f, given,      \* the parameters: the seed, and its known criticals
    blockDowns,    \* correction sets of Explorer, inside the soft constraints
    phase,
    conflict,      \* soft constraints that may be removed yet
    crits,         \* soft constraints found critical
    cs,            \* the correction set of this iteration
    blocks,        \* clauses in the solver: "one of these is satisfied"
    mcs_witness,   \* the last model
    toTry,         \* literals that mcsRotate has still to flip
    fixed,         \* literals the solver has fixed at level 0
    rotated,       \* eager_rmr_K: the constraints rotated to
    stack          \* the active calls of modelRotate_, the last one first

mcsmusVars == <<cnfVars, f, given, blockDowns, phase, conflict, crits, cs,
                blocks, mcs_witness, toTry, fixed, rotated, stack>>

seedVars == <<cnfVars, f, given, blockDowns>>
minimizeVars == <<cs, blocks, mcs_witness, toTry>>
rotateVars == <<fixed, rotated, stack>>

Soft == f \ given
Hard == hard_clauses \cup {clauses[c] : c \in given}

Clauses(g) == {clauses[c] : c \in g}
Literals(g) == UNION Clauses(g)
Violated(a, g) == {c \in g : ~Satisfies(a, clauses[c])}
Flip(a, v) == IF v \in a THEN a \ {v} ELSE a \cup {v}
Abs(l) == IF l > 0 THEN l ELSE -l

(* solve() under the assumption that the constraints of g are on. *)
SolverModels(g, blocked) ==
    {a \in SUBSET Var : /\ \A h \in Hard \cup Clauses(g) : Satisfies(a, h)
                        /\ \A b \in blocked : Violated(a, b) # b}

---------------------------------------------------------------------------
(* Values at level 0. *)

PropagationClosed(X, cls) ==
    \A h \in cls : \A l \in h : (\A k \in h \ {l} : -k \in X) => l \in X

(* What unit propagation of the clauses alone fixes. *)
Propagated(cls) ==
    {l \in Lit : \A X \in SUBSET Lit : PropagationClosed(X, cls) => l \in X}

Consistent(X) == \A l \in X : -l \notin X

Entailed(cls) ==
    {l \in Lit : \A a \in SUBSET Var :
                     (\A h \in cls : Satisfies(a, h)) => LitTrue(a, l)}

(* Some entailed literals, closed under propagation: how much beyond the   *)
(* propagated ones the solver has learnt is up to its search.  A solver    *)
(* that has refuted the clauses may have stopped propagating anywhere.     *)
FixedSets(cls) ==
    {X \in SUBSET Entailed(cls) :
        /\ Consistent(X)
        /\ Consistent(Propagated(cls)) => PropagationClosed(X, cls)}

---------------------------------------------------------------------------
(* The mcses of Explorer are correction sets of the whole formula.  One    *)
(* that has a given critical cannot be hit in vain and is left out.  With  *)
(* --shrink-mining off none is handed over.                                *)
Trimmed(known) == {m \cap Soft : m \in {n \in known : n \cap given = {}}}

(* Master calls with an unsatisfiable seed and some of its criticals, not  *)
(* all of them, and not when at most two others would be left beside       *)
(* criticals that are unsatisfiable on their own (shrink_formula).         *)
Callable(g, cr) ==
    /\ ~Sat(g)
    /\ \A c \in cr : Sat(g \ {c})
    /\ cr # g
    /\ Cardinality(g \ cr) < 3 => Sat(cr)

Init ==
    /\ Parse
    /\ f \in SUBSET Constraint
    /\ given \in SUBSET f
    /\ Callable(f, given)
    /\ \E known \in {k \in SUBSET AllMcses : Cardinality(k) <= McsesBound} :
          blockDowns = Trimmed(known)
    /\ phase = "start"
    /\ conflict = Soft
    /\ crits = {} /\ cs = {} /\ blocks = {} /\ mcs_witness = {} /\ toTry = {}
    /\ fixed = {} /\ rotated = {} /\ stack = <<>>

(* preProcessConflict, on the values that the hard clauses alone fix: a    *)
(* violated soft constraint is the conflict, a satisfied one is dropped.   *)
(* Without any the solver has refuted the hard clauses, and has no values. *)
Preprocessed ==
    LET values == Propagated(Hard)
        violated == {c \in Soft : \A l \in clauses[c] : -l \in values}
        undefined == {c \in Soft : clauses[c] \cap values = {}}
    IN  IF ~Consistent(values) \/ {} \in Hard THEN Soft
        ELSE IF violated # {}
                THEN {CHOOSE c \in violated : \A d \in violated : c <= d}
                ELSE undefined

(* mus_internal: a conflict of at most one constraint is the result. *)
Preprocess ==
    /\ phase = "start"
    /\ conflict' = Preprocessed
    /\ phase' = IF Cardinality(conflict') <= 1 THEN "returned" ELSE "findCS"
    /\ UNCHANGED <<seedVars, crits, minimizeVars, rotateVars>>

---------------------------------------------------------------------------
(* findMCS: a correction set of the conflict, made minimal. *)

(* What the solver has assumed while the correction set is minimized. *)
Assumed == crits \cup (conflict \ cs)

(* The correction set is minimal as soon as it has one constraint. *)
StartMinimizing ==
    /\ phase' = IF Cardinality(cs') <= 1 THEN "pick" ELSE "mcsRotate"
    /\ toTry' = IF Cardinality(cs') <= 1 THEN {} ELSE Literals(cs')

(* Unsatisfiable: the criticals alone are the result. *)
FindCS ==
    /\ phase = "findCS"
    /\ IF SolverModels(crits, blocks) = {}
          THEN /\ conflict' = {}
               /\ phase' = "returned"
               /\ UNCHANGED minimizeVars
          ELSE /\ mcs_witness' \in SolverModels(crits, blocks)
               /\ cs' = Violated(mcs_witness', conflict)
               /\ StartMinimizing
               /\ UNCHANGED <<conflict, blocks>>
    /\ UNCHANGED <<seedVars, crits, rotateVars>>

FlipAllowed(v) ==
    /\ Violated(Flip(mcs_witness, v), Assumed) = {}
    /\ \A h \in Hard : Satisfies(Flip(mcs_witness, v), h)

(* mcsRotate, one literal: the flip is kept if it breaks nothing, and the  *)
(* constraints it satisfies leave the correction set.                      *)
McsRotate ==
    /\ phase = "mcsRotate"
    /\ \E l \in toTry :
          /\ toTry' = toTry \ {l}
          /\ IF FlipAllowed(Abs(l))
                THEN /\ mcs_witness' = Flip(mcs_witness, Abs(l))
                     /\ cs' = {c \in cs : l \notin clauses[c]}
                ELSE UNCHANGED <<mcs_witness, cs>>
    /\ UNCHANGED <<seedVars, phase, conflict, crits, blocks, rotateVars>>

(* Mutant: the block is not added. *)
BlockNothing(blocked) == blocked

Block(blocked) == blocked \cup {cs}

(* Mutant: what the flips leave of the correction set is taken as minimal. *)
MinimizeCSByFlips ==
    /\ phase = "mcsRotate" /\ toTry = {} /\ Cardinality(cs) > 1
    /\ blocks' = Block(blocks)
    /\ phase' = "pick"
    /\ UNCHANGED <<seedVars, conflict, crits, cs, mcs_witness, toTry, rotateVars>>

(* minimizeCS_cl: one of the correction set is to be satisfied as well, a  *)
(* clause that stays in the solver.                                        *)
MinimizeCS ==
    /\ phase = "mcsRotate" /\ toTry = {} /\ Cardinality(cs) > 1
    /\ blocks' = Block(blocks)
    /\ IF SolverModels(Assumed, blocks') = {}
          THEN phase' = "pick" /\ UNCHANGED <<cs, mcs_witness, toTry>>
          ELSE /\ mcs_witness' \in SolverModels(Assumed, blocks')
               /\ cs' = Violated(mcs_witness', cs)
               /\ StartMinimizing
    /\ UNCHANGED <<seedVars, conflict, crits, rotateVars>>

Minimized ==
    /\ phase = "mcsRotate" /\ toTry = {} /\ Cardinality(cs) <= 1
    /\ phase' = "pick"
    /\ UNCHANGED <<seedVars, conflict, crits, minimizeVars, rotateVars>>

---------------------------------------------------------------------------
(* modelRotate: constraints critical because a flip moves the violation.   *)

(* A call of modelRotate_ for a constraint and the model that violates it  *)
(* alone.  It does nothing when the constraint has a fixed true literal.   *)
Call(c, model, values) ==
    [inviolated |-> c, model |-> model, rotations |-> {},
     todo |-> IF clauses[c] \cap values = {} THEN {Abs(l) : l \in clauses[c]} ELSE {}]

(* Mutant: the chosen constraint leaves with the others of the set. *)
PickForgotten ==
    /\ phase = "pick"
    /\ conflict' = conflict \ cs
    /\ phase' = "refine"
    /\ UNCHANGED <<seedVars, crits, minimizeVars, rotateVars>>

(* One of the minimal correction set is critical, the others are dropped. *)
(* Without any, modelRotate_ is called for an undefined literal and throws.*)
Pick ==
    /\ phase = "pick"
    /\ IF cs = {}
          THEN phase' = "failed" /\ UNCHANGED <<crits, fixed, stack>>
          ELSE \E c \in cs :
                 /\ crits' = crits \cup {c}
                 /\ fixed' \in FixedSets(Hard \cup Clauses(crits'))
                 /\ stack' = <<Call(c, mcs_witness, fixed')>>
                 /\ phase' = "rotate"
    /\ conflict' = conflict \ cs
    /\ UNCHANGED <<seedVars, minimizeVars, rotated>>

(* Constraints that a flip of v breaks in the model of the current call. *)
Broken(v) ==
    Violated(Flip(Head(stack).model, v), conflict \cup crits) \ {Head(stack).inviolated}

(* Mutant: one broken constraint among several is enough. *)
RotatesToAnyOf(v) ==
    IF v \in {Abs(l) : l \in fixed} \/ \E h \in Hard : ~Satisfies(Flip(Head(stack).model, v), h)
       THEN {}
       ELSE {b \in Broken(v) \ rotated : \A d \in Broken(v) : b <= d}

(* The constraint b if the flip breaks b alone, b has not been rotated to, *)
(* v is not fixed, and no hard clause is broken.                           *)
RotatesTo(v) ==
    {b \in Broken(v) \ rotated :
        /\ Broken(v) = {b}
        /\ \A l \in fixed : Abs(l) # v
        /\ \A h \in Hard : Satisfies(Flip(Head(stack).model, v), h)}

(* modelRotate_, one variable of the violated constraint. *)
TryVariable ==
    /\ phase = "rotate"
    /\ \E v \in Head(stack).todo :
          stack' = [stack EXCEPT
                       ![1].todo = @ \ {v},
                       ![1].rotations = @ \cup {<<v, b>> : b \in RotatesTo(v)}]
          /\ rotated' = rotated \cup RotatesTo(v)
    /\ UNCHANGED <<seedVars, phase, conflict, crits, minimizeVars, fixed>>

(* All its variables tried, it recurses on one of the rotations stored. *)
Recurse ==
    /\ phase = "rotate" /\ Head(stack).todo = {}
    /\ \E r \in Head(stack).rotations :
          stack' = <<Call(r[2], Flip(Head(stack).model, r[1]), fixed),
                     [Head(stack) EXCEPT !.rotations = @ \ {r}]>> \o Tail(stack)
    /\ UNCHANGED <<seedVars, phase, conflict, crits, minimizeVars, fixed, rotated>>

(* The outermost call moves what was rotated to to crits.  What is left is *)
(* refuted again only after constraints were dropped.                      *)
Return ==
    /\ phase = "rotate" /\ Head(stack).todo = {} /\ Head(stack).rotations = {}
    /\ stack' = Tail(stack)
    /\ IF stack' # <<>>
          THEN UNCHANGED <<phase, conflict, crits, fixed, rotated, mcs_witness>>
          ELSE /\ crits' = crits \cup rotated
               /\ conflict' = conflict \ rotated
               /\ phase' = IF Cardinality(cs) > 1 THEN "refine" ELSE "mine"
               /\ fixed' = {} /\ rotated' = {} /\ mcs_witness' = {}
    /\ UNCHANGED <<seedVars, cs, blocks, toTry>>

---------------------------------------------------------------------------
(* refute_and_refine: what the final conflict does not use is redundant.   *)
(* A model is the "Unexpected Failure", on which shrink turns to muser2.   *)
RefuteAndRefine(next) ==
    /\ IF SolverModels(crits \cup conflict, blocks) # {}
          THEN phase' = "failed" /\ UNCHANGED conflict
          ELSE /\ conflict' \in {g \in SUBSET conflict : SolverModels(crits \cup g, blocks) = {}}
               /\ phase' = next
    /\ UNCHANGED <<seedVars, crits, minimizeVars, rotateVars>>

Refine == phase = "refine" /\ RefuteAndRefine("mine")

(* Mutant: the criticals do not count as constraints that hit the set.     *)
IsMinableAmong(c) == \E block \in blockDowns : block \cap (conflict \ {c}) = {}

(* A correction set that nothing else of what is left hits. *)
IsMinableCritical(c) ==
    \E block \in blockDowns : block \cap ((conflict \cup crits) \ {c}) = {}

(* The end of an iteration.  When nothing was dropped in it and the time   *)
(* since the last refutation is over, there is another one.                *)
Mine ==
    /\ phase = "mine"
    /\ LET newCrits == {c \in conflict : IsMinableCritical(c)}
       IN  crits' = crits \cup newCrits /\ conflict' = conflict \ newCrits
    /\ \/ phase' = IF conflict' = {} THEN "returned" ELSE "findCS"
       \/ Cardinality(cs) = 1 /\ phase' = "stalled"
    /\ cs' = {}
    /\ UNCHANGED <<seedVars, blocks, mcs_witness, toTry, rotateVars>>

Stalled ==
    /\ phase = "stalled"
    /\ RefuteAndRefine(IF conflict' = {} THEN "returned" ELSE "findCS")

Returned == phase \in {"returned", "failed"} /\ UNCHANGED mcsmusVars

Next ==
    \/ Preprocess \/ FindCS \/ McsRotate \/ MinimizeCS \/ Minimized \/ Pick
    \/ TryVariable \/ Recurse \/ Return \/ Refine \/ Mine \/ Stalled
    \/ Returned

Spec == Init /\ [][Next]_mcsmusVars

---------------------------------------------------------------------------
(* The groups returned, beside those that were given. *)
mus == given \cup crits \cup conflict

(* "Return true if the returned vector is a MUS" (musBudget), as mus_      *)
(* returns for a conflict of at most one constraint: all constraints of    *)
(* the result are needed.                                                  *)
UnitConflictIsMus ==
    phase = "returned" /\ crits = {} => \A c \in mus \ given : Sat(mus \ {c})

(* Neither of the exceptions is thrown for which shrink falls back to      *)
(* muser2: no correction set is empty, and what is left after a minimal    *)
(* correction set has been dropped is unsatisfiable.                       *)
NeverFails == phase # "failed"

(* The blocks stay in the solver for good, where they could make a later   *)
(* check unsatisfiable that is not; each has a critical, so it never does. *)
BlocksAreHarmless == phase = "findCS" => \A b \in blocks : b \cap crits # {}
===========================================================================
