------------------------------ MODULE SimpSolver ---------------------------
(***************************************************************************)
(* glucose/SimpSolver.cc: an incremental solver that simplifies its        *)
(* clauses before every search, by backward subsumption, by strengthening  *)
(* and by eliminating variables, and that rebuilds the values of the       *)
(* eliminated variables once a model has been found.                       *)
(*                                                                         *)
(* The search below it, glucose/Solver.cc, is an oracle: it finds a model  *)
(* or a final conflict, and learns what the clauses imply.  The queue and  *)
(* the lists of occurrences are sets: they are worked through in any order.*)
(***************************************************************************)
EXTENDS Integers, SequencesExt

CONSTANTS
    nVars,
    growth,        \* clauses an elimination may add, 0 by default
    clause_lim     \* a longer resolvent forbids it, 20 by default

Var == 1..nVars

VARIABLES
    ok,            \* FALSE once the clauses are known to be unsatisfiable
    db,            \* the clauses
    learnts,       \* what earlier searches have learnt and not forgotten
    trail,         \* literals assigned at level 0
    swept,         \* bwdsub_assigns: those the clauses have been rid of
    touched,       \* variables of the clauses added since the last gathering
    queue,         \* subsumption_queue
    heap,          \* elim_heap: variables elimination has yet to look at
    frozen,        \* variables that must not be eliminated
    elimclauses,   \* what was stored about each eliminated variable
    elim,          \* the elimination under way
    assumptions,
    model,
    conflict,      \* the final conflict
    step

dbVars == <<ok, db, learnts, trail, swept>>
workVars == <<touched, queue, heap, elim>>
resultVars == <<model, conflict>>
simpVars == <<dbVars, workVars, frozen, elimclauses, assumptions, resultVars, step>>

VarOf(l) == IF l > 0 THEN l ELSE -l
VarsOf(c) == {VarOf(l) : l \in c}
LitTrue(a, l) == IF l > 0 THEN l \in a ELSE -l \notin a
Satisfies(a, c) == \E l \in c : LitTrue(a, l)

Facts == db \cup learnts \cup {{l} : l \in trail}
ModelsOf(cls) == {a \in SUBSET Var : \A c \in cls : Satisfies(a, c)}

eliminated == {e.var : e \in ToSet(elimclauses)}
Assigned == VarsOf(trail)
NoElim == [var |-> 0, old |-> {}, resolvents |-> {}]

Init ==
    /\ ok = TRUE /\ db = {} /\ learnts = {} /\ trail = {} /\ swept = {}
    /\ touched = {} /\ queue = {} /\ heap = Var /\ frozen = {}
    /\ elimclauses = <<>> /\ elim = NoElim /\ assumptions = {}
    /\ model = {} /\ conflict = {} /\ step = "idle"

---------------------------------------------------------------------------
(* Unit propagation: one round, and as many rounds as there can be.        *)
(* before is bound in a set of one element, for TLC to compute a round     *)
(* only once.                                                              *)
Derived(cls, lits) ==
    lits \cup {l \in UNION cls : \E c \in cls : l \in c /\ \A k \in c \ {l} : -k \in lits}

Propagated(cls, lits) ==
    LET round[n \in 0..2 * nVars] ==
            IF n = 0 THEN lits ELSE UNION {Derived(cls, before) : before \in {round[n - 1]}}
    IN  round[2 * nVars]

(* Assigns lits and propagates them over cls; FALSE says ok after a conflict. *)
Enqueue(cls, lits) ==
    LET derived == Propagated(cls, trail \cup lits)
    IN  /\ trail' = derived
        /\ ok' = \A l \in derived : -l \notin derived

(* addClause_: satisfied clauses are left out, false literals too.         *)
AddClause(c) ==
    LET rest == {l \in c : -l \notin trail}
    IN  \/ /\ \E l \in c : l \in trail \/ -l \in c
           /\ UNCHANGED <<ok, db, trail, queue, touched>>
        \/ /\ \A l \in c : l \notin trail /\ -l \notin c
           /\ IF rest = {} THEN ok' = FALSE /\ UNCHANGED trail
              ELSE IF Cardinality(rest) = 1 THEN Enqueue(db \cup learnts, rest)
              ELSE UNCHANGED <<ok, trail>>
           /\ IF Cardinality(rest) > 1
              THEN /\ db' = db \cup {rest}
                   /\ queue' = queue \cup {rest}
                   /\ touched' = touched \cup VarsOf(rest)
              ELSE UNCHANGED <<db, queue, touched>>

(* updateElimHeap: variables whose clauses have become fewer or shorter.   *)
Requeued(vs) == {v \in vs : v \notin frozen \cup eliminated \cup Assigned}

---------------------------------------------------------------------------
(* solve_: the assumptions are frozen, then eliminate simplifies.          *)
(* Mutant: assumptions are variables like all others.                      *)
NothingFrozen(lits) == {}

AssumptionsFrozen(lits) == VarsOf(lits)

Solve(lits) ==
    /\ step = "idle"
    /\ assumptions' = lits
    /\ frozen' = AssumptionsFrozen(lits)
    /\ step' = IF ok THEN "gather" ELSE "unsat"
    /\ UNCHANGED <<dbVars, workVars, elimclauses, resultVars>>

MoreToDo == touched # {} \/ swept # trail \/ heap # {}

(* gatherTouchedClauses *)
Gather ==
    /\ step = "gather" /\ MoreToDo
    /\ queue' = queue \cup {c \in db : VarsOf(c) \cap touched # {}}
    /\ touched' = {}
    /\ step' = "subsume"
    /\ UNCHANGED <<dbVars, heap, elim, frozen, elimclauses, assumptions, resultVars>>

Simplified ==
    /\ step = "gather" /\ ~MoreToDo
    /\ step' = "search"
    /\ UNCHANGED <<dbVars, workVars, frozen, elimclauses, assumptions, resultVars>>

(* backwardSubsumptionCheck, one clause c of the queue against all others: *)
(* what c subsumes is removed, and what it subsumes but for one literal    *)
(* loses that literal.                                                     *)
Resolved(c, d) == {l \in c : -l \in d /\ c \ {l} \subseteq d}

Backward(c) ==
    LET subsumed == {d \in db \ {c} : c \subseteq d}
        longer == {d \in db \ {c} : Resolved(c, d) # {}}
        Shorter(d) == d \ {-l : l \in Resolved(c, d)}
        shorter == {Shorter(d) : d \in longer}
        clauses == {d \in shorter : Cardinality(d) > 1}
        units == UNION {d \in shorter : Cardinality(d) = 1}
        removed == subsumed \cup {d \in longer : Cardinality(d) = 2}
    IN  /\ db' = (db \ (subsumed \cup longer)) \cup clauses
        /\ queue' = (queue \ ({c} \cup subsumed \cup longer)) \cup clauses
        /\ heap' = heap \cup Requeued(UNION ({VarsOf(d) : d \in removed}
                                    \cup {VarsOf(d \ Shorter(d)) : d \in longer}))
        /\ Enqueue(db' \cup learnts, units)
        /\ step' = IF ok' THEN "subsume" ELSE "unsat"
        /\ UNCHANGED <<learnts, touched, elim, frozen, elimclauses, assumptions, resultVars>>

Subsume ==
    /\ step = "subsume"
    /\ \/ \E c \in queue : Backward(c) /\ UNCHANGED swept
       \/ /\ queue = {}
          /\ \E l \in trail \ swept : Backward({l}) /\ swept' = swept \cup {l}

SubsumeEnds ==
    /\ step = "subsume" /\ queue = {} /\ swept = trail
    /\ step' = "eliminate"
    /\ UNCHANGED <<dbVars, workVars, frozen, elimclauses, assumptions, resultVars>>

---------------------------------------------------------------------------
(* eliminateVar *)
With(l) == {c \in db : l \in c}

Cheapest ==
    LET Cost(v) == Cardinality(With(v)) * Cardinality(With(-v))
    IN  {v \in heap : \A w \in heap : Cost(v) <= Cost(w)}

Tautology(c) == \E l \in c : -l \in c

(* merge: the resolvents of the clauses with v and of those with -v. *)
Merged(v, pair) == (pair[1] \ {v}) \cup (pair[2] \ {-v})
Pairs(v) == {pair \in With(v) \X With(-v) : ~Tautology(Merged(v, pair))}

Eliminable(v) ==
    /\ v \notin eliminated \cup Assigned \cup frozen
    /\ Cardinality(Pairs(v)) <= Cardinality(With(v) \cup With(-v)) + growth
    /\ \A pair \in Pairs(v) : Cardinality(Merged(v, pair)) <= clause_lim

(* mkElimClause: one side of the clauses, and the value that satisfies the *)
(* other side.                                                             *)
Stored(v) ==
    IF Cardinality(With(v)) > Cardinality(With(-v))
    THEN [var |-> v, default |-> v, clauses |-> With(-v)]
    ELSE [var |-> v, default |-> -v, clauses |-> With(v)]

(* Mutant: a frozen variable goes back to the heap. *)
PoppedUnlessFrozen(v) == IF v \in frozen THEN heap ELSE heap \ {v}

Popped(v) == heap \ {v}

KeepVar ==
    /\ step = "eliminate"
    /\ \E v \in Cheapest : ~Eliminable(v) /\ heap' = Popped(v)
    /\ UNCHANGED <<dbVars, touched, queue, elim, frozen, elimclauses, assumptions,
                   resultVars, step>>

EliminateVar ==
    /\ step = "eliminate"
    /\ \E v \in Cheapest :
          /\ Eliminable(v)
          /\ heap' = Popped(v)
          /\ elimclauses' = Append(elimclauses, Stored(v))
          /\ elim' = [var |-> v, old |-> With(v) \cup With(-v),
                      resolvents |-> {Merged(v, pair) : pair \in Pairs(v)}]
    /\ step' = "resolve"
    /\ UNCHANGED <<dbVars, touched, queue, frozen, assumptions, resultVars>>

AddResolvent ==
    /\ step = "resolve"
    /\ \E r \in elim.resolvents :
          AddClause(r) /\ elim' = [elim EXCEPT !.resolvents = @ \ {r}]
    /\ step' = IF ok' THEN "resolve" ELSE "unsat"
    /\ UNCHANGED <<learnts, swept, heap, frozen, elimclauses, assumptions, resultVars>>

RemoveOld ==
    /\ step = "resolve" /\ elim.resolvents = {}
    /\ db' = db \ elim.old
    /\ queue' = queue \ elim.old
    /\ heap' = heap \cup Requeued(UNION {VarsOf(c) : c \in elim.old})
    /\ elim' = NoElim
    /\ step' = "subsume"
    /\ UNCHANGED <<ok, learnts, trail, swept, touched, frozen, elimclauses, assumptions,
                   resultVars>>

HeapEmpty ==
    /\ step = "eliminate" /\ heap = {}
    /\ step' = "gather"
    /\ UNCHANGED <<dbVars, workVars, frozen, elimclauses, assumptions, resultVars>>

---------------------------------------------------------------------------
(* Solver::solve_.  Whatever it finds, it may have learnt units and        *)
(* clauses by resolution; at most one clause of at most two literals is    *)
(* kept (reduceDB forgets as it likes).                                    *)
Learnable ==
    LET literals == UNION (db \cup learnts)
        models == ModelsOf(Facts)
    IN  {c \in {{k, l} : k, l \in literals} : /\ ~Tautology(c)
                                            /\ \A a \in models : Satisfies(a, c)}

Learn ==
    LET learnable == Learnable
    IN  /\ learnts' \in {{}} \cup {{c} : c \in {k \in learnable : Cardinality(k) = 2}}
        /\ \E units \in SUBSET UNION {c \in learnable : Cardinality(c) = 1} :
              trail' = Propagated(db \cup learnts', trail \cup units)

(* A model; its values for eliminated variables are overwritten below.     *)
SearchSat ==
    /\ step = "search"
    /\ model' \in ModelsOf(Facts \cup {{l} : l \in assumptions})
    /\ conflict' = {}
    /\ Learn
    /\ step' = "extend"
    /\ UNCHANGED <<ok, db, swept, workVars, frozen, elimclauses, assumptions>>

(* analyzeFinal: negated assumptions that occur in the clauses. *)
FinalConflicts ==
    LET models == ModelsOf(Facts)
    IN  {c \in SUBSET ({-l : l \in assumptions} \cap UNION Facts) :
            \A a \in models : Satisfies(a, c)}

SearchUnsat ==
    /\ step = "search"
    /\ ModelsOf(Facts \cup {{l} : l \in assumptions}) = {}
    /\ conflict' \in FinalConflicts
    /\ model' = {}
    /\ ok' = (conflict' # {})
    /\ IF ok' THEN Learn ELSE UNCHANGED <<learnts, trail>>
    /\ step' = "unsat"
    /\ UNCHANGED <<db, swept, workVars, frozen, elimclauses, assumptions>>

(* extendModel goes through elimclauses from the end: a variable gets its  *)
(* default unless one of the clauses stored needs the other value.         *)
Rebuilt(e, a) ==
    LET forced == \E c \in e.clauses :
                     \A l \in c : VarOf(l) = e.var \/ ~LitTrue(a, l)
        positive == e.default > 0 <=> ~forced
    IN  IF positive THEN a \cup {e.var} ELSE a \ {e.var}

(* Mutant: in the order of the eliminations. *)
ExtendedForward(a) ==
    LET ext[n \in 0..Len(elimclauses)] ==
            IF n = 0 THEN a ELSE Rebuilt(elimclauses[n], ext[n - 1])
    IN  ext[Len(elimclauses)]

Extended(a) ==
    LET last == Len(elimclauses)
        ext[n \in 0..last] ==
            IF n = 0 THEN a ELSE Rebuilt(elimclauses[last + 1 - n], ext[n - 1])
    IN  ext[last]

ExtendModel ==
    /\ step = "extend"
    /\ model' = Extended(model)
    /\ step' = "sat"
    /\ UNCHANGED <<dbVars, workVars, frozen, elimclauses, assumptions, conflict>>

(* The answer is taken, the assumptions are thawed. *)
Thaw ==
    /\ step \in {"sat", "unsat"}
    /\ frozen' = {}
    /\ heap' = heap \cup {v \in frozen : v \notin eliminated \cup Assigned}
    /\ step' = "idle"
    /\ assumptions' = {}
    /\ UNCHANGED <<dbVars, touched, queue, elim, elimclauses, resultVars>>

Work ==
    \/ Gather \/ Simplified \/ Subsume \/ SubsumeEnds
    \/ KeepVar \/ EliminateVar \/ AddResolvent \/ RemoveOld \/ HeapEmpty
    \/ SearchSat \/ SearchUnsat \/ ExtendModel
===========================================================================
