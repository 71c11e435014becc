------------------------------ MODULE MapSolver ----------------------------
(***************************************************************************)
(* A solver of Explorer's map, custom_minisat/Solver.cc: conflict driven   *)
(* search over clauses with two watched literals, incremental (clauses and *)
(* assumptions come and go, learnt clauses stay), with restarts, removal   *)
(* of learnt clauses and simplification at level 0.                        *)
(*                                                                         *)
(* A clause is the set of its literals; the order in which propagate keeps *)
(* them is the pair of watched ones.  The blocker of a watch is any        *)
(* literal of the clause.  Activities are left out: decisions, visits to   *)
(* the watching clauses and removals of learnt clauses come in any order.  *)
(***************************************************************************)
EXTENDS Integers, FiniteSets, SequencesExt

CONSTANTS
    dimension,       \* number of constraints, the variables of the map
    Maps,            \* sequences of clauses that Explorer may come to add
    Queries,         \* [assumptions, polarity] of the queries considered
    SolveBound,      \* number of queries
    restart_first    \* conflicts up to the first restart

Constraint == 1..dimension
MapLit == Constraint \cup {-c : c \in Constraint}

(* No clause has a literal and its negation. *)
MapClause == {cl \in SUBSET MapLit : \A l \in cl : -l \notin cl}

Query == [assumptions : Seq(MapLit), polarity : {"true", "false", "any"}]

ASSUME MapSolverAssumption ==
    /\ dimension \in Nat
    /\ Maps \subseteq Seq(MapClause)
    /\ Queries \subseteq Query
    /\ SolveBound \in Nat
    /\ restart_first \in Nat \ {0}

VARIABLES
    map, call, answer,   \* what the caller sees, see MapOracle; map is a ghost
    toAdd,          \* clauses Explorer will add yet, in this order
    solves,         \* queries so far
    ok,             \* FALSE once the clauses are known to have no model
    watches,        \* clause in the solver -> its two watched literals
    learnts,        \* the learnt ones among them
    trail,          \* assigned literals, each with its reason
    trail_lim,      \* length of the trail when each level was opened
    qhead,          \* how far the trail has been propagated
    visit,          \* watching clauses the current literal has still to visit
    pc,
    confl,          \* the clause found falsified
    conflict,       \* final conflict in terms of the assumptions
    conflictC,      \* conflicts since the last restart
    curr_restarts,
    assumptions,    \* literals assumed, one level each
    max_learnts     \* three times the limit of the code

O == INSTANCE MapOracle

oracleVars == <<map, call, answer>>
envVars == <<toAdd, solves>>
dbVars == <<watches, learnts>>
searchVars == <<assumptions, conflict, conflictC, curr_restarts, max_learnts>>
solverVars == <<oracleVars, envVars, dbVars, searchVars, ok, trail, trail_lim,
                qhead, visit, pc, confl>>

NoReason == {}
VarOf(l) == IF l > 0 THEN l ELSE -l

---------------------------------------------------------------------------
(* Reading the trail. *)

Assigned == {trail[i].lit : i \in DOMAIN trail}
IsTrue(l) == l \in Assigned
IsFalse(l) == -l \in Assigned
Undefined(l) == ~IsTrue(l) /\ ~IsFalse(l)

decisionLevel == Len(trail_lim)

Position(l) == CHOOSE i \in DOMAIN trail : trail[i].lit \in {l, -l}
LevelAt(i) == Cardinality({k \in DOMAIN trail_lim : trail_lim[k] < i})
Level(l) == LevelAt(Position(l))
Reason(l) == trail[Position(l)].reason

Entry(l, why) == [lit |-> l, reason |-> why]
Locked(c) == \E i \in DOMAIN trail : trail[i].reason = c

(* The trail after cancelUntil(level). *)
Kept(level) ==
    IF level < decisionLevel THEN SubSeq(trail, 1, trail_lim[level + 1]) ELSE trail

CancelUntil0 ==
    /\ trail' = Kept(0)
    /\ trail_lim' = <<>>
    /\ qhead' = Len(Kept(0))

Clauses == DOMAIN watches \ learnts

---------------------------------------------------------------------------
Init ==
    /\ O!Init
    /\ toAdd \in Maps
    /\ solves = 0 /\ ok = TRUE
    /\ watches = <<>> /\ learnts = {}
    /\ trail = <<>> /\ trail_lim = <<>> /\ qhead = 0 /\ visit = {}
    /\ pc = "idle" /\ confl = {} /\ conflict = {}
    /\ conflictC = 0 /\ curr_restarts = 0
    /\ assumptions = <<>> /\ max_learnts = 0

(* attachClause *)
Attached(c, pair) ==
    [d \in DOMAIN watches \cup {c} |-> IF d = c THEN pair ELSE watches[d]]

(* The two literals of a new clause that sort first. *)
FirstTwo(c) ==
    {l \in c : Cardinality({k \in c : VarOf(k) < VarOf(l)}) < 2}

(* addClause_: at level 0, without the literals that are false there.  A   *)
(* clause of one literal is propagated at once.  One that has been learnt  *)
(* already will not be removed any more.                                   *)
AddClause ==
    /\ pc = "idle"
    /\ toAdd # <<>>
    /\ toAdd' = Tail(toAdd)
    /\ O!CallAdd(Head(toAdd))
    /\ LET rest == {l \in Head(toAdd) : ~IsFalse(l)}
       IN  \/ /\ ~ok \/ rest = {}
              /\ ok' = FALSE /\ pc' = "inconsistent"
              /\ UNCHANGED <<dbVars, trail>>
           \/ /\ ok /\ \E l \in rest : IsTrue(l)
              /\ pc' = "added"
              /\ UNCHANGED <<ok, dbVars, trail>>
           \/ /\ ok /\ \A l \in rest : Undefined(l)
              /\ Cardinality(rest) = 1
              /\ trail' = Append(trail, Entry(CHOOSE l \in rest : TRUE, NoReason))
              /\ pc' = "propagate"
              /\ UNCHANGED <<ok, dbVars>>
           \/ /\ ok /\ \A l \in rest : Undefined(l)
              /\ Cardinality(rest) > 1
              /\ watches' = Attached(rest, FirstTwo(rest))
              /\ learnts' = learnts \ {rest}
              /\ pc' = "added"
              /\ UNCHANGED <<ok, trail>>
    /\ UNCHANGED <<solves, searchVars, trail_lim, qhead, visit, confl>>

AddReturns ==
    /\ pc \in {"added", "inconsistent"}
    /\ O!Reply([kind |-> pc])
    /\ pc' = "idle"
    /\ UNCHANGED <<map, envVars, dbVars, searchVars, ok, trail, trail_lim, qhead, visit, confl>>

(* solve_, up to the first call of search. *)
Solve ==
    /\ pc = "idle" /\ solves < SolveBound
    /\ solves' = solves + 1
    /\ \E q \in Queries :
          /\ assumptions' = q.assumptions
          /\ O!CallSolve(ToSet(q.assumptions), q.polarity)
    /\ conflict' = {} /\ conflictC' = 0 /\ curr_restarts' = 0
    /\ max_learnts' = Cardinality(Clauses)
    /\ pc' = IF ok THEN "propagate" ELSE "no model"
    /\ UNCHANGED <<toAdd, dbVars, ok, trail, trail_lim, qhead, visit, confl>>

---------------------------------------------------------------------------
(* propagate *)

TakeLiteral ==
    /\ pc = "propagate" /\ visit = {} /\ qhead < Len(trail)
    /\ qhead' = qhead + 1
    /\ visit' = {c \in DOMAIN watches : -trail[qhead'].lit \in watches[c]}
    /\ UNCHANGED <<oracleVars, envVars, dbVars, searchVars, ok, trail, trail_lim, pc, confl>>

(* Mutant: a clause keeps its watch although the literal has become false. *)
StaleWatches(c) == {watches[c]}

(* The pairs to watch instead: the other literal, and one not false. *)
NewWatches(c) ==
    {{first, l} : first \in watches[c] \ {-trail[qhead].lit},
                  l \in {k \in c \ watches[c] : ~IsFalse(k)}}

(* One clause that watches the negation of the literal taken.  It is left  *)
(* alone if its blocker or its other watch is true.                        *)
Visit ==
    /\ pc = "propagate"
    /\ \E c \in visit : \E first \in watches[c] \ {-trail[qhead].lit} :
          \/ /\ \E l \in c : IsTrue(l)
             /\ visit' = visit \ {c}
             /\ UNCHANGED <<watches, trail, qhead, pc, confl>>
          \/ /\ ~IsTrue(first)
             /\ \E w \in NewWatches(c) : watches' = [watches EXCEPT ![c] = w]
             /\ visit' = visit \ {c}
             /\ UNCHANGED <<trail, qhead, pc, confl>>
          \/ /\ ~IsTrue(first) /\ NewWatches(c) = {} /\ IsFalse(first)
             /\ confl' = c /\ pc' = "conflict"
             /\ qhead' = Len(trail) /\ visit' = {}
             /\ UNCHANGED <<watches, trail>>
          \/ /\ NewWatches(c) = {} /\ Undefined(first)
             /\ trail' = Append(trail, Entry(first, c))
             /\ visit' = visit \ {c}
             /\ UNCHANGED <<watches, qhead, pc, confl>>
    /\ UNCHANGED <<oracleVars, envVars, learnts, searchVars, ok, trail_lim>>

Propagated ==
    /\ pc = "propagate" /\ visit = {} /\ qhead = Len(trail)
    /\ pc' = IF call.op = "add" THEN "added" ELSE "search"
    /\ UNCHANGED <<oracleVars, envVars, dbVars, searchVars, ok, trail, trail_lim,
                   qhead, visit, confl>>

---------------------------------------------------------------------------
(* analyze *)

AboveLevel0(c) == {l \in c : Level(l) > 0}
OfLevel(c, n) == {l \in c : Level(l) = n}

(* Mutant: the literal resolved upon is forgotten with its reason.         *)
ResolveAway(c, e) ==
    IF Cardinality(OfLevel(c, decisionLevel)) = 1 \/ -e.lit \notin c THEN c
    ELSE c \ {-e.lit}

(* Going down the trail from its end: the negation of the literal is       *)
(* replaced by its reason until one literal of the last level is left.     *)
Resolve(c, e) ==
    IF Cardinality(OfLevel(c, decisionLevel)) = 1 \/ -e.lit \notin c THEN c
    ELSE AboveLevel0((c \ {-e.lit}) \cup (e.reason \ {e.lit}))

FirstUip ==
    LET resolved[i \in 1 .. Len(trail) + 1] ==
            IF i = Len(trail) + 1 THEN AboveLevel0(confl) ELSE Resolve(resolved[i + 1], trail[i])
    IN  resolved[1]

Asserting(c) == CHOOSE l \in c : Level(l) = decisionLevel

(* litRedundant: a literal of a lower level goes if everything in its      *)
(* reason is of level 0, in the clause, or redundant in the same way.      *)
(* Reasons are found earlier in the trail, so one way up it finds the      *)
(* positions the code reaches by going back from each literal.             *)
RedundantEntry(c, below, e) ==
    /\ e.reason # NoReason
    /\ \A q \in e.reason \ {e.lit} :
          Level(q) = 0 \/ q \in c \ {Asserting(c)} \/ Position(q) \in below

Redundant(c) ==
    LET upTo[i \in 0 .. Len(trail)] ==
            IF i = 0 THEN {}
            ELSE LET below == upTo[i - 1]
                 IN  IF RedundantEntry(c, below, trail[i]) THEN below \cup {i} ELSE below
    IN  upTo[Len(trail)]

Minimized(c) ==
    LET redundant == Redundant(c)
    IN  {l \in c : l = Asserting(c) \/ Position(l) \notin redundant}

BacktrackLevel(c) == Max({Level(l) : l \in c \ {Asserting(c)}} \cup {0})

(* A conflict above level 0: a clause is learnt, and the search goes back  *)
(* to the level where it implies a literal.                                *)
Learn ==
    /\ pc = "conflict" /\ decisionLevel > 0
    /\ LET learnt == Minimized(FirstUip)
            level == BacktrackLevel(learnt)
            unit == learnt = {Asserting(learnt)}
       IN  /\ trail' = Append(Kept(level), Entry(Asserting(learnt), IF unit THEN NoReason ELSE learnt))
           /\ trail_lim' = SubSeq(trail_lim, 1, level)
           /\ qhead' = Len(Kept(level))
           /\ IF unit THEN UNCHANGED dbVars
                 ELSE /\ learnts' = learnts \cup {learnt}
                      /\ \E second \in OfLevel(learnt, level) :
                            watches' = Attached(learnt, {Asserting(learnt), second})
    /\ conflictC' = conflictC + 1
    /\ confl' = {}
    /\ pc' = "propagate"
    /\ UNCHANGED <<oracleVars, envVars, assumptions, conflict, curr_restarts, max_learnts,
                   ok, visit>>

(* A conflict at level 0: the clauses have no model. *)
Refuted ==
    /\ pc = "conflict" /\ decisionLevel = 0
    /\ ok' = FALSE
    /\ confl' = {}
    /\ pc' = IF call.op = "add" THEN "inconsistent" ELSE "no model"
    /\ UNCHANGED <<oracleVars, envVars, dbVars, searchVars, trail, trail_lim, qhead, visit>>

---------------------------------------------------------------------------
(* search, without a conflict. *)

(* The size of the shortest Luby sequence that has index x, and its value  *)
(* there: 1 1 2 1 1 2 4 ...                                                *)
LubySize(x) == Min({n \in {2^k - 1 : k \in 1..(x + 1)} : n > x})

Luby[x \in Nat] ==
    IF x = LubySize(x) - 1 THEN (LubySize(x) + 1) \div 2
    ELSE Luby[x % ((LubySize(x) - 1) \div 2)]

RestartDue == conflictC >= Luby[curr_restarts] * restart_first

(* Mutant: restarts are not counted, the interval stays the same. *)
RestartUncounted ==
    /\ pc = "search" /\ RestartDue
    /\ CancelUntil0
    /\ conflictC' = 0
    /\ pc' = "propagate"
    /\ UNCHANGED <<oracleVars, envVars, dbVars, assumptions, conflict, curr_restarts,
                   max_learnts, ok, visit, confl>>

(* The end of search after its share of conflicts; solve_ calls it again.  *)
Restart ==
    /\ pc = "search" /\ RestartDue
    /\ CancelUntil0
    /\ curr_restarts' = curr_restarts + 1 /\ conflictC' = 0
    /\ pc' = "propagate"
    /\ UNCHANGED <<oracleVars, envVars, dbVars, assumptions, conflict, max_learnts,
                   ok, visit, confl>>

(* Mutant: trimming looks at the watched literals only. *)
TrimmedToWatches(c) == watches[c]

(* removeSatisfied: false literals that are not watched are taken out. *)
Trimmed(c) == c \ {l \in c \ watches[c] : IsFalse(l)}

Simplified ==
    LET kept == {c \in DOMAIN watches : \A l \in c : ~IsTrue(l)}
    IN  /\ watches' = [d \in {Trimmed(c) : c \in kept} |->
                          watches[CHOOSE c \in kept : Trimmed(c) = d]]
        /\ learnts' = {Trimmed(c) : c \in kept \cap learnts}
                         \ {Trimmed(c) : c \in kept \ learnts}
        /\ trail' = [i \in DOMAIN trail |-> Entry(trail[i].lit, NoReason)]

(* simplify, at level 0 only: whether it is time is a matter of counters.  *)
Simplify ==
    /\ pc = "search" /\ ~RestartDue
    /\ IF decisionLevel = 0 THEN Simplified \/ UNCHANGED <<dbVars, trail>>
                            ELSE UNCHANGED <<dbVars, trail>>
    /\ pc' = "reduceDB"
    /\ UNCHANGED <<oracleVars, envVars, searchVars, ok, trail_lim, qhead, visit, confl>>

(* reduceDB: learnt clauses go unless they are binary or locked; which of  *)
(* the others do depends on their activity.                                *)
ReduceDB ==
    /\ pc = "reduceDB"
    /\ IF 3 * (Cardinality(learnts) - Len(trail)) >= max_learnts
          THEN \E gone \in SUBSET {c \in learnts : Cardinality(c) > 2 /\ ~Locked(c)} :
                  /\ learnts' = learnts \ gone
                  /\ watches' = Restrict(watches, DOMAIN watches \ gone)
          ELSE UNCHANGED dbVars
    /\ pc' = "decide"
    /\ UNCHANGED <<oracleVars, envVars, searchVars, ok, trail, trail_lim, qhead, visit, confl>>

(* Mutant: reasons are not looked at. *)
JustifyNothing(seen, e) == seen

(* With a literal, those above level 0 that its reason needs. *)
Justify(seen, e) ==
    IF e.lit \notin seen THEN seen
    ELSE seen \cup {-l : l \in AboveLevel0(e.reason \ {e.lit})}

(* analyzeFinal: the literals seen on the way down the trail from literal  *)
(* p.  The decisions among them are assumptions that imply p.              *)
Justification(p) ==
    LET seen[i \in 1 .. Len(trail) + 1] ==
            IF i = Len(trail) + 1 THEN {p} ELSE Justify(seen[i + 1], trail[i])
    IN  seen[1]

FinalConflict(p) ==
    {p} \cup {-l : l \in {k \in Justification(p) : Level(k) > 0 /\ Reason(k) = NoReason}}

NewLevel(l) ==
    /\ trail_lim' = Append(trail_lim, Len(trail))
    /\ trail' = Append(trail, Entry(l, NoReason))
    /\ pc' = "propagate"

(* The next assumption: a level of its own even if it is true already. *)
Assume ==
    /\ pc = "decide" /\ decisionLevel < Len(assumptions)
    /\ LET p == assumptions[decisionLevel + 1]
       IN  \/ /\ IsTrue(p)
              /\ trail_lim' = Append(trail_lim, Len(trail))
              /\ UNCHANGED <<conflict, trail, pc>>
           \/ /\ IsFalse(p)
              /\ conflict' = FinalConflict(-p)
              /\ pc' = "no model"
              /\ UNCHANGED <<trail, trail_lim>>
           \/ Undefined(p) /\ NewLevel(p) /\ UNCHANGED conflict
    /\ UNCHANGED <<oracleVars, envVars, dbVars, assumptions, conflictC, curr_restarts,
                   max_learnts, ok, qhead, visit, confl>>

(* Mutant: the sign of the default polarity is mistaken. *)
DecisionsSwapped(c) ==
    CASE call.polarity = "true" -> {-c} [] call.polarity = "false" -> {c}
      [] call.polarity = "any" -> {c, -c}

(* The literals that pickBranchLit may choose for a constraint. *)
Decisions(c) ==
    CASE call.polarity = "true" -> {c} [] call.polarity = "false" -> {-c}
      [] call.polarity = "any" -> {c, -c}

Decide ==
    /\ pc = "decide" /\ decisionLevel >= Len(assumptions)
    /\ IF \E c \in Constraint : Undefined(c)
          THEN \E c \in {d \in Constraint : Undefined(d)} : \E l \in Decisions(c) : NewLevel(l)
          ELSE pc' = "model" /\ UNCHANGED <<trail, trail_lim>>
    /\ UNCHANGED <<oracleVars, envVars, dbVars, searchVars, ok, qhead, visit, confl>>

(* The end of solve_. *)
SolveReturns ==
    /\ pc \in {"model", "no model"}
    /\ O!Reply(IF pc = "model" THEN [kind |-> pc, model |-> Assigned \cap Constraint]
                               ELSE [kind |-> pc])
    /\ ok' = (ok /\ (pc = "no model" => conflict # {}))
    /\ CancelUntil0
    /\ pc' = "idle"
    /\ conflict' = {} /\ assumptions' = <<>>
    /\ conflictC' = 0 /\ curr_restarts' = 0 /\ max_learnts' = 0
    /\ UNCHANGED <<map, envVars, dbVars, visit, confl>>

Finished == pc = "idle" /\ toAdd = <<>> /\ solves = SolveBound /\ UNCHANGED solverVars

Next ==
    \/ AddClause \/ AddReturns \/ Solve
    \/ TakeLiteral \/ Visit \/ Propagated \/ Learn \/ Refuted
    \/ Restart \/ Simplify \/ ReduceDB \/ Assume \/ Decide \/ SolveReturns
    \/ Finished

Spec == Init /\ [][Next]_solverVars

(* The solver is one thread; its caller may stop calling. *)
FairSpec == Spec /\ WF_solverVars(pc # "idle" /\ Next)

---------------------------------------------------------------------------
(* Explorer may take the solver for a list of clauses: every answer is one *)
(* of MapOracle, a maximal (minimal) model under the polarity included,    *)
(* whatever was learnt, removed or trimmed during earlier queries.         *)
ImplementsOracle == O!Spec

Entails(cls, clause) ==
    \A f \in SUBSET Constraint :
        (\A c \in cls : O!HoldsAny(f, c)) => O!HoldsAny(f, clause)

(* analyze and litRedundant learn nothing that the clauses do not imply,   *)
(* under whichever assumptions and decisions it was learnt.                *)
OnlyImpliedLearnt == \A c \in learnts : Entails(map, c)

(* Trimming clauses and removing satisfied ones changes nothing: with the  *)
(* literals of level 0, the clauses in the solver (but the learnt ones)    *)
(* have the models of the clauses that were added.                         *)
ModelsKept ==
    LET fixed == {trail[i].lit : i \in {j \in DOMAIN trail : LevelAt(j) = 0}}
    IN  ok => O!ModelsOf(Clauses, fixed) = O!ModelsOf(map, {})

(* The purpose of the two watches: when the queue is empty, no clause is   *)
(* falsified and none has a single undefined literal left, also after a    *)
(* conflict has cut a round of visits short and after going back.          *)
NoMissedUnit ==
    pc \in {"search", "reduceDB", "decide", "model"} =>
        \A c \in DOMAIN watches :
            \/ \E l \in c : IsTrue(l)
            \/ Cardinality({l \in c : Undefined(l)}) >= 2

(* "Calculates the (possibly empty) set of assumptions that led to the     *)
(* assignment of 'p'": the final conflict consists of negated assumptions, *)
(* and the clauses imply it.  Only an empty one makes ok FALSE for good.   *)
FinalConflictImplied ==
    pc = "no model" /\ ok => /\ conflict \subseteq {-a : a \in ToSet(assumptions)}
                            /\ Entails(map, conflict)

(* Every call returns, in spite of restarts and of learnt clauses removed. *)
Termination == []<>(pc = "idle")
===========================================================================
