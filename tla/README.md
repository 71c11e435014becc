# A TLA+ model of unimus

The repository is `unimus`, a sequential C++ tool that enumerates the minimal
unsatisfiable subsets (MUSes) of a CNF formula online: it prints each MUS as
soon as it is found. This directory holds TLA+ modules of its own code
(`core/`, `algorithms/`, `satSolvers/`) and of the vendored solvers it rests on
(`custom_minisat/`, `mcsmus/`, `glucose/`), TLC configurations that model-check
them on small formulas, and proofs, checked by TLAPS, that hold for formulas of
every size.

## 1. The system

A run of the tool is one thread. `main` parses the options, the constructor of
`Master` chooses a SAT solver handle and parses the input, and
`Master::enumerate` hands over to one of four algorithms. They all talk to the
same parts.

| Part | State | Operations | Talks to |
|---|---|---|---|
| `BooleanSolver` (parse, encode) and its handles `MSHandle`, `GlucoseHandle`, `CadicalHandle` | `clauses`, `hard_clauses`, hit maps, flip edges | `solve` (with unsat core, with model extension), `critical_extension`, `criticals_rotation`, `shrink` | the vendored solvers, mcsmus, muser2 |
| `Explorer` | `mcses`, `critical`, `muses`, `mus_intersection`, `testedForCriticality`, and three incremental solvers over one variable per constraint | `block_down`, `block_up`, `get_unexplored`, `get_top_unexplored`, `getImplied`, `is_critical`, `isUnexplored` | `custom_minisat` |
| `Master` | `muses`, `uni`, statistics | `enumerate`, `shrink_formula`, `mark_MUS`, `block_down` | both of the above |
| mcsmus (`MUSSolver::find_mus`) | the constraints that may be removed, those found critical, clauses that block correction sets, the last model | one MUS out of a seed, by minimal correction sets and model rotation | `Explorer` (its correction sets), its own solver |
| `custom_minisat` | clause database, watches, trail, learnt clauses, limits | `addClause`, `solve` under assumptions | `Explorer` |
| `glucose` with preprocessing (`SimpSolver`) | clauses, occurrence lists, the queue and the heap of variables, what was eliminated | `addClause`, `eliminate`, `solve`, `extendModel` | `GlucoseHandle` |
| MARCO, TOME, ReMUS, UNIMUS | loop variables, recursion, rotation stack | `marco_base`, `find_all_muses_tome`, `find_all_muses_duality_based_remus`, `unimusRecMain` | `Master`, `Explorer` |

One cycle of every algorithm: ask `Explorer` for a subset of the constraints
that nothing is known about (a seed); ask the solver if it is satisfiable; if it
is, `block_down` rules out it and everything below it; if it is not,
`shrink_formula` reduces it to a MUS and `mark_MUS` rules out everything above
that. The enumeration is over when no subset is left.

What is hard in it is not concurrency (there is none) or failure (nothing is
persisted), but knowledge that is carried from one step to a much later one and
must still be right there: a constraint recorded as critical for one subset and
used for another, a clause of the map weakened because of constraints critical
at that time, knowledge gained between the moment a MUS is found and the moment
it is blocked, a recursion that abandons a subset early and must not lose MUSes.
The solvers below have the same problem on their own level: clauses learnt in
one query are used in the next, under other assumptions and with more clauses; a
variable is eliminated before one search and its value rebuilt after a much later
one; an extraction that throws an exception is replaced by another one that knows
only part of what the first had found.

### Components, their operations and what makes them correct

* **Input** (`BooleanSolver::parse`, `add_clause`). State: `clauses` (soft, one
  removable constraint each), `hard_clauses` (group 0 of a gcnf file), hit maps.
  Written once. Correct when every line of the file becomes one constraint.
* **Satisfiability** (`solve` of the handles). A query may replace its argument:
  by an unsatisfiable core, or by the set extended by what the model satisfies.
* **Critical constraints** (`critical_extension`, `criticals_rotation`,
  `Explorer::getImplied`). Cheap rules that declare constraints critical for a
  seed. Correct when the seed without such a constraint is satisfiable, because
  the shrinkers never test it again.
* **Explorer**. The map of unexplored subsets, in three solvers that get
  different parts of it (`solver` everything, `topSolver` the blocked MUSes,
  `botSolver` the blocked satisfiable sets). Correct when a query never returns
  an explored set, is maximal or minimal as its callers assume, and when nothing
  is lost although `block_up` leaves the known critical constraints out.
* **Master**. `shrink_formula` (collect criticals, two early returns, shrink,
  mining for more singleton correction sets) and `mark_MUS`. Correct when only
  MUSes are pushed on `muses`, and none twice.
* **MARCO, TOME, ReMUS, UNIMUS**. Correct when they report every MUS before they
  end, and do end: each carries partial knowledge (a bracket of a binary search,
  criticals handed down a recursion, a list of the MUSes of one rotation) and
  abandons work early (streaks, limits, heuristic skips).
* **Rotation** (`unimusRec_propagateToUnsat`, `unimusRec_propagateRefine`).
  Builds the seed of the next MUS by unit propagation. Correct when the seed is
  unsatisfiable, stays so after the refinement, and contains no known MUS.
* **Single MUS extraction** (`BooleanSolver::shrink`): `custom`, `extension`,
  `muser` (through files) and `default` (mcsmus, and muser2 when that throws).
  Correct when a MUS of the seed comes back.
* **mcsmus** (`--shrink default`). Correct when a constraint it declares critical
  is, also when rotation concludes that from a model or mining from a
  correction set of `Explorer`, and when its internal checks cannot fail.
* **Map solver** (`custom_minisat`). Correct when it answers like the set of
  clauses it was given: no watched literal is missed although levels come and
  go, what it learns is implied, its simplification loses no model, and it ends.
* **Glucose with preprocessing** (`--sat-solver glucose`). Correct when no query
  is answered differently because of what earlier ones eliminated.
* **cadical, muser2, tclap**, the search of glucose and the solvers below mcsmus.
  Vendored and not modelled.

`PROJECT.json` lists the hazards, each at its line, with the properties that
watch over it.

## 2. The modules

```
Cnf ── Explorer ── Master ──┬── Marco  ── MCMarco      MusEnumeration: what the tool
 │                          ├── Tome   ── MCTome       promises; Master states that it
 │                          ├── Remus  ── MCRemus      is implemented (EnumeratesMuses)
 │                          └── Unimus ── MCUnimus
 ├── Rotation ── MCRotation      implements the contract RotationSeeds used by Unimus
 ├── Shrink ──┬── MCShrink       implements the contract ShrinkResults used by Master
 ├── Mcsmus ──┴── SingleMus ── MCSingleMus    composed, with the exception between them;
 │      └── MCMcsmus                          implements Extraction
 └── SatOracle     implemented by    GlucoseHandle ── MCGlucoseHandle
                                         └── SimpSolver
MapOracle          implemented by    MapSolver ── MCMapSolver

MasterProofs ──┬── MarcoProofs       SingleMusProofs      (on SingleMus, Shrink, Mcsmus)
               ├── TomeProofs        MapSolverProofs      (on MapSolver)
               ├── RemusProofs       GlucoseHandleProofs  (on GlucoseHandle, SimpSolver)
               └── UnimusProofs      holds the proofs about Rotation too
```

Three of the modules are specifications of what a caller relies on, and nothing
else: `Extraction` (the seed shrinks and stays unsatisfiable while more of it is
known to be critical), `MapOracle` (the solver of a map answers like the set of
its clauses, with a maximal or minimal model according to the polarity) and
`SatOracle` (the answer about a subset depends on the subset alone).
`Cnf` and `Explorer` use the operators behind the last two (`Sat`, `Cores`,
`Extensions`; `TopUnexplored`, `BotUnexplored`) directly, as single steps.

| Module | Code | State and actions |
|---|---|---|
| `Cnf` | `BooleanSolver` (parse, critical rules), solver handles | A `Formula` (`vector<bool>`) is a set of constraints, a clause a set of literals, constraint *i* of the code is *i*+1. The file is a member of `Inputs`, chosen in `Parse`. `Sat`, `Extensions` and `Cores` are the three kinds of answer of `solve`: any model, any core. The work lists of the critical rules are replaced by the least closed set they compute. |
| `Explorer` | `Explorer.cpp` | The map as three sets of clauses over the constraints. `TopUnexplored`, `BotUnexplored`, `TopAbove` are all the maximal or minimal models, because the polarity of decisions in `custom_minisat` makes the model found one of these (module `MapSolver` shows it). `BlockDown`, `BlockUp`. `AfterAnd` models `a->addClause(..) && b->addClause(..)`: the second solver may miss the clause once the first has no model. |
| `Master` | `Master.cpp` | `pc` walks one call of `shrink_formula`: `CollectCrits` (with both early returns), `Shrink`, `Mine` (one candidate per step), `MineEnd`, then `MarkMus(next)`. Whether mining is worth it depends on measured times: any boolean. |
| `Marco` | `marco.cpp` | One action per branch of the loop. |
| `Tome` | `tome.cpp` | One action per branch of the loop and per recursive call of `local_mus`. |
| `Remus` | `remus.cpp` | The call stack is the variable `frames`, a frame holds the locals of a call (`subset`, `crits`, `streak`, `origin_top`, `crit_all`). The guards `depth > depthMUS` are those of the code, so that the recursion is one call deeper than the option says. |
| `Unimus` | `unimus2.cpp` | `unimusRecRefine`, `unimusRec` with its stack of calls, `unimusRec_mark_mus` with the rotation stack, `unimusRec_rotate_mus` one constraint per step. |
| `Rotation` | `unimus2.cpp` | One rotation: one action per literal taken from the queue and per clause visited; the refinement is the function `Dropped` from the last implication down. |
| `Shrink` | `BooleanSolver.cpp`, `SatSolver.cpp` | One action per turn of the deletion loops; the file for muser2 and its import. |
| `Mcsmus` | `mcsmus.cc`, the adapter `satSolvers/mcsmus.cpp` | `find_mus` with "mishmash" and minimal correction sets: refinement by the final conflict, growing a model into a correction set, `mcsRotate`, `modelRotate_` with its recursion (variable `stack`), blocking clauses, and the mining of criticals from `Explorer`. Known criticals are hard. Its internal solver is any model or any final conflict. |
| `SingleMus` | `BooleanSolver::shrink` | `Shrink` and an `INSTANCE` of `Mcsmus` with the `try`/`catch` between them: `McsmusThrows` may happen at every point of the extraction. |
| `MapSolver` | `custom_minisat/Solver.cc` | Two watched literals, propagation one watching clause at a time, first-UIP analysis with minimisation, backjumps, the final conflict, restarts, `reduceDB`, `simplify`, incremental clauses and assumptions. The order of decisions, visits and removals (activities) is arbitrary. |
| `SimpSolver` | `glucose/SimpSolver.cc` | `addClause`, the gathering of touched clauses, backward subsumption and strengthening, elimination with its limits, the stored clauses and `extendModel`. The search of `glucose/Solver.cc` is an oracle for a model or a final conflict. Queue and occurrence lists are sets, worked through in any order. |
| `GlucoseHandle` | `BooleanSolver::parse`, `GlucoseHandle.cpp` | `parse` line by line (groups, lines equal as text), the constructor that adds each constraint with a control variable, `solve` with core and with extension. |

Locals that are dead (after a return, before a call) are reset, so that states
that differ in them only are one state.

## 3. What the runs check

The inputs of the enumeration runs come from the eight clauses over two variables
(for `rotation`, from eight clauses over three), and a run starts from *every*
choice of `dimension` of them, in an order fixed by `Pool` (`unimus`: of those
with clause `{1}`, which renaming literals makes no restriction but for the
order). The runs of the solvers start from a few inputs chosen so that every
branch of the code is taken; the comments of their MC modules say which is for
what.

| Run | Question | Bounds |
|---|---|---|
| `marco` | MARCO enumerates exactly the MUSes (refinement of `MusEnumeration`), all MCSes too, makes progress each round, ends; with `--criticals-rotation` and with files that list a clause twice | 5 constraints |
| `marco_hard_implied` | the default options on gcnf files: **refuted** | 4 constraints, 1 or 2 hard clauses |
| `tome` | TOME: bracket of the search, tops that are blocked ungrown, unshrunk bottoms; gcnf files too, also contradictory ones, criticals not inferred (`-g`) | 5 constraints, up to 2 hard clauses |
| `remus` | ReMUS: inherited criticals, abandoned calls | 5 constraints, depth limit 1, streak 1 |
| `unimus` | UNIMUS: local MUSes suffice, inherited criticals, limits | 5 constraints, limits below |
| `rotation` | every rotation in every unsatisfiable cover, with every set of known MUSes that contains the rotated one | 6 constraints, 3 variables, at most one hard clause |
| `rotation_literal` | every constraint of a seed has a reason: **refuted** | 4 constraints |
| `single_mus` | `custom`, `extension`, `muser` and `default` (mcsmus, exceptions at every point) for every seed and every part of its criticals | 6 constraints, 3 variables, two formulas, one of them with a hard clause, at most 1 correction set in `Explorer` |
| `shrink_permuted` | the result of muser2 stays in the seed: **refuted** for repeated clauses | 4 constraints |
| `mcsmus_unit` | a conflict of one constraint is a MUS: **refuted** | 8 constraints, 4 variables |
| `map_solver` | the solver of a map answers like the set of its clauses, whatever came before | 5 constraints, ten clauses added at any time between 2 queries of three kinds, restart after the first conflict |
| `glucose` | parsing and preprocessing change no answer | 5 files, 3 variables, 4 constraints, 2 queries |

*Properties.* `EnumeratesMuses` is the refinement of `MusEnumeration`: nothing
but MUSes is reported, none twice, and the program ends only when all are.
`Termination` is the liveness half. The others look at what the result rests on:
`CritsAreCritical` and `InheritedCritsAreCritical` (criticals, also those carried
through a recursion), `WorkIsNew` (a seed or MUS is unexplored until it is
marked, whatever mining does in between), `BlockedDownAreMss`, `TopIsMss`,
`TopIsMssOfSubset` (the assumption "top is necessarily an MSS of subset" in the
comments of ReMUS and UNIMUS), `AllMcsesFound`, `RoundsExplore` (the variant of
the loop), `SearchBrackets` (TOME), `CoverHoldsLocalMusesOnly` (UNIMUS looks only
at the MUSes of the current cover, and that is enough), `SeedAsPromised` (a
rotation keeps the contract `Unimus` relies on), `KeptAreNeeded` and
`ReturnsMus` (the shrinkers).

For the parts below: `ImplementsExtraction` (nothing that is known to be critical
is ever dropped, also over an exception, and nothing becomes critical that could
be removed), `NeverFails` (mcsmus never throws one of its own exceptions),
`BlocksAreHarmless` (clauses that block a correction set stay in its solver for
good, but always hold a constraint found critical). `NoMissedUnit` (the invariant of two watched
literals, between the calls too), `OnlyImpliedLearnt` (learnt clauses depend on
no assumption), `ModelsKept` (simplification and the removal of learnt clauses
keep the models of the map), `FinalConflictImplied`; then `MapSolver` implements
`MapOracle`. `MusesKept` (what parsing makes of a file has the MUSes its lines
have), `EliminationReversible` (every model of what is left of the clauses can be
extended, by the stored ones, to a model of all of them); then `GlucoseHandle`
implements `SatOracle`.

*Why the bounds are enough to be interesting.* Five clauses over two variables
give inputs with several overlapping MUSes and correction sets of sizes one to
three. Mining needs three MUSes and starts (quota `n / 10`, that is 0 or so:
the loop still tries one or two candidates). The early return "fewer than three
apart" is always near, and the first shrink happens with known criticals.
Limits of the code that such inputs would never reach are constants, set low:
UNIMUS `mssLimit` 2 (50 in the code), `streakLimit` 1 (5), `rotationStreak` 2
(5), `rotationLimit` 3 (500, so that the shuffled order of candidates occurs);
ReMUS `streakLimit` 1 (10), `depthMUS` 1 and `dim_reduction` 60. These limits
only decide when work is abandoned, so a low one is the harder case. For a
rotation three variables are needed: a chain of implications, a boundary
variable and clauses that share literals.

`map_solver`: the first three clauses make a conflict over several levels, the
fourth a redundant literal in what is learnt from it; restarts come after one conflict (100 in
the code) and `max_learnts` is low, so that learnt clauses are removed in
the middle of a search. The clauses of positive and of negative literals are those of
`block_down` and `block_up`. `glucose`: an elimination may add no clause (the
default `growth`), a resolvent is at most three literals long (20), and of what a
search learns at most one clause of two literals is kept. In the file with contradictory
hard clauses either the constructor or the first elimination notices. Were they
contradictory in a way that only a search can find, the handle would read a
conflict left from an earlier query; the hazard list names the line.

*Fairness.* The enumeration algorithms, the rotation and the shrinkers are checked
with weak fairness of their whole next-state relation. The program is one thread
that always has a next statement, and its solver calls are assumed to return; no
particular branch is assumed to be taken. For the solvers it is narrower: a call
under way goes on, but the caller may stop asking. That a call ends although decisions,
restarts and removals come in any order is what `Termination` checks there. In
terminal states (`Ended`, `Returned`) the program has stopped, which is a
stuttering action, so TLC's deadlock check is on and finds any state in which the
code would have no way to go on.

*Mutants.* Each property of each passing run has a mutant of a modelled
operator (a wrong polarity, a forgotten sign, a rule that is too generous, ...)
that violates it under the same bounds; they are defined right before what they
mutate.

## 4. What is proved

Eight modules hold proofs, for every number of variables and constraints and
every set of inputs.

**The four algorithms** (`MarcoProofs`, `TomeProofs`, `RemusProofs`,
`UnimusProofs`, on `MasterProofs`). Hypothesis `PlainInputs`: if
criticals are inferred (`get_implies`), there are no hard clauses;
`marco_hard_implied` shows that it is needed. Each module has a theorem
`EnumerationCorrect`: the algorithm implements `MusEnumeration`, for every depth,
streak and limit. The other theorems state the invariants the runs check.

None of these is inductive by itself. What all algorithms share is in
`MasterProofs`, the invariant `MasterInv` with three parts.
`MapInv`: the clauses of `solver` are exactly the correction sets in `mcses` and
one clause for each blocked MUS, which may lack constraints critical *by now*.
`CallInv`: the arguments of `shrink_formula` are an unexplored unsatisfiable set
and criticals of it, its result is an unexplored MUS in the seed. `ReportInv`:
what is in `muses` is what is blocked up, plus the one MUS that is not yet marked.
From these: a subset that contains a MUS and violates a weakened clause lacks a
critical constraint or contains that MUS (`UnsatPartUnexplored`), so an exhausted
map means that every MUS is known; and an unexplored set contains no known MUS
(`UnblockedIsUnexplored`, `BlockedIsExplored`), so none is reported twice.
That the critical rules are right is `FlipModel`: turning one literal of the
constraint left out makes a model of all but the one constraint it falsifies.
The mining loop is covered: it only changes the map in ways that keep the new
MUS unexplored (`MineStep`). The step of the refinement is there too: `Visible`
says how a step may look from outside, `VisibleImplements` that such a step is one
of `MusEnumeration` or a stutter, and each algorithm shows that its steps keep its
invariant and are `Visible`. What each adds:

* MARCO: that a round which grows or shrinks a set blocks one that was unexplored
  (`RoundsMakeProgress`), and that all sets blocked down are MSSes.
* TOME: the second solver misses a clause only when the map has no model any more
  (`TopSolverInv`), so that before the end the set between an unexplored bottom
  and an unexplored top is unexplored (`UnexploredBetween`); taking half of the
  missing constraints really takes half (`FirstOfSize`), so the search hits
  distance one exactly; an unsatisfiable minimal unexplored set is a MUS
  (`BotIsMus`), because sets below it are blocked down.
* ReMUS: the call stack. The criticals of each call are critical for its subset,
  the set its loop recurses into is satisfiable, and the outermost call is for
  all constraints. A maximal unexplored set of a subset which is satisfiable is an
  MSS of it whatever was blocked in between (`TopCannotGrow`): this makes the one
  constraint it misses critical (`AfterMssInv`).
* UNIMUS: `CoverInv`. A cover is unexplored when it is chosen, so no known MUS lies
  in it; from then on each MUS that is found lies in it and is added to the local
  ones. A seed that contains no local MUS therefore contains no reported one, and
  an unsatisfiable set that contains no reported MUS is unexplored although
  clauses of the map were weakened (`NoKnownMusIsUnexplored`,
  `RotationSeedIsNew`).

**Single MUS extraction** (`SingleMusProofs`). First the three loops by
themselves (`InvariantHolds`, `LoopCorrect` and `ShrinkCorrect`, about `Spec` of
`Shrink`). Hypothesis `ShrinkInputs`: no hard clauses with
`extension`, and with `muser` no clause is listed twice. They return a MUS that
contains the criticals they were given and stays in the seed. The point is that
`extension` propagates in the *original* seed `f` while `s` is smaller. The
invariant says that `crits` is critical for `s`: a constraint critical for `s`
alone need not be critical for `f`, but a flip that falsifies one constraint of
`f` falsifies at most that one of `s`, and `s` is unsatisfiable, hence it
falsifies exactly that one (`PropagationSound`).

Then whole calls with mcsmus and the fallback after an exception (`CallSpec` of
`SingleMus`). `McsmusInv` is inductive without any hypothesis on the file. It says
that the hard clauses with the criticals found and what is left of the conflict
(`crits`, `conflict` of `Mcsmus`) are unsatisfiable, and that each critical is
one. Both conclusions that mcsmus draws without its solver are covered. A model
that falsifies, of all these, one constraint alone makes that one critical: this
justifies rotation and its recursion, where the invariant keeps one such model
for each entry of the stack. A correction set of `Explorer` that holds one
constraint of the conflict and no critical one makes it critical: a set known to
be satisfiable contains all the others. The exceptions are impossible
(`McsmusNeverFails`), because a correction set that was empty would be a model of
an unsatisfiable set, and because of a *minimal* correction set one constraint stays,
as a critical one: no model satisfies what is left together with it
(`Minimal`). A block in the solver can hurt a later check only while none of
its constraints is hard; `McsmusBlocksHarmless` says that one always is when a
correction set is looked for, so every model of the hard clauses satisfies it.
`CallCorrect`, `CallLoopCorrect` and `CallImplementsExtraction` are about every
value of `--shrink` and an exception at any point. Hypothesis `CallInputs`: no
clause is listed twice (the fallback is muser2, run `shrink_permuted`), no hard
clauses with `extension`. For `default`, the first and the third need `Prepared`
too: the conflict that preprocessing leaves has another size than one, or the
given criticals are satisfiable with the hard clauses. `Prepared` excludes
exactly what run `mcsmus_unit` shows to go wrong.
`ShrinkResults`, the contract that `Master` uses, is thereby justified for
all four algorithms.

**Rotation** (second part of `UnimusProofs`). No
hypothesis: hard clauses are allowed.
`SeedCorrect` is the contract `RotationSeeds` that the proofs about UNIMUS use, so
the two together reach from the single propagation step to the list of MUSes.
While literals are propagated, the invariant `PropagationInv` says of every clause
that is neither satisfied nor `c1` how many of its variables have no value (that
is `lits_left`, less one while the clause waits for its visit), that each of its other
literals is false by an entry of `implied` (`SoftCounts`, `HardCounts`), that each
entry's clause was unit by earlier entries, and that no clause implies twice
(`ImpliedInv`, `UsedUp`). Two facts about the refinement then suffice: an entry
that a kept clause needs is kept itself (`NeededIsKept`; here no clause may imply
twice, or one entry of it could drop what another one needs), so by
induction over the entries a model of what is left would make all their literals
true (`KeptLiteralsTrue`) and falsify the last clause, which is never dropped. Such
a model falsifies `c1`, because together with the rest of `m1`, which is not
dropped either, it would satisfy `m1`. That the code never propagates the literal
of finding 2 does no harm: the constraint joins the seed without an entry, and what has
no entry is not dropped.

**The solver of the map** (`MapSolverProofs`). `SolverImplementsOracle`:
`MapSolver` implements `MapOracle`, for every number of constraints, every list of
clauses without tautologies (`block_down` and `block_up` make none) and every
list of queries. The invariant `Inv` has these parts besides the types:

* `TrailSound`: levels are ordered, no variable is assigned twice, a reason is
  implied by the clauses and all its other literals are false by *earlier*
  entries, what level 0 holds is implied, the first literal of a level is the
  assumption of that level or a decision of the polarity asked for.
* `QueueOfLastLevel`: what has not been propagated is of the last level. Without
  it a backjump could cut off a visit that is never made up for.
* `ClausesSound`: every clause in the solver follows from those added and watches
  two of its literals.
* `WatchesSound`: once a false watch has been visited, a literal of the
  clause is true at its level or an earlier one. This is what survives going back
  to any level, and `NoMissedUnit`, which says nothing of levels, is not inductive
  without it.
* `NothingLost`: a clause that was added is satisfied at level 0 or contains a
  clause of the solver that is not a learnt one. Removing satisfied
  clauses, trimming and `reduceDB` keep it; that `addClause` drops false literals is
  why a clause of the solver is only *contained* in the one added.
* `ConflictFalse`, `CallInProgress`, `AnswerKnown`: the clause found falsified, the
  call, and what has been shown when an answer is about to be given.

Conflict analysis is a walk down the trail, `litRedundant` one up: recursive
functions over positions of the trail, so that what they compute follows by
induction over these positions (`FirstUipSteps` and `RedundantSteps` give the
equations, `FirstUipSound`, `MinimizedSound` and `FinalConflictSound` the results:
the clause is implied, all its literals are false and exactly one
is of the last level). Models are maximal or minimal (`ModelPreferred`)
although decisions take any order and learnt clauses set literals against the
polarity: for another model that is larger (polarity "true"), consider the
first entry of the trail with which it disagrees (`NoFirstDifference`). It is not
an assumption and not of level 0; a decision made it true, and the larger model
has it; and a reason forces it, as all earlier entries agree.

The proof corrected the model in one place. A clause that was learnt and
is then added by `Explorer` stays in the set of the learnt ones if `AddClause` only
extends the clause set, and `reduceDB` could forget it; in the code the two are two
clauses. `AddClause` now takes it out of `learnts`.

**Glucose** (`GlucoseHandleProofs`). From the lines of the file to the answers,
for every list of files and checks and every bound of the elimination; the assumptions
on the constants are about their kinds and that `dimension` is what parse counts.

* `ParsingKeepsMuses`. `ReadInv` says what the first lines of the file
  leave in the maps. Lines are numbered and may repeat, constraints are not: choosing one
  number for each clause gives the same minimal sets (`LabelledMuses`), and a soft line
  that is hard as well is in no MUS, so that dropping it, which parse does only
  when the hard line comes first, changes nothing (`HardIsRedundant`).
* `EliminationIsReversible`. `EliminationReversible` itself speaks of all that the
  solver keeps, which an elimination changes in several steps; inductive is
  `Reversible`: any model of the clauses left and of the level-0 units *whose variable
  has not been eliminated* (`Core`) extends to one of all clauses added. While one
  variable is being eliminated, `Resolving` says that each resolvent of its old
  clauses is among those still to be added or already follows from the rest. A
  model that satisfies all resolvents can be turned into one of the old clauses by
  the value that `extendModel` picks (`RebuiltSatisfiesOld`), and picking values never
  breaks a clause that holds (`RebuiltKeepsModels`). `Sound` is the other
  direction: clauses, learnt clauses and units are implied by those added.
* `AnswersLikeOracle`. Every call freezes all control variables, so that none is ever
  eliminated, and no clause mentions one negatively (`OnlyPositiveControls`): resolution
  on another variable cannot change that, a final conflict can therefore speak only
  of constraints that are switched on, and the extended model agrees with the
  assumptions. Unit propagation is a function of the number of the round,
  `PropagatedSound` is an induction over rounds. Hypothesis `CoresMakeSense`: where
  cores are asked for, the hard clauses have a model, or two of them are opposite
  units, which the constructor notices (`ContradictionSeen`). Otherwise `eliminate`
  may find the contradiction and return with `conflict` still that of an earlier
  check. The algorithms ask for cores of sets they go on to shrink, and a MUS of
  contradictory hard clauses is empty; so the hypothesis excludes only inputs for
  which the tool has nothing to find. The other two theorems do not need it.

**Only model-checked.** Liveness: `Termination` of all runs and `PropagationEnds` of
the rotation need fairness, which this prover does not handle; for the solver of
the map termination moreover needs an order on trails that grows with every conflict
between two restarts. `RoundsMakeProgress` is the safety half of the argument for
MARCO. Every other property of a run that passes is stated by a theorem.

## 5. Findings

1. `critical_extension` and `critical_propagation` ignore hard clauses, so that
   on gcnf input constraints which are not critical are declared critical (run
   `marco_hard_implied`). The shrinkers trust them, and the sets they
   report need not be minimal. `-g` avoids it in `shrink_formula`
   (run `tome`), but not in `--shrink extension`, which uses the same rule.
2. The loop that looks for the literal of a unit clause in a rotation compares
   with `vars` where activation literals start at `vars + 1` (run
   `rotation_literal`): the positive literal of the last variable is never
   propagated. Seeds remain right (run `rotation`), but may be larger or missed.
3. The import from muser2 identifies constraints by their literals, while the
   parser only drops lines that are equal as text (run `shrink_permuted`).

4. mcsmus takes a conflict of one constraint for a MUS (`mcsmus.cc:517`) and does
   not test whether the hard clauses, among them the known criticals, are
   unsatisfiable alone (run `mcsmus_unit`). Unit propagation of the hard clauses
   is done before, so they must be contradictory in a way that it does not find,
   and at least three constraints must not be known to be critical. The compiled
   code does this for the hard clauses {5}, {-5,1,2}, {-5,1,-2}, {-5,-1,2},
   {-5,-1,-2} and the constraints {5,3}, {5,4}, {3}.

A remark that is not a finding: the guards of ReMUS allow one more level than
`--max-recursion-depth`.

## 6. What is not modelled

* The spelling of the input: white space, blank lines, a clause over several lines,
  a missing 0 at its end. Groups and repeated lines are modelled.
* The search of glucose and of the solvers below mcsmus (`glucose/Solver.cc` and
  `mcsmus/{glucose,minisat}`): any model, any final conflict, any implied clause.
  They are variants of the search that `MapSolver` has in full. Of
  `SimpSolver`: asymmetric branching, `rcheck` and substitution, which are off.
* The algorithms of mcsmus that the adapter does not select, its other kinds of
  rotation and its own options; garbage collection, activities and statistics of all solvers.
* cadical (only the answers its handle reads), muser2 (a binary that is called).
* The debugging code behind `DBG` (in the import, it creates entries of
  `clauses_map`), statistics, output and the command line. What the debugging
  checks and `--verify-muses` test is stated as properties instead.
* Operations of `Explorer` that no algorithm calls, and time limits: a run that
  is stopped early is a prefix of a run.

These vendored solvers are most of the lines of the repository, which is why only
a part of all lines has a counterpart here; of `core/`, `algorithms/` and
`satSolvers/` nearly all that changes state has.

## 7. Plan

Done: the core (`Cnf`, `Explorer`, `Master`, `Marco`), the other algorithms, the
rotation and the shrinkers as models; the solver of the map, mcsmus with its
fallback, parsing and glucose's preprocessing, each against what its caller relies
on; proofs of all four algorithms, of the rotation, of single MUS extraction with
all its algorithms, and of the solver of the map and the handle of glucose with
the refinements of what their callers rely on.

Next: the work lists of `critical_extension` and `criticals_rotation`,
shown to compute the least closed sets of `Cnf`.
