---------------------------- MODULE TomeProofs -----------------------------
(***************************************************************************)
(* TOME is proved to enumerate the MUSes of every input, and its binary    *)
(* search to end at a set that is unsatisfiable and barely so.             *)
(***************************************************************************)
EXTENDS Tome, MasterProofs

(* Of every set of constraints a first one can be taken.                   *)
LEMMA FirstExists ==
    ASSUME NEW f \in SUBSET Constraint, f # {}
    PROVE  \E c \in f : \A d \in f : c <= d
<1> DEFINE UpTo(c) == {d \in f : d <= c}
           T == {UpTo(c) : c \in f}
<1>1. T \in SUBSET SUBSET Constraint /\ T # {}
  OBVIOUS
<1>2. PICK u : u \in Minimal(T)
  <2> HIDE DEF T
  <2>1. QED
    BY <1>1, MinimalExists
<1>3. PICK c \in f : u = UpTo(c)
  BY <1>2 DEF Minimal
<1>4. ASSUME NEW d \in f, d < c PROVE FALSE
  <2>1. UpTo(d) \in T /\ UpTo(d) \subseteq u
    BY <1>3, <1>4, ConstraintsFinite
  <2>2. UpTo(d) = u
    BY <1>2, <2>1 DEF Minimal
  <2>3. c \in u /\ c \notin UpTo(d)
    BY <1>3, <1>4, ConstraintsFinite
  <2>4. QED
    BY <2>2, <2>3
<1>5. QED
  BY <1>4, ConstraintsFinite

(* FirstOf(f, k) has k elements, if f has that many.                       *)
LEMMA FirstOfSize ==
    ASSUME NEW f \in SUBSET Constraint, NEW k \in Nat, k <= Cardinality(f)
    PROVE  FirstOf(f, k) \subseteq f /\ Cardinality(FirstOf(f, k)) = k
<1> DEFINE Closed(g) == \A c \in g : \A d \in f : d < c => d \in g
           T == {g \in SUBSET f : Closed(g) /\ Cardinality(g) <= k}
<1>1. PICK g : g \in Maximal(T)
  <2>1. {} \in T
    BY FS_EmptySet
  <2>2. T \in SUBSET SUBSET Constraint
    OBVIOUS
  <2> HIDE DEF T
  <2>3. QED
    BY <2>1, <2>2, MaximalExists
<1>2. g \in SUBSET f /\ Closed(g) /\ Cardinality(g) <= k
  BY <1>1 DEF Maximal
<1>3. /\ f \subseteq Int /\ IsFiniteSet(f) /\ Cardinality(f) \in Nat
      /\ IsFiniteSet(g) /\ Cardinality(g) \in Nat
  BY <1>2, ConstraintsFinite
<1>4. Cardinality(g) = k
  <2> SUFFICES ASSUME Cardinality(g) < k PROVE FALSE
    BY <1>2, <1>3
  <2>1. f \ g # {}
    <3>1. ASSUME f = g PROVE FALSE
      BY <1>3, <3>1
    <3>2. QED
      BY <1>2, <3>1
  <2>2. PICK c \in f \ g : \A d \in f \ g : c <= d
    BY <2>1, FirstExists
  <2>3. Closed(g \cup {c})
    BY <1>2, <1>3, <2>2
  <2>4. Cardinality(g \cup {c}) <= k
    <3>1. Cardinality(g \cup {c}) = Cardinality(g) + 1
      BY <1>3, <2>2, FS_AddElement
    <3>2. QED
      BY <1>3, <3>1
  <2>5. g \cup {c} \in T
    BY <1>2, <2>2, <2>3, <2>4
  <2>6. QED
    BY <1>1, <2>2, <2>5 DEF Maximal
<1>5. ASSUME NEW c \in g PROVE Cardinality({d \in f : d < c}) < k
  <2> DEFINE below == {d \in f : d < c}
  <2>1. ASSUME NEW d \in f, d < c PROVE d \in g /\ d # c
    BY <1>2, <1>3, <2>1
  <2>2. below \subseteq g \ {c}
    BY <2>1
  <2>3. IsFiniteSet(g \ {c}) /\ Cardinality(g \ {c}) = k - 1
    BY <1>3, <1>4, FS_RemoveElement
  <2>4. Cardinality(below) <= k - 1
    BY <2>2, <2>3, FS_Subset
  <2>5. Cardinality(below) \in Nat
    BY ConstraintsFinite
  <2>6. QED
    BY <2>4, <2>5
<1>6. ASSUME NEW c \in f \ g PROVE ~(Cardinality({d \in f : d < c}) < k)
  <2> DEFINE below == {d \in f : d < c}
  <2>1. g \subseteq below
    BY <1>2, <1>3, <1>6
  <2>2. IsFiniteSet(below) /\ Cardinality(below) \in Nat
    BY ConstraintsFinite
  <2>3. Cardinality(g) <= Cardinality(below)
    BY <2>1, <2>2, FS_Subset
  <2>4. QED
    BY <1>4, <2>2, <2>3
<1>7. FirstOf(f, k) = g
  BY <1>2, <1>5, <1>6 DEF FirstOf
<1>8. QED
  BY <1>2, <1>4, <1>7

---------------------------------------------------------------------------
ControlPoints == {"start", "loop", "search", "collect", "shrink", "mine", "mark", "mss",
                  "done", "exit"}

(* The solver of the tops may miss a clause of block_up, but only once the *)
(* map has no model at all, when nothing is asked of it any more.          *)
TopSolverInv ==
    /\ topSolver \subseteq solver
    /\ Consistent(solver) => solver \subseteq mcses \cup topSolver

Inv ==
    /\ MasterInv
    /\ TopSolverInv
    /\ pc \in ControlPoints
    /\ bot \in SUBSET Constraint /\ top \in SUBSET Constraint /\ diff \in Int
    /\ pc \in InCall \cup {"search", "mss"} => Sat(bot)
    /\ SearchBrackets

LEMMA ConsistentMonotone ==
    ASSUME NEW map, NEW larger, map \subseteq larger, Consistent(larger)
    PROVE  Consistent(map)
BY DEF Consistent, SatisfiesAll

LEMMA TopSolverStep ==
    ASSUME TopSolverInv,
           \/ UNCHANGED <<mcses, solver, topSolver>>
           \/ \E f : BlockDown(f)
           \/ \E f : BlockUp(f)
    PROVE  TopSolverInv'
<1>1. \A map : Consistent(map)' <=> Consistent(map)
  BY DEF Consistent, SatisfiesAll, Satisfies, LitTrue
<1>2. CASE UNCHANGED <<mcses, solver, topSolver>>
  BY <1>1, <1>2 DEF TopSolverInv, Consistent, SatisfiesAll, Satisfies, LitTrue
<1>3. ASSUME NEW f, BlockDown(f) PROVE TopSolverInv'
  <2>1. Consistent(solver') => Consistent(solver)
    BY <1>3, ConsistentMonotone DEF BlockDown
  <2>2. QED
    BY <1>3, <2>1 DEF TopSolverInv, BlockDown, Consistent, SatisfiesAll, Satisfies, LitTrue
<1>4. ASSUME NEW f, BlockUp(f) PROVE TopSolverInv'
  <2>1. Consistent(solver') => Consistent(solver)
    BY <1>4, ConsistentMonotone DEF BlockUp
  <2>2. Consistent(solver') => topSolver' = topSolver \cup {UpClause(f)}
    BY <1>4 DEF BlockUp, AfterAnd
  <2>3. topSolver' \subseteq topSolver \cup {UpClause(f)}
    BY <1>4 DEF BlockUp, AfterAnd
  <2>4. QED
    BY <1>4, <2>1, <2>2, <2>3
       DEF TopSolverInv, BlockUp, Consistent, SatisfiesAll, Satisfies, LitTrue
<1>5. QED
  BY <1>2, <1>3, <1>4

(* What a turn of the loop starts from: a minimal unexplored set b and a   *)
(* maximal set t over it that contains no blocked MUS.                     *)
LEMMA BotAndTop ==
    ASSUME MasterInv, TopSolverInv, NEW b \in BotUnexplored, NEW t \in TopAbove(b)
    PROVE  /\ b \subseteq t /\ t \in SUBSET Constraint /\ Unexplored(b)
           /\ ~Sat(t) => Unexplored(t)
<1>1. b \in SUBSET Constraint /\ Unexplored(b)
  BY DEF BotUnexplored, Minimal, UnexploredSets
<1>2. b \subseteq t /\ t \in SUBSET Constraint /\ SatisfiesAll(t, topSolver)
  BY DEF TopAbove, Maximal
<1>3. ASSUME ~Sat(t), NEW cl \in solver PROVE Satisfies(t, cl)
  <2>1. Consistent(solver)
    BY <1>1 DEF Consistent, Unexplored
  <2>2. cl \in mcses \/ cl \in topSolver
    BY <2>1 DEF TopSolverInv
  <2>3. QED
    BY <1>2, <1>3, <2>2, UnsatMeetsMcs DEF MasterInv, MapInv, SatisfiesAll
<1>4. QED
  BY <1>1, <1>2, <1>3 DEF Unexplored, SatisfiesAll

(* A minimal unexplored set that is unsatisfiable is a MUS as it is.       *)
LEMMA BotIsMus ==
    ASSUME MasterInv, NEW b \in BotUnexplored, ~Sat(b)
    PROVE  IsMus(b)
<1>1. b \in SUBSET Constraint /\ Unexplored(b)
  BY DEF BotUnexplored, Minimal, UnexploredSets
<1>2. ASSUME NEW c \in b PROVE Sat(b \ {c})
  <2> DEFINE g == b \ {c}
  <2>1. g \in SUBSET Constraint /\ ~Unexplored(g)
    BY <1>1 DEF BotUnexplored, Minimal, UnexploredSets
  <2>2. PICK cl \in solver : ~Satisfies(g, cl)
    BY <2>1 DEF Unexplored, SatisfiesAll
  <2>3. CASE cl \in mcses
    <3>1. cl \in SUBSET Constraint /\ Sat(Constraint \ cl)
      BY <2>3 DEF MasterInv, ExplorerTypeOK, MapInv, DownSound
    <3>2. g \subseteq Constraint \ cl
      BY <2>1, <2>2, <3>1, MapClauseMeaning
    <3>3. QED
      BY <3>1, <3>2, SatMonotone
  <2>4. ASSUME NEW m \in blocked_muses, NEW K \in SUBSET critical, cl = Weakened(m, K)
        PROVE  FALSE
    <3>1. m \in SUBSET Constraint
      BY DEF MasterInv, ExplorerTypeOK
    <3>2. m \ K \subseteq g
      BY <2>1, <2>2, <2>4, <3>1, MapClauseMeaning
    <3>3. ~(m \ K \subseteq b)
      BY <1>1, <2>4, <3>1, MapClauseMeaning DEF Unexplored, SatisfiesAll
    <3>4. QED
      BY <3>2, <3>3
  <2>5. QED
    BY <2>2, <2>3, <2>4 DEF MasterInv, MapInv, MapClauses
<1>3. QED
  BY <1>1, <1>2 DEF IsMus

(* A top that is satisfiable is an MSS, though it is not asked to miss the *)
(* sets that were blocked down.                                            *)
LEMMA SatTopIsMss ==
    ASSUME MasterInv, TopSolverInv, NEW b \in BotUnexplored, NEW t \in TopAbove(b), Sat(t)
    PROVE  IsMss(t)
<1>1. b \subseteq t /\ t \in SUBSET Constraint /\ b \in SUBSET Constraint /\ Unexplored(b)
  BY BotAndTop DEF BotUnexplored, Minimal, UnexploredSets
<1>2. critical \subseteq t
  BY <1>1, CriticalInUnexplored DEF MasterInv
<1>3. ASSUME NEW c \in Constraint \ t, Sat(t \cup {c}) PROVE FALSE
  <2> DEFINE g == t \cup {c}
  <2>1. g \in SUBSET Constraint /\ b \subseteq g
    BY <1>1
  <2>2. PICK cl \in topSolver : ~Satisfies(g, cl)
    BY <2>1 DEF TopAbove, Maximal, SatisfiesAll
  <2>3. Satisfies(t, cl)
    BY DEF TopAbove, Maximal, SatisfiesAll
  <2>4. CASE cl \in mcses
    <3>1. cl \in SUBSET Constraint
      BY <2>4 DEF MasterInv, ExplorerTypeOK
    <3>2. t \cap cl # {} /\ g \cap cl = {}
      BY <1>1, <2>1, <2>2, <2>3, <3>1, MapClauseMeaning
    <3>3. QED
      BY <3>2
  <2>5. ASSUME NEW m \in blocked_muses, NEW K \in SUBSET critical, cl = Weakened(m, K)
        PROVE  FALSE
    <3>1. m \in SUBSET Constraint /\ ~Sat(m)
      BY DEF MasterInv, MapInv, UpSound, IsMus
    <3>2. m \ K \subseteq g
      BY <2>1, <2>2, <2>5, <3>1, MapClauseMeaning
    <3>3. m \subseteq g
      BY <1>2, <3>2
    <3>4. QED
      BY <1>3, <3>1, <3>3, SatMonotone
  <2>6. QED
    BY <2>4, <2>5 DEF TopSolverInv, MasterInv, MapInv, MapClauses
<1>4. QED
  BY <1>1, <1>3 DEF IsMss

(* Between two unexplored sets there are only unexplored ones.             *)
LEMMA UnexploredBetween ==
    ASSUME MasterInv, NEW f \in SUBSET Constraint, NEW g \in SUBSET f, NEW h \in SUBSET g,
           Unexplored(f), Unexplored(h)
    PROVE  Unexplored(g)
<1> SUFFICES ASSUME NEW cl \in solver PROVE Satisfies(g, cl)
  BY DEF Unexplored, SatisfiesAll
<1>1. Satisfies(f, cl) /\ Satisfies(h, cl)
  BY DEF Unexplored, SatisfiesAll
<1>2. CASE cl \in mcses
  <2>1. cl \in SUBSET Constraint
    BY <1>2 DEF MasterInv, ExplorerTypeOK
  <2>2. h \cap cl # {}
    BY <1>1, <2>1, MapClauseMeaning
  <2>3. g \cap cl # {}
    BY <2>2
  <2>4. QED
    BY <2>1, <2>3, MapClauseMeaning
<1>3. ASSUME NEW m \in blocked_muses, NEW K \in SUBSET critical, cl = Weakened(m, K)
      PROVE  Satisfies(g, cl)
  <2>1. m \in SUBSET Constraint
    BY DEF MasterInv, ExplorerTypeOK
  <2>2. ~(m \ K \subseteq f)
    BY <1>1, <1>3, <2>1, MapClauseMeaning
  <2>3. QED
    BY <1>3, <2>1, <2>2, MapClauseMeaning
<1>4. QED
  BY <1>2, <1>3 DEF MasterInv, MapInv, MapClauses

---------------------------------------------------------------------------
(* The steps of TOME. *)

LEMMA InitInv ==
    ASSUME PlainInputs, Init
    PROVE  Inv
<1>1. MasterInv
  BY InitMasterInv DEF Init
<1>2. TopSolverInv
  BY DEF Init, ExplorerInit, TopSolverInv
<1>3. QED
  BY <1>1, <1>2 DEF Inv, Init, MasterInit, ControlPoints, SearchBrackets, InCall

LEMMA StartStep ==
    ASSUME Inv, Start
    PROVE  Inv' /\ Visible
<1>1. TopSolverInv'
  BY TopSolverStep DEF Start, Enumerate, Inv, explorerVars
<1>2. MasterInv' /\ UNCHANGED muses /\ pc' \in {"loop", "exit"}
      /\ (pc' = "exit" => AllMuses \subseteq Reported)
  BY EnumerateStep DEF Start, Inv
<1>3. QED
  BY <1>1, <1>2 DEF Start, Enumerate, Inv, ControlPoints, InCall, SearchBrackets,
     Visible, Over, searchVars

LEMMA MapExhaustedStep ==
    ASSUME Inv, MapExhausted
    PROVE  Inv' /\ Visible
<1>1. UnexploredSets = {}
  <2>1. UnexploredSets \in SUBSET SUBSET Constraint
    BY DEF UnexploredSets
  <2>2. QED
    BY <2>1, MinimalExists DEF MapExhausted, BotUnexplored
<1>2. MasterInv' /\ AllMuses \subseteq Reported
  BY <1>1, ControlStep, ExhaustedIsComplete DEF MapExhausted, Inv, InCall
<1>3. TopSolverInv'
  BY TopSolverStep DEF MapExhausted, Inv, explorerVars
<1>4. QED
  BY <1>2, <1>3 DEF MapExhausted, Inv, ControlPoints, InCall, SearchBrackets,
     Visible, Over, searchVars

LEMMA TopSatisfiableStep ==
    ASSUME Inv, TopSatisfiable
    PROVE  Inv' /\ Visible
<1>1. PICK b \in BotUnexplored : \E t \in TopAbove(b) : Sat(t) /\ BlockDown(t)
  BY DEF TopSatisfiable
<1>2. PICK t \in TopAbove(b) : Sat(t) /\ BlockDown(t)
  BY <1>1
<1>3. t \in SUBSET Constraint
  BY BotAndTop DEF Inv
<1>4. MasterInv'
  BY <1>2, <1>3, BlockDownOutside DEF TopSatisfiable, Inv, InCall, masterVars
<1>5. TopSolverInv'
  BY <1>2, TopSolverStep DEF Inv
<1>6. QED
  BY <1>4, <1>5 DEF TopSatisfiable, Inv, ControlPoints, InCall, SearchBrackets,
     Visible, Over, searchVars, masterVars

LEMMA BotUnsatisfiableStep ==
    ASSUME Inv, BotUnsatisfiable
    PROVE  Inv' /\ Visible
<1>1. PICK b \in BotUnexplored : ~Sat(b) /\ muses' = Append(muses, b) /\ uni' = uni \cup b /\ BlockUp(b)
  BY DEF BotUnsatisfiable
<1>2. IsMus(b) /\ b \in SUBSET Constraint /\ Unexplored(b)
  BY <1>1, BotIsMus DEF Inv, BotUnexplored, Minimal, UnexploredSets
<1>3. Reported = blocked_muses /\ muses \in Seq(SUBSET Constraint)
  BY DEF BotUnsatisfiable, Inv, MasterInv, MasterTypeOK, ReportInv
<1>4. b \in AllMuses \ Reported
  BY <1>2, <1>3, BlockedIsExplored DEF AllMuses, Inv, MasterInv
<1>5. muses' \in Seq(SUBSET Constraint) /\ Reported' = Reported \cup {b}
  BY <1>1, <1>2, <1>3 DEF Reported
<1>6. ExplorerTypeOK' /\ MapInv'
  BY <1>1, <1>2, BlockUpStep DEF BotUnsatisfiable, Inv, MasterInv
<1>7. CnfTypeOK' /\ PlainInv' /\ MasterTypeOK'
  BY <1>1, <1>2, <1>5 DEF BotUnsatisfiable, Inv, MasterInv, CnfTypeOK, PlainInv,
     MasterTypeOK, cnfVars
<1>8. CallInv' /\ ReportInv'
  BY <1>1, <1>3, <1>5 DEF BotUnsatisfiable, CallInv, ReportInv, BlockUp
<1>9. MasterInv'
  BY <1>6, <1>7, <1>8 DEF MasterInv
<1>10. TopSolverInv'
  BY <1>1, TopSolverStep DEF Inv
<1>11. QED
  BY <1>1, <1>4, <1>9, <1>10 DEF BotUnsatisfiable, Inv, ControlPoints, InCall,
     SearchBrackets, Visible, Over, searchVars

(* The pivot lies strictly between the two ends, Ones above the lower one. *)
LEMMA PivotBetween ==
    ASSUME Inv, pc = "search", diff # 1
    PROVE  /\ bot \subseteq Pivot /\ Pivot \subseteq top /\ Unexplored(Pivot)
           /\ Ones \in Int
           /\ Cardinality(Pivot \ bot) = Ones
           /\ Cardinality(top \ Pivot) = diff - Ones
<1> DEFINE gap == top \ bot
           added == FirstOf(gap, Ones)
<1>1. /\ bot \subseteq top /\ top \in SUBSET Constraint /\ Sat(bot) /\ ~Sat(top)
      /\ Unexplored(bot) /\ Unexplored(top) /\ diff = Cardinality(gap)
  BY DEF Inv, SearchBrackets
<1>2. IsFiniteSet(gap) /\ diff \in Nat
  BY <1>1, ConstraintsFinite
<1>3. diff # 0
  <2>1. gap # {}
    <3>1. ASSUME gap = {} PROVE FALSE
      <4>1. bot = top
        BY <1>1, <3>1
      <4>2. QED
        BY <1>1, <4>1
    <3>2. QED
      BY <3>1
  <2>2. QED
    BY <1>1, <1>2, <2>1, FS_EmptySet
<1>4. Ones \in Nat /\ Ones <= diff
  BY <1>2, <1>3 DEF Ones
<1>5. added \subseteq gap /\ Cardinality(added) = Ones
  BY <1>1, <1>4, FirstOfSize
<1>6. Pivot = bot \cup added
  BY DEF Pivot
<1> HIDE DEF added
<1>7. bot \subseteq Pivot /\ Pivot \subseteq top /\ Pivot \ bot = added
  BY <1>1, <1>5, <1>6
<1>8. Unexplored(Pivot)
  BY <1>1, <1>7, UnexploredBetween DEF Inv
<1>9. Cardinality(top \ Pivot) = diff - Ones
  <2>1. top \ Pivot = gap \ added /\ gap \cap added = added
    BY <1>5, <1>6
  <2>2. Cardinality(gap \ added) = Cardinality(gap) - Cardinality(gap \cap added)
    BY <1>2, FS_Difference
  <2>3. QED
    BY <1>1, <1>5, <2>1, <2>2
<1>10. QED
  BY <1>4, <1>5, <1>7, <1>8, <1>9

(* Only the ends of the search change.                                     *)
LEMMA SearchKeeps ==
    ASSUME Inv, pc = "search", UNCHANGED <<masterVars, cnfVars, explorerVars>>
    PROVE  MasterInv' /\ TopSolverInv' /\ pc' = "search" /\ Visible
           /\ \A f : (Sat(f)' <=> Sat(f)) /\ (Unexplored(f)' <=> Unexplored(f))
<1>1. MasterInv'
  BY StutterStep DEF Inv
<1>2. TopSolverInv'
  BY TopSolverStep DEF Inv, explorerVars
<1>3. \A f : (Sat(f)' <=> Sat(f)) /\ (Unexplored(f)' <=> Unexplored(f))
  BY CnfUnchanged, MapUnchanged
<1>4. QED
  BY <1>1, <1>2, <1>3 DEF masterVars, Visible, Over

LEMMA SearchUpStep ==
    ASSUME Inv, SearchUp
    PROVE  Inv' /\ Visible
<1>1. /\ bot \subseteq Pivot /\ Pivot \subseteq top /\ Unexplored(Pivot)
      /\ Ones \in Int /\ Cardinality(top \ Pivot) = diff - Ones
  BY PivotBetween DEF SearchUp
<1>2. MasterInv' /\ TopSolverInv' /\ pc' = "search" /\ Visible
      /\ \A f : (Sat(f)' <=> Sat(f)) /\ (Unexplored(f)' <=> Unexplored(f))
  BY SearchKeeps DEF SearchUp
<1>3. Pivot \in SUBSET Constraint /\ diff - Ones \in Int
  BY <1>1 DEF Inv
<1>4. Sat(bot)' /\ Unexplored(bot)' /\ ~Sat(top)' /\ Unexplored(top)'
  <2>1. bot' = Pivot /\ Sat(Pivot) /\ top' = top
    BY DEF SearchUp
  <2>2. Sat(bot)' /\ Unexplored(bot)'
    BY <1>1, <2>1, CnfUnchanged, MapUnchanged DEF SearchUp, Sat, Models, Unexplored,
       SatisfiesAll, cnfVars, explorerVars
  <2>3. ~Sat(top)' /\ Unexplored(top)'
    BY <2>1, <1>2 DEF SearchUp, Inv, SearchBrackets
  <2>4. QED
    BY <2>2, <2>3
<1>5. SearchBrackets'
  BY <1>1, <1>4 DEF SearchUp, SearchBrackets
<1>6. QED
  BY <1>2, <1>3, <1>4, <1>5 DEF SearchUp, Inv, ControlPoints

LEMMA SearchDownStep ==
    ASSUME Inv, SearchDown
    PROVE  Inv' /\ Visible
<1>1. /\ bot \subseteq Pivot /\ Pivot \subseteq top /\ Unexplored(Pivot)
      /\ Ones \in Int /\ Cardinality(Pivot \ bot) = Ones
  BY PivotBetween DEF SearchDown
<1>2. MasterInv' /\ TopSolverInv' /\ pc' = "search" /\ Visible
      /\ \A f : (Sat(f)' <=> Sat(f)) /\ (Unexplored(f)' <=> Unexplored(f))
  BY SearchKeeps DEF SearchDown
<1>3. Pivot \in SUBSET Constraint
  BY <1>1 DEF Inv
<1>4. Sat(bot)' /\ Unexplored(bot)' /\ ~Sat(top)' /\ Unexplored(top)'
  <2>1. top' = Pivot /\ ~Sat(Pivot) /\ bot' = bot
    BY DEF SearchDown
  <2>2. ~Sat(top)' /\ Unexplored(top)'
    BY <1>1, <2>1 DEF SearchDown, Sat, Models, Unexplored, SatisfiesAll, cnfVars, explorerVars
  <2>3. Sat(bot)' /\ Unexplored(bot)'
    BY <2>1, <1>2 DEF SearchDown, Inv, SearchBrackets
  <2>4. QED
    BY <2>2, <2>3
<1>5. SearchBrackets'
  BY <1>1, <1>4 DEF SearchDown, SearchBrackets
<1>6. QED
  BY <1>1, <1>2, <1>3, <1>4, <1>5 DEF SearchDown, Inv, ControlPoints

LEMMA StartSearchStep ==
    ASSUME Inv, StartSearch
    PROVE  Inv' /\ Visible
<1>1. PICK b \in BotUnexplored : \E t \in TopAbove(b) :
         /\ ~Sat(t) /\ Sat(b)
         /\ bot' = b /\ top' = t
         /\ diff' = Cardinality(t) - Cardinality(b)
  BY DEF StartSearch
<1>2. PICK t \in TopAbove(b) :
         /\ ~Sat(t) /\ Sat(b)
         /\ bot' = b /\ top' = t
         /\ diff' = Cardinality(t) - Cardinality(b)
  BY <1>1
<1>3. b \subseteq t /\ t \in SUBSET Constraint /\ Unexplored(b) /\ Unexplored(t)
  BY <1>2, BotAndTop DEF Inv
<1>4. diff' = Cardinality(t \ b) /\ diff' \in Int
  <2>1. IsFiniteSet(t) /\ Cardinality(t) \in Nat /\ Cardinality(b) \in Nat /\ t \cap b = b
    BY <1>3, ConstraintsFinite
  <2>2. Cardinality(t \ b) = Cardinality(t) - Cardinality(t \cap b)
    BY <2>1, FS_Difference
  <2>3. Cardinality(t \ b) = Cardinality(t) - Cardinality(b)
    BY ONLY <2>1, <2>2
  <2>4. diff' = Cardinality(t) - Cardinality(b)
    BY <1>2
  <2>5. QED
    BY ONLY <2>1, <2>3, <2>4
<1>5. MasterInv'
  BY ControlStep DEF StartSearch, Inv, InCall
<1>6. TopSolverInv'
  BY TopSolverStep DEF StartSearch, Inv, explorerVars
<1>7. Sat(bot)' /\ Unexplored(bot)' /\ ~Sat(top)' /\ Unexplored(top)'
  BY <1>2, <1>3 DEF StartSearch, Sat, Models, Unexplored, SatisfiesAll, cnfVars, explorerVars
<1>8. SearchBrackets'
  BY <1>2, <1>3, <1>4, <1>7 DEF SearchBrackets
<1>9. QED
  BY <1>2, <1>3, <1>4, <1>5, <1>6, <1>7, <1>8
     DEF StartSearch, Inv, ControlPoints, Visible, Over

LEMMA SearchFoundStep ==
    ASSUME Inv, SearchFound
    PROVE  Inv' /\ Visible
<1>1. PICK core \in Cores(top) : CallShrinkFormula(core, critical)
  BY DEF SearchFound
<1>2. core \in SUBSET Constraint /\ ~Sat(core) /\ Unexplored(core)
  BY UnsatPartUnexplored DEF SearchFound, Cores, Inv, MasterInv, SearchBrackets
<1>3. CritsSound(critical, core)
  BY <1>2, CriticalSound DEF Inv, MasterInv
<1>4. MasterInv'
  BY <1>1, <1>2, <1>3, CallStep DEF SearchFound, Inv, InCall
<1>5. TopSolverInv'
  BY TopSolverStep DEF SearchFound, Inv, explorerVars
<1>6. Sat(bot)'
  BY CnfUnchanged DEF SearchFound, Inv, searchVars, Sat, Models, cnfVars
<1>7. QED
  BY <1>1, <1>4, <1>5, <1>6 DEF SearchFound, CallShrinkFormula, Inv, ControlPoints,
     SearchBrackets, Visible, Over, searchVars

LEMMA ShrinkingStep ==
    ASSUME Inv, Shrinking
    PROVE  Inv' /\ Visible
<1>1. MasterInv' /\ Visible /\ pc \in InCall /\ pc' \in InCall
  BY ShrinkFormulaVisible DEF Shrinking, Inv
<1>2. TopSolverInv'
  BY TopSolverStep DEF Shrinking, ShrinkFormula, CollectCrits, Shrink, Mine, MineEnd,
     Inv, explorerVars
<1>3. Sat(bot)'
  BY <1>1 DEF Shrinking, Inv, searchVars, Sat, Models, cnfVars, Visible
<1>4. QED
  BY <1>1, <1>2, <1>3 DEF Shrinking, Inv, InCall, ControlPoints, SearchBrackets, searchVars

LEMMA MarkStep ==
    ASSUME Inv, Mark
    PROVE  Inv' /\ Visible
<1>1. MasterInv' /\ UNCHANGED muses
  BY MarkMusStep DEF Mark, Inv
<1>2. TopSolverInv'
  BY TopSolverStep DEF Mark, MarkMus, Inv
<1>3. Sat(bot)'
  BY DEF Mark, MarkMus, Inv, InCall, searchVars, Sat, Models, cnfVars
<1>4. QED
  BY <1>1, <1>2, <1>3 DEF Mark, MarkMus, Inv, InCall, ControlPoints, SearchBrackets,
     searchVars, Visible, Over

LEMMA BlockDownMssStep ==
    ASSUME Inv, BlockDownMss
    PROVE  Inv' /\ Visible
<1>1. MasterInv'
  BY BlockDownOutside DEF BlockDownMss, Inv, InCall
<1>2. TopSolverInv'
  BY TopSolverStep DEF BlockDownMss, Inv
<1>3. QED
  BY <1>1, <1>2 DEF BlockDownMss, Inv, InCall, ControlPoints, SearchBrackets, Visible, Over

LEMMA NextStep ==
    ASSUME Inv, [Next]_tomeVars
    PROVE  Inv' /\ Visible
<1>1. CASE UNCHANGED tomeVars
  <2>1. UNCHANGED <<cnfVars, explorerVars, masterVars>> /\ UNCHANGED <<bot, top, diff>>
    BY <1>1 DEF tomeVars, searchVars
  <2>2. MasterInv'
    BY <2>1, StutterStep DEF Inv
  <2>3. TopSolverInv'
    BY <2>1, TopSolverStep DEF Inv, explorerVars
  <2>4. Sat(bot)' <=> Sat(bot)
    BY <2>1 DEF Sat, Models, cnfVars
  <2>5. SearchBrackets'
    BY <2>1 DEF Inv, SearchBrackets, masterVars, Sat, Models, cnfVars, Unexplored,
       SatisfiesAll, explorerVars
  <2>6. QED
    BY <2>1, <2>2, <2>3, <2>4, <2>5 DEF Inv, masterVars, Visible, Over
<1>2. QED
  BY <1>1, StartStep, MapExhaustedStep, TopSatisfiableStep, BotUnsatisfiableStep,
     StartSearchStep, SearchUpStep, SearchDownStep, SearchFoundStep, ShrinkingStep,
     MarkStep, BlockDownMssStep
     DEF Next, Ended

(* The invariant of the search and of the two maps holds at every step.    *)
THEOREM InvariantHolds ==
    ASSUME PlainInputs
    PROVE  Spec => []Inv
<1>1. Init => Inv
  BY InitInv
<1>2. Inv /\ [Next]_tomeVars => Inv'
  BY NextStep
<1>3. QED
  BY <1>1, <1>2, PTL DEF Spec

---------------------------------------------------------------------------
(* Every variable keeps its type. *)
THEOREM TypeCorrect ==
    ASSUME PlainInputs
    PROVE  Spec => []TypeOK
<1>1. Inv => TypeOK
  BY DEF Inv, MasterInv, TypeOK, ControlPoints
<1>2. QED
  BY <1>1, InvariantHolds, PTL

(* local_mus always has a satisfiable and an unsatisfiable end, both of    *)
(* them unexplored, at the distance diff.                                  *)
THEOREM SearchCorrect ==
    ASSUME PlainInputs
    PROVE  Spec => []SearchBrackets
<1>1. Inv => SearchBrackets
  BY DEF Inv
<1>2. QED
  BY <1>1, InvariantHolds, PTL

(* A satisfiable top is blocked down without growing it: it is an MSS.     *)
THEOREM TopsCorrect ==
    ASSUME PlainInputs
    PROVE  Spec => []TopIsMss
<1>1. Inv => TopIsMss
  BY SatTopIsMss DEF Inv, TopIsMss
<1>2. QED
  BY <1>1, InvariantHolds, PTL

(* TOME implements the enumeration it promises, for every input, although  *)
(* it takes an unsatisfiable bottom for a MUS without shrinking it.        *)
THEOREM EnumerationCorrect ==
    ASSUME PlainInputs
    PROVE  Spec => EnumeratesMuses
<1>1. Init => Abstract!EnumInit
  BY InitImplements DEF Init
<1>2. Inv /\ [Next]_tomeVars => [Abstract!EnumNext]_(Abstract!enumVars)
  BY NextStep, VisibleImplements
<1>3. QED
  BY <1>1, <1>2, InvariantHolds, PTL DEF Spec, EnumeratesMuses, Abstract!EnumSpec
===========================================================================
