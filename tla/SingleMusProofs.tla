-------------------------- MODULE SingleMusProofs -------------------------
(***************************************************************************)
(* The single MUS extraction is correct for inputs of every size and every *)
(* value of --shrink: first the loops of shrink and the detour through the *)
(* files of muser2 (Spec of module Shrink), then mcsmus and whole calls    *)
(* (CallSpec of module SingleMus).                                         *)
(***************************************************************************)
EXTENDS SingleMus, FiniteSetTheorems, WellFoundedInduction, TLAPS

(* CritsSound(cr, t): removing any of cr makes t satisfiable, which is     *)
(* what the tool calls a critical constraint of t.                         *)
CritsSound(cr, t) == \A c \in cr : c \in Constraint /\ Sat(t \ {c})

(* A subset of a satisfiable set is satisfiable, so that a constraint      *)
(* critical for the seed stays critical while the seed shrinks.            *)
LEMMA SatMonotone ==
    ASSUME NEW t, NEW g \in SUBSET t, Sat(t)
    PROVE  Sat(g)
BY DEF Sat, Models

(* Every unsatisfiable set contains the constraints critical for it.       *)
LEMMA CriticalInside ==
    ASSUME NEW t, NEW cr, CritsSound(cr, t), ~Sat(t)
    PROVE  cr \subseteq t
<1>1. ASSUME NEW c \in cr, c \notin t PROVE FALSE
  <2>1. t \ {c} = t
    BY <1>1
  <2>2. QED
    BY <2>1, <1>1 DEF CritsSound
<1>2. QED
  BY <1>1

(* Critical constraints stay critical in an unsatisfiable subset.          *)
LEMMA CriticalInSubset ==
    ASSUME NEW t, NEW g \in SUBSET t, NEW cr, CritsSound(cr, t)
    PROVE  CritsSound(cr, g)
<1> SUFFICES ASSUME NEW c \in cr PROVE c \in Constraint /\ Sat(g \ {c})
  BY DEF CritsSound
<1>1. Sat(t \ {c}) /\ g \ {c} \subseteq t \ {c}
  BY DEF CritsSound
<1>2. QED
  BY <1>1, SatMonotone DEF CritsSound

Flip(a, l) == IF l > 0 THEN a \cup {l} ELSE a \ {-l}

(* Flipping l in a model of t \ {c} makes c true and can only break the    *)
(* other constraints that contain -l.                                      *)
LEMMA FlipModel ==
    ASSUME CnfTypeOK, hard_clauses = {}, NEW t \in SUBSET Constraint,
           ~Sat(t), NEW c \in Constraint, Sat(t \ {c}),
           NEW l \in clauses[c], NEW h, Hits(l, t) \ {c} \subseteq {h}
    PROVE  Sat(t \ {h})
<1> DEFINE T == t \ {c}
<1>1. PICK a \in SUBSET Var : \A d \in T : Satisfies(a, clauses[d])
  BY DEF Sat, Models
<1>2. l \in Lit /\ \A d \in Constraint : clauses[d] \subseteq Lit
  BY DEF CnfTypeOK
<1>3. Flip(a, l) \in SUBSET Var /\ l # 0 /\ l \in Int
  BY <1>2, SizesAssumption DEF Flip, Lit, Var
<1>4. LitTrue(Flip(a, l), l)
  BY <1>3 DEF Flip, LitTrue
<1>5. ASSUME NEW d \in t \ {h} PROVE Satisfies(Flip(a, l), clauses[d])
  <2>1. CASE l \in clauses[d]
    BY <2>1, <1>4 DEF Satisfies
  <2>2. CASE l \notin clauses[d]
    <3>1. d \in T
      BY <2>2
    <3>2. PICK k \in clauses[d] : LitTrue(a, k)
      BY <3>1, <1>1 DEF Satisfies
    <3>3. -l \notin clauses[d]
      BY <2>2 DEF Hits
    <3>4. k # l /\ k # -l /\ k \in Int /\ k # 0
      BY <3>2, <3>3, <2>2, <1>2, SizesAssumption DEF Lit, Var
    <3>5. LitTrue(Flip(a, l), k)
      BY <3>2, <3>4, <1>3 DEF Flip, LitTrue
    <3>6. QED
      BY <3>2, <3>5 DEF Satisfies
  <2>3. QED
    BY <2>1, <2>2
<1>6. Flip(a, l) \in Models(t \ {h})
  BY <1>3, <1>5 DEF Models
<1>7. QED
  BY <1>6 DEF Sat

---------------------------------------------------------------------------
(* Every clause of the file is the clause of one constraint only.          *)
Unambiguous(soft, hard) ==
    /\ \A c \in Constraint, d \in Constraint : soft[c] = soft[d] => c = d
    /\ \A c \in Constraint : soft[c] \notin hard

(* The hypothesis of the theorems.  The propagation of criticals does not  *)
(* look at the hard clauses (run marco_hard_implied), and repeated clauses *)
(* lead the import astray (run shrink_permuted).                           *)
ShrinkInputs ==
    \A in \in Inputs :
        /\ "extension" \in ShrinkAlgs => in.hard_clauses = {}
        /\ "muser" \in ShrinkAlgs => Unambiguous(in.clauses, in.hard_clauses)

InputInv ==
    /\ CnfTypeOK
    /\ shrink_alg = "extension" => hard_clauses = {}
    /\ shrink_alg = "muser" => Unambiguous(clauses, hard_clauses)

CallInv ==
    /\ f \in SUBSET Constraint /\ ~Sat(f)
    /\ given \subseteq f /\ CritsSound(given, f)

(* While the loop runs, s shrinks inside f and stays unsatisfiable; what   *)
(* is in crits is critical for s, though maybe not for f.                  *)
LoopInv ==
    phase = "loop" =>
        /\ s \subseteq f /\ ~Sat(s)
        /\ i \in 1 .. dimension + 1
        /\ given \subseteq crits /\ CritsSound(crits, s)
        /\ shrink_alg # "extension" => crits = given
        /\ \A c \in s : c < i => Sat(s \ {c})
        /\ shrink_alg = "muser" => s = f

ResultInv ==
    /\ phase \in {"loop", "file", "returned"}
    /\ phase = "file" => shrink_alg = "muser"
    /\ phase \in {"file", "returned"} => s \in ShrinkResults(f, given)

Inv == InputInv /\ CallInv /\ LoopInv /\ ResultInv

---------------------------------------------------------------------------
(* The input and the arguments do not change, and with them nothing that   *)
(* is said of satisfiability.                                              *)
LEMMA CallUnchanged ==
    ASSUME UNCHANGED <<cnfVars, shrink_alg, f, given>>
    PROVE  /\ \A g : Sat(g)' <=> Sat(g)
           /\ \A cr, g : CritsSound(cr, g)' <=> CritsSound(cr, g)
           /\ \A g, cr : ShrinkResults(g, cr)' = ShrinkResults(g, cr)
           /\ InputInv' <=> InputInv
           /\ CallInv' <=> CallInv
<1>1. \A g : Models(g)' = Models(g)
  BY DEF Models, cnfVars
<1>2. \A g : Sat(g)' <=> Sat(g)
  BY <1>1 DEF Sat
<1>3. \A cr, g : CritsSound(cr, g)' <=> CritsSound(cr, g)
  BY <1>2 DEF CritsSound
<1>4. \A g, cr : ShrinkResults(g, cr)' = ShrinkResults(g, cr)
  BY <1>2 DEF ShrinkResults
<1>5. InputInv' <=> InputInv
  BY DEF InputInv, CnfTypeOK, cnfVars
<1>6. CallInv' <=> CallInv
  BY <1>2, <1>3 DEF CallInv
<1>7. QED
  BY <1>2, <1>3, <1>4, <1>5, <1>6

(* critical_propagation looks for the constraints a flip falsifies in the  *)
(* seed g although only t is left of it: there may be fewer of them in t,  *)
(* never more, so that what it adds is critical for t.                     *)
LEMMA PropagationSound ==
    ASSUME CnfTypeOK, hard_clauses = {}, NEW g \in SUBSET Constraint,
           NEW t \in SUBSET g, ~Sat(t),
           NEW cr, CritsSound(cr, t), NEW c \in cr
    PROVE  CritsSound(CriticalPropagation(g, cr, c), t)
<1> DEFINE X == {h \in Constraint : Sat(t \ {h})}
<1>1. c \in X /\ X \in SUBSET Constraint
  BY DEF CritsSound
<1>2. ASSUME NEW e \in X, NEW l \in clauses[e], NEW d \in g \ cr, Hits(l, g) = {d}
      PROVE  d \in X
  <2>1. Hits(l, t) \ {e} \subseteq {d}
    BY <1>2 DEF Hits
  <2>2. Sat(t \ {d})
    BY <2>1, FlipModel
  <2>3. QED
    BY <2>2
<1>3. CriticalPropagation(g, cr, c) \subseteq cr \cup X
  BY <1>1, <1>2 DEF CriticalPropagation
<1>4. QED
  BY <1>3 DEF CritsSound

(* A minimal set beside criticals of the seed is a MUS.                    *)
LEMMA ResultIsMus ==
    ASSUME CallInv, s \in ShrinkResults(f, given)
    PROVE  IsMus(s)
<1>1. s \subseteq f /\ ~Sat(s) /\ s \subseteq Constraint
  BY DEF CallInv, ShrinkResults
<1>2. CritsSound(given, s)
  BY <1>1, CriticalInSubset DEF CallInv
<1>3. \A c \in s : Sat(s \ {c})
  BY <1>2 DEF CritsSound, ShrinkResults
<1>4. QED
  BY <1>1, <1>3 DEF IsMus

---------------------------------------------------------------------------
LEMMA InitInv ==
    ASSUME ShrinkInputs, Init
    PROVE  Inv
<1>1. PICK in \in Inputs : clauses = in.clauses /\ hard_clauses = in.hard_clauses
  BY DEF Init, Parse
<1>2. InputInv
  BY <1>1, InputsAssumption DEF Init, InputInv, ShrinkInputs, CnfTypeOK, Input
<1>3. CallInv
  BY DEF Init, CallInv, CritsSound
<1>4. LoopInv
  BY <1>3, SizesAssumption DEF Init, LoopInv, CallInv, Constraint
<1>5. ResultInv
  BY DEF Init, ResultInv
<1>6. QED
  BY <1>2, <1>3, <1>4, <1>5 DEF Inv

(* What a turn of the loop for constraint i starts from.                   *)
LEMMA LoopFacts ==
    ASSUME Inv, Looping
    PROVE  /\ phase = "loop" /\ shrink_alg # "muser"
           /\ i \in Int /\ i \in Constraint /\ i + 1 \in 1 .. dimension + 1
           /\ s \subseteq f /\ \A c \in s : c \in Int
           /\ ~Sat(s) /\ ~Sat(f) /\ f \in SUBSET Constraint
           /\ given \subseteq crits /\ CritsSound(crits, s)
           /\ shrink_alg # "extension" => crits = given
           /\ \A c \in s : c < i => Sat(s \ {c})
<1>1. LoopInv /\ phase = "loop" /\ CallInv
  BY DEF Inv, Looping
<1>2. CritsSound(crits, s)
  BY <1>1 DEF LoopInv
<1>3. i \in Constraint /\ i \in Int /\ i + 1 \in 1 .. dimension + 1
  BY SizesAssumption DEF Looping, Constraint
<1>4. \A c \in s : c \in Int
  <2>1. s \subseteq Constraint
    BY <1>1 DEF LoopInv, CallInv
  <2>2. \A c \in Constraint : c \in Int
    BY SizesAssumption DEF Constraint
  <2>3. QED
    BY <2>1, <2>2
<1>5. QED
  BY <1>1, <1>2, <1>3, <1>4 DEF LoopInv, CallInv, Looping

(* The step of a turn: what is left to show of the invariant.              *)
LEMMA LoopStep ==
    ASSUME Inv, Looping, UNCHANGED <<cnfVars, shrink_alg, f, given, phase>>,
           i' = i + 1, s' \subseteq s, ~Sat(s'),
           given \subseteq crits', CritsSound(crits', s'),
           shrink_alg # "extension" => crits' = given,
           \A c \in s' : c < i \/ c = i => Sat(s' \ {c})
    PROVE  Inv'
<1>1. \A c \in s' : c < i + 1 => c < i \/ c = i
  BY LoopFacts
<1>2. LoopInv'
  BY <1>1, LoopFacts, CallUnchanged DEF LoopInv
<1>3. ResultInv'
  BY LoopFacts DEF ResultInv
<1>4. InputInv' /\ CallInv'
  BY CallUnchanged DEF Inv
<1>5. QED
  BY <1>2, <1>3, <1>4 DEF Inv

LEMMA SkipStep ==
    ASSUME Inv, Skip
    PROVE  Inv'
<1>1. Looping
  BY DEF Skip
<1>2. \A c \in s : c < i \/ c = i => Sat(s \ {c})
  BY <1>1, LoopFacts DEF Skip, CritsSound
<1>3. QED
  BY <1>1, <1>2, LoopFacts, LoopStep DEF Skip

LEMMA RemoveStep ==
    ASSUME Inv, Remove
    PROVE  Inv'
<1>1. Looping /\ s' \subseteq s /\ i \notin s' /\ ~Sat(s')
  BY DEF Remove, Cores
<1>2. ASSUME NEW c \in s', c < i \/ c = i PROVE Sat(s' \ {c})
  <2>1. Sat(s \ {c})
    BY <1>1, <1>2, LoopFacts
  <2>2. s' \ {c} \in SUBSET (s \ {c})
    BY <1>1
  <2>3. QED
    BY <2>1, <2>2, SatMonotone
<1>3. CritsSound(crits, s')
  BY <1>1, LoopFacts, CriticalInSubset
<1>4. QED
  BY <1>1, <1>2, <1>3, LoopFacts, LoopStep DEF Remove

LEMMA KeepStep ==
    ASSUME Inv, Keep
    PROVE  Inv'
<1>1. Looping /\ s' = s /\ Sat(s \ {i})
  BY DEF Keep
<1>2. \A c \in s : c < i \/ c = i => Sat(s \ {c})
  BY <1>1, LoopFacts
<1>3. given \subseteq crits' /\ CritsSound(crits', s)
  <2>1. CASE shrink_alg # "extension"
    BY <2>1, <1>1, LoopFacts DEF Keep
  <2>2. CASE shrink_alg = "extension"
    <3>1. CnfTypeOK /\ hard_clauses = {}
      BY <2>2 DEF Inv, InputInv
    <3>2. CritsSound(crits \cup {i}, s)
      BY <1>1, LoopFacts DEF CritsSound
    <3>3. crits' = CriticalPropagation(f, crits \cup {i}, i)
      BY <2>2 DEF Keep
    <3>4. CritsSound(CriticalPropagation(f, crits \cup {i}, i), s)
      BY <3>1, <3>2, <1>1, LoopFacts, PropagationSound
    <3>5. crits \subseteq crits'
      BY <3>3 DEF CriticalPropagation
    <3>6. QED
      BY <3>3, <3>4, <3>5, <1>1, LoopFacts
  <2>3. QED
    BY <2>1, <2>2
<1>4. shrink_alg # "extension" => crits' = given
  BY <1>1, LoopFacts DEF Keep
<1>5. QED
  BY <1>1, <1>2, <1>3, <1>4, LoopFacts, LoopStep DEF Keep

(* After the last turn every constraint left was visited: it is critical   *)
(* in s, and s contains the given criticals.                               *)
LEMMA LoopEndsStep ==
    ASSUME Inv, LoopEnds
    PROVE  Inv'
<1>1. UNCHANGED <<cnfVars, shrink_alg, f, given, s>> /\ phase = "loop" /\ phase' = "returned"
  BY DEF LoopEnds
<1>2. LoopInv /\ CallInv /\ i = dimension + 1
  BY <1>1 DEF Inv, LoopEnds
<1>3. \A c \in s : c < i
  <2>1. s \subseteq Constraint
    BY <1>1, <1>2 DEF LoopInv, CallInv
  <2>2. \A c \in Constraint : c < dimension + 1
    BY SizesAssumption DEF Constraint
  <2>3. QED
    BY <1>2, <2>1, <2>2
<1>4. \A c \in s : Sat(s \ {c})
  BY <1>1, <1>2, <1>3 DEF LoopInv
<1>5. given \subseteq s
  BY <1>1, <1>2, CriticalInSubset, CriticalInside DEF LoopInv, CallInv
<1>6. s \in ShrinkResults(f, given)
  BY <1>1, <1>2, <1>4, <1>5 DEF LoopInv, ShrinkResults
<1>7. LoopInv' /\ ResultInv'
  BY <1>1, <1>6, CallUnchanged DEF LoopInv, ResultInv
<1>8. QED
  BY <1>1, <1>7, CallUnchanged DEF Inv

LEMMA RunMuserStep ==
    ASSUME Inv, RunMuser
    PROVE  Inv'
<1>1. UNCHANGED <<cnfVars, shrink_alg, f, given>> /\ phase' = "file" /\ shrink_alg = "muser"
  BY DEF RunMuser
<1>2. s' \in ShrinkResults(f, given)
  BY DEF RunMuser, MuserResults
<1>3. LoopInv' /\ ResultInv'
  BY <1>1, <1>2, CallUnchanged DEF LoopInv, ResultInv
<1>4. QED
  BY <1>1, <1>3, CallUnchanged DEF Inv

(* Looking up clauses that name one constraint each gives back s.          *)
LEMMA ImportSame ==
    ASSUME Inv, Import
    PROVE  s' = s
<1>1. /\ UNCHANGED <<cnfVars, shrink_alg, f, given>> /\ phase = "file" /\ phase' = "returned"
      /\ Unambiguous(clauses, hard_clauses) /\ s \in ShrinkResults(f, given)
      /\ s \subseteq Constraint
  BY DEF Import, Inv, ResultInv, InputInv, CallInv, ShrinkResults
<1>2. \A c \in Constraint : LastWith(clauses[c]) = {c}
  BY <1>1, SizesAssumption DEF Unambiguous, LastWith, Constraint
<1>3. \A h \in hard_clauses : LastWith(h) = {}
  BY <1>1 DEF Unambiguous, LastWith
<1>4. UNION {LastWith(clause) : clause \in {clauses[c] : c \in s} \cup hard_clauses} = s
  BY <1>1, <1>2, <1>3
<1>5. QED
  BY <1>4 DEF Import

LEMMA ImportStep ==
    ASSUME Inv, Import
    PROVE  Inv'
<1>1. UNCHANGED <<cnfVars, shrink_alg, f, given>> /\ phase = "file" /\ phase' = "returned"
  BY DEF Import
<1>2. LoopInv' /\ ResultInv'
  BY <1>1, ImportSame, CallUnchanged DEF Inv, LoopInv, ResultInv
<1>3. QED
  BY <1>1, <1>2, CallUnchanged DEF Inv

LEMMA NextStep ==
    ASSUME Inv, [Next]_shrinkVars
    PROVE  Inv'
<1>1. CASE UNCHANGED shrinkVars
  <2>1. UNCHANGED <<cnfVars, shrink_alg, f, given>> /\ UNCHANGED <<phase, s, i, crits>>
    BY <1>1 DEF shrinkVars
  <2>2. QED
    BY <2>1, CallUnchanged DEF Inv, LoopInv, ResultInv
<1>2. QED
  BY <1>1, SkipStep, RemoveStep, KeepStep, LoopEndsStep, RunMuserStep, ImportStep
     DEF Next, Returned

---------------------------------------------------------------------------
(* The invariant holds whatever file is given and whatever cores the       *)
(* solver returns.                                                         *)
THEOREM InvariantHolds ==
    ASSUME ShrinkInputs
    PROVE  Spec => []Inv
<1>1. Init => Inv
  BY InitInv
<1>2. Inv /\ [Next]_shrinkVars => Inv'
  BY NextStep
<1>3. QED
  BY <1>1, <1>2, PTL DEF Spec

(* A constraint the loop has passed, or takes for critical, is needed in   *)
(* what is left of the seed.                                               *)
THEOREM LoopCorrect ==
    ASSUME ShrinkInputs
    PROVE  Spec => []KeptAreNeeded
<1>1. Inv => KeptAreNeeded
  BY DEF Inv, LoopInv, CritsSound, KeptAreNeeded
<1>2. QED
  BY <1>1, InvariantHolds, PTL

(* All three algorithms are single MUS extractions that keep the contract  *)
(* which Master relies on.                                                 *)
THEOREM ShrinkCorrect ==
    ASSUME ShrinkInputs
    PROVE  Spec => []ReturnsMus
<1>1. Inv => ReturnsMus
  BY ResultIsMus DEF Inv, ResultInv, ReturnsMus
<1>2. QED
  BY <1>1, InvariantHolds, PTL

---------------------------------------------------------------------------
(* mcsmus.  Its formulas and assignments are those of module Cnf.          *)
LEMMA SameCardinality == \A S : Mc!Cardinality(S) = Cardinality(S)
BY DEF Mc!Cardinality, Cardinality

LEMMA SameFormulas ==
    /\ Mc!Var = Var /\ Mc!Lit = Lit /\ Mc!Constraint = Constraint
    /\ \A a, l : Mc!LitTrue(a, l) <=> LitTrue(a, l)
    /\ \A a, cl : Mc!Satisfies(a, cl) <=> Satisfies(a, cl)
    /\ \A g : Mc!Models(g) = Models(g)
    /\ \A g : Mc!Sat(g) <=> Sat(g)
<1>1. Mc!Var = Var /\ Mc!Lit = Lit /\ Mc!Constraint = Constraint
  BY DEF Mc!Var, Var, Mc!Lit, Lit, Mc!Constraint, Constraint
<1>2. \A a, l : Mc!LitTrue(a, l) <=> LitTrue(a, l)
  BY DEF Mc!LitTrue, LitTrue
<1>3. \A a, cl : Mc!Satisfies(a, cl) <=> Satisfies(a, cl)
  BY <1>2 DEF Mc!Satisfies, Satisfies
<1>4. \A g : Mc!Models(g) = Models(g)
  BY <1>1, <1>3 DEF Mc!Models, Models
<1>5. \A g : Mc!Sat(g) <=> Sat(g)
  BY <1>4 DEF Mc!Sat, Sat
<1>6. QED
  BY <1>1, <1>2, <1>3, <1>4, <1>5

(* The constraints of g that the assignment a misses.                      *)
Missed(a, g) == {c \in g : ~Satisfies(a, clauses[c])}

(* An assignment satisfies what is on exactly if it satisfies the clauses  *)
(* that are always on and misses nothing of the rest.                      *)
LEMMA ModelsOf ==
    /\ \A a, g : a \in Models(given \cup g) <=> a \in Models(given) /\ Missed(a, g) = {}
    /\ \A a, g : Mc!Violated(a, g) = Missed(a, g)
    /\ \A a : a \in Models(given) <=> a \in SUBSET Var /\ \A h \in Mc!Hard : Satisfies(a, h)
<1>1. \A a, g : a \in Models(given \cup g) <=> a \in Models(given) /\ Missed(a, g) = {}
  BY DEF Models, Missed
<1>2. \A a, g : Mc!Violated(a, g) = Missed(a, g)
  BY SameFormulas DEF Mc!Violated, Missed
<1>3. ASSUME NEW a
      PROVE  a \in Models(given) <=> a \in SUBSET Var /\ \A h \in Mc!Hard : Satisfies(a, h)
  <2>1. Mc!Hard = hard_clauses \cup {clauses[c] : c \in given}
    BY DEF Mc!Hard
  <2>2. QED
    BY <2>1 DEF Models
<1>4. QED
  BY <1>1, <1>2, <1>3

(* What the solver of mcsmus answers with g assumed.                       *)
LEMMA SolverModelsOf ==
    ASSUME NEW g, NEW blocked, NEW a
    PROVE  a \in Mc!SolverModels(g, blocked) <=>
               a \in Models(given \cup g) /\ \A b \in blocked : Missed(a, b) # b
<1>1. a \in Mc!SolverModels(g, blocked) <=>
          /\ a \in SUBSET Var
          /\ \A h \in Mc!Hard \cup Mc!Clauses(g) : Satisfies(a, h)
          /\ \A b \in blocked : Missed(a, b) # b
  BY SameFormulas, ModelsOf DEF Mc!SolverModels
<1>2. (\A h \in Mc!Clauses(g) : Satisfies(a, h)) <=> Missed(a, g) = {}
  BY DEF Mc!Clauses, Missed
<1>3. QED
  BY <1>1, <1>2, ModelsOf

(* A block with a constraint that is on anyway blocks nothing.             *)
LEMMA BlocksChangeNothing ==
    ASSUME NEW g, NEW blocked, \A b \in blocked : b \cap g # {}
    PROVE  Mc!SolverModels(g, blocked) = Models(given \cup g)
<1>1. ASSUME NEW a \in Models(given \cup g), NEW b \in blocked PROVE Missed(a, b) # b
  <2>1. PICK c \in b : c \in g
    OBVIOUS
  <2>2. Satisfies(a, clauses[c])
    BY <2>1 DEF Models
  <2>3. QED
    BY <2>1, <2>2 DEF Missed
<1>2. \A a : a \in Mc!SolverModels(g, blocked) <=> a \in Models(given \cup g)
  BY <1>1, SolverModelsOf
<1>3. Mc!SolverModels(g, blocked) \subseteq SUBSET Var /\ Models(given \cup g) \subseteq SUBSET Var
  BY SameFormulas DEF Mc!SolverModels, Models
<1>4. QED
  BY ONLY <1>2, <1>3

(* What the clauses that are always on fix by propagation is true in every *)
(* assignment that satisfies them.                                         *)
LEMMA PropagatedTrue ==
    ASSUME CnfTypeOK, given \subseteq Constraint, NEW a \in Models(given),
           NEW l \in Mc!Propagated(Mc!Hard)
    PROVE  l \in Lit /\ LitTrue(a, l)
<1> DEFINE X == {k \in Lit : LitTrue(a, k)}
<1>1. \A k \in Lit : k \in Int /\ k # 0 /\ -k \in Lit
  BY SizesAssumption DEF Lit, Var
<1>2. ASSUME NEW h \in Mc!Hard, NEW k \in h, \A m \in h \ {k} : -m \in X PROVE k \in X
  <2>1. h \subseteq Lit
    BY DEF Mc!Hard, CnfTypeOK
  <2>2. PICK m \in h : LitTrue(a, m)
    BY ModelsOf DEF Satisfies
  <2>3. ASSUME m # k PROVE FALSE
    <3>1. -m \in X /\ m \in Int /\ m # 0
      BY <2>1, <2>3, <1>1, <1>2
    <3>2. LitTrue(a, -m)
      BY <3>1
    <3>3. QED
      BY <2>2, <3>1, <3>2 DEF LitTrue
  <2>4. QED
    BY <2>1, <2>2, <2>3
<1>3. Mc!PropagationClosed(X, Mc!Hard)
  BY <1>2 DEF Mc!PropagationClosed
<1>4. l \in X
  BY <1>3, SameFormulas DEF Mc!Propagated
<1>5. QED
  BY <1>4

LEMMA LeastExists ==
    ASSUME NEW T \in SUBSET Nat, T # {}
    PROVE  \E x \in T : \A y \in T : x <= y
<1>1. PICK x \in T : \A y \in T : ~(<<y, x>> \in OpToRel(<, Nat))
  BY NatLessThanWellFounded, WFMin
<1>2. ASSUME NEW y \in T PROVE x <= y
  <2>1. ~(y < x)
    BY <1>1 DEF OpToRel
  <2>2. QED
    BY <2>1
<1>3. QED
  BY <1>2

(* Preprocessing keeps an unsatisfiable set: a violated constraint cannot  *)
(* be satisfied, and a satisfied one is satisfied by every model.          *)
LEMMA PreprocessedUnsat ==
    ASSUME CnfTypeOK, f \in SUBSET Constraint, given \subseteq f, ~Sat(f)
    PROVE  Mc!Preprocessed \subseteq f \ given /\ ~Sat(given \cup Mc!Preprocessed)
<1> DEFINE values == Mc!Propagated(Mc!Hard)
           violated == {c \in f \ given : \A l \in clauses[c] : -l \in values}
           undefined == {c \in f \ given : clauses[c] \cap values = {}}
           first == CHOOSE c \in violated : \A d \in violated : c <= d
<1>1. f = given \cup (f \ given) /\ given \subseteq Constraint
  OBVIOUS
<1>2. \/ Mc!Preprocessed = f \ given
      \/ violated # {} /\ Mc!Preprocessed = {first}
      \/ Mc!Preprocessed = undefined
  BY DEF Mc!Preprocessed, Mc!Soft
<1>3. CASE Mc!Preprocessed = f \ given
  BY <1>1, <1>3
<1>4. CASE Mc!Preprocessed = undefined
  <2>1. ASSUME NEW a \in Models(given \cup undefined) PROVE FALSE
    <3>1. a \in Models(given) /\ Missed(a, undefined) = {}
      BY ModelsOf
    <3>2. ASSUME NEW c \in f \ given, c \notin undefined PROVE Satisfies(a, clauses[c])
      <4>1. PICK l \in clauses[c] : l \in values
        BY <3>2
      <4>2. QED
        BY <4>1, <3>1, <1>1, PropagatedTrue DEF Satisfies
    <3>3. Missed(a, f \ given) = {}
      BY <3>1, <3>2 DEF Missed
    <3>4. QED
      BY <1>1, <3>1, <3>3, ModelsOf DEF Sat
  <2>2. QED
    BY <1>4, <2>1 DEF Sat
<1>5. CASE violated # {} /\ Mc!Preprocessed = {first}
  <2>1. first \in violated
    <3>1. violated \subseteq Nat
      BY SizesAssumption DEF Constraint
    <3>2. \E c \in violated : \A d \in violated : c <= d
      BY ONLY <1>5, <3>1, LeastExists
    <3>3. QED
      BY <3>2
  <2>2. ASSUME NEW a \in Models(given \cup {first}) PROVE FALSE
    <3>1. a \in Models(given) /\ Missed(a, {first}) = {}
      BY ModelsOf
    <3>2. PICK l \in clauses[first] : LitTrue(a, l)
      BY <3>1 DEF Missed, Satisfies
    <3>3. -l \in values
      BY <2>1, <3>2
    <3>4. -l \in Lit /\ LitTrue(a, -l)
      BY <3>1, <3>3, <1>1, PropagatedTrue
    <3>5. l \in Int /\ l # 0
      BY <2>1, <3>2, SizesAssumption DEF CnfTypeOK, Lit, Var
    <3>6. QED
      BY <3>2, <3>4, <3>5 DEF LitTrue
  <2>3. QED
    BY <1>5, <2>1, <2>2 DEF Sat
<1>6. QED
  BY <1>2, <1>3, <1>4, <1>5

---------------------------------------------------------------------------
(* The invariant of mcsmus.  cr are its criticals, cf is its conflict: with *)
(* what was given they are unsatisfiable, and all but cf are critical.     *)
Extracted(cr, cf) ==
    /\ cr \subseteq f \ given /\ cf \subseteq f \ given
    /\ ~Sat(given \cup cr \cup cf)
    /\ CritsSound(given \cup cr, given \cup cr \cup cf)

(* The correction sets handed over come from maximal satisfiable subsets   *)
(* that keep what is given.                                                *)
DownsSound(downs) ==
    \A b \in downs : \E m \in SUBSET Constraint :
        b = m \cap (f \ given) /\ m \cap given = {} /\ Sat(Constraint \ m)

(* Every block has a critical, or all of the correction set k.             *)
Blocked(bs, cr, k) == \A b \in bs : b \cap cr # {} \/ (k # {} /\ k \subseteq b)

(* The model a misses just k of what the solver knows, and every literal   *)
(* still to be flipped is false in it.                                     *)
Minimizing(a, k, t, cr, cf) ==
    /\ a \in Models(given \cup cr) /\ k = Missed(a, cf)
    /\ t \subseteq Lit /\ \A l \in t : ~LitTrue(a, l)

(* The correction set that is picked from: no model satisfies one of its   *)
(* constraints as well.                                                    *)
Minimal(k, bs, cr, cf) ==
    (\E c \in k : k = {c}) \/ Mc!SolverModels(cr \cup (cf \ k), bs) = {}

(* A model that violates c alone of what is left: c is critical.           *)
Isolates(a, c, cr, cf) == a \in Models(given) /\ Missed(a, cr \cup cf) = {c}

(* A call of modelRotate_: its model violates its constraint alone, as     *)
(* does the flipped one of every rotation it has stored.                   *)
Frames(cr, cf) ==
    {fr \in [inviolated : Constraint, model : SUBSET Var,
             rotations : SUBSET (Var \X Constraint), todo : SUBSET Var] :
        /\ Isolates(fr.model, fr.inviolated, cr, cf)
        /\ fr.todo \subseteq {Mc!Abs(l) : l \in clauses[fr.inviolated]}
        /\ \A r \in fr.rotations : Isolates(Mc!Flip(fr.model, r[1]), r[2], cr, cf)}

Rotating(st, ro, cr, cf) ==
    /\ st \in Seq(Frames(cr, cf)) /\ st # <<>>
    /\ ro \subseteq cr \cup cf /\ CritsSound(ro, given \cup cr \cup cf)

(* Without constraints of its own that mcsmus returns unexamined.          *)
Examined(cr, cf) ==
    \/ cf = {}
    \/ cr = {} /\ cf = Mc!Preprocessed /\ Cardinality(Mc!Preprocessed) = 1

Extracting ==
    /\ step \in {"start", "findCS", "mcsRotate", "pick", "rotate", "refine", "mine",
                 "stalled", "returned"}
    /\ Extracted(found, conflict) /\ DownsSound(blockDowns)
    /\ step = "start" => found = {} /\ conflict = f \ given
    /\ IF step \in {"mcsRotate", "pick"}
          THEN /\ Blocked(blocks, found, cs)
               /\ Minimizing(mcs_witness, cs, toTry, found, conflict)
          ELSE Blocked(blocks, found, {})
    /\ step = "pick" => Minimal(cs, blocks, found, conflict)
    /\ IF step = "rotate" THEN Rotating(stack, rotated, found, conflict) ELSE rotated = {}
    /\ step = "returned" => Examined(found, conflict)

CallData == CnfTypeOK /\ CallInv

McsmusInv ==
    /\ CallData
    /\ phase \in {"mcsmus", "loop", "file", "returned"}
    /\ IF phase = "mcsmus" THEN Extracting ELSE NoSolver

---------------------------------------------------------------------------
(* An assignment misses nothing of two sets if it misses nothing of each.  *)
LEMMA MissedUnion ==
    ASSUME NEW a, NEW g, NEW h
    PROVE  /\ Missed(a, g \cup h) = Missed(a, g) \cup Missed(a, h)
           /\ h \subseteq g => Missed(a, h) \subseteq Missed(a, g)
BY DEF Missed

(* A model of what is given that misses nothing of the rest refutes that   *)
(* an extraction is at work: the correction set is never empty.            *)
LEMMA CorrectionSetNotEmpty ==
    ASSUME NEW cr, NEW cf, Extracted(cr, cf), NEW a, a \in Models(given),
           Missed(a, cr) = {}
    PROVE  Missed(a, cf) # {}
<1>1. Models(given \cup (cr \cup cf)) = {}
  <2>1. given \cup (cr \cup cf) = given \cup cr \cup cf
    OBVIOUS
  <2>2. QED
    BY <2>1 DEF Extracted, Sat
<1>2. ASSUME Missed(a, cf) = {} PROVE FALSE
  <2>1. Missed(a, cr \cup cf) = {}
    BY <1>2, MissedUnion
  <2>2. a \in Models(given \cup (cr \cup cf))
    BY <2>1, ModelsOf
  <2>3. QED
    BY <1>1, <2>2
<1>3. QED
  BY <1>2

(* Who isolates a constraint shows that it is critical.                    *)
LEMMA IsolatedCritical ==
    ASSUME NEW cr, NEW cf, Extracted(cr, cf), CallData, NEW a, NEW c, Isolates(a, c, cr, cf)
    PROVE  c \in cr \cup cf /\ c \in Constraint /\ Sat((given \cup cr \cup cf) \ {c})
<1>1. c \in cr \cup cf /\ c \in f \ given
  BY DEF Isolates, Missed, Extracted
<1>2. (given \cup cr \cup cf) \ {c} = given \cup ((cr \cup cf) \ {c})
  BY <1>1
<1>3. Missed(a, (cr \cup cf) \ {c}) = {}
  BY DEF Isolates, Missed
<1>4. a \in Models(given \cup ((cr \cup cf) \ {c}))
  BY <1>3, ModelsOf DEF Isolates
<1>5. QED
  BY <1>1, <1>2, <1>4 DEF Sat, CallData, CallInv

(* Less of the conflict, unsatisfiable still.                              *)
LEMMA ConflictShrinks ==
    ASSUME NEW cr, NEW cf, Extracted(cr, cf), NEW g \in SUBSET cf,
           ~Sat(given \cup cr \cup g)
    PROVE  Extracted(cr, g)
<1>1. given \cup cr \cup g \in SUBSET (given \cup cr \cup cf)
  OBVIOUS
<1>2. CritsSound(given \cup cr, given \cup cr \cup g)
  BY <1>1, CriticalInSubset DEF Extracted
<1>3. QED
  BY <1>2 DEF Extracted

(* Constraints of what is left that are critical move to the criticals.    *)
LEMMA CriticalsGrow ==
    ASSUME NEW cr, NEW cf, Extracted(cr, cf), NEW n \in SUBSET (cr \cup cf),
           CritsSound(n, given \cup cr \cup cf)
    PROVE  Extracted(cr \cup n, cf \ n)
<1>1. given \cup (cr \cup n) \cup (cf \ n) = given \cup cr \cup cf
  OBVIOUS
<1>2. CritsSound(given \cup (cr \cup n), given \cup cr \cup cf)
  BY DEF Extracted, CritsSound
<1>3. QED
  BY <1>1, <1>2 DEF Extracted

(* Pick: the constraint of a minimal correction set is critical once the   *)
(* others of the set are dropped, and what is left is unsatisfiable.       *)
LEMMA PickSound ==
    ASSUME CallData, NEW cr, NEW cf, Extracted(cr, cf), NEW bs, NEW k, Blocked(bs, cr, k),
           NEW a, NEW t, Minimizing(a, k, t, cr, cf), Minimal(k, bs, cr, cf), NEW c \in k
    PROVE  /\ Extracted(cr \cup {c}, cf \ k)
           /\ Blocked(bs, cr \cup {c}, {})
           /\ Isolates(a, c, cr \cup {c}, cf \ k)
<1> DEFINE rest == (cf \ k) \cup {c}
<1>1. k = Missed(a, cf) /\ k \subseteq cf /\ rest \subseteq cf
  BY DEF Minimizing, Missed
<1>2. a \in Models(given) /\ Missed(a, cr) = {}
  BY ModelsOf DEF Minimizing
<1>3. Isolates(a, c, cr \cup {c}, cf \ k)
  BY <1>1, <1>2 DEF Isolates, Missed
<1>4. Blocked(bs, cr \cup {c}, {})
  BY DEF Blocked
<1>5. ~Sat(given \cup cr \cup rest)
  <2>1. CASE \E d \in k : k = {d}
    <3>1. rest = cf
      BY <1>1, <2>1
    <3>2. QED
      BY ONLY <3>1, Extracted(cr, cf) DEF Extracted
  <2>2. CASE Mc!SolverModels(cr \cup (cf \ k), bs) = {}
    <3>1. ASSUME NEW x \in Models(given \cup cr \cup rest) PROVE FALSE
      <4>1. given \cup cr \cup rest = (given \cup (cr \cup (cf \ k))) \cup {c}
        OBVIOUS
      <4>2. x \in Models(given \cup (cr \cup (cf \ k))) /\ Satisfies(x, clauses[c])
        BY <3>1, <4>1 DEF Models
      <4>3. \A d \in cr : Satisfies(x, clauses[d])
        BY <4>2 DEF Models
      <4>4. \A b \in bs : \E d \in b : Satisfies(x, clauses[d])
        BY <4>2, <4>3 DEF Blocked
      <4>5. \A b \in bs : Missed(x, b) # b
        BY <4>4 DEF Missed
      <4>6. QED
        BY <2>2, <4>2, <4>5, SolverModelsOf
    <3>2. QED
      BY <3>1 DEF Sat
  <2>3. QED
    BY <2>1, <2>2 DEF Minimal
<1>6. Extracted(cr, rest)
  BY <1>1, <1>5, ConflictShrinks
<1>7. CritsSound({c}, given \cup cr \cup rest)
  <2>1. Isolates(a, c, cr, rest)
    BY <1>1, <1>2 DEF Isolates, Missed
  <2>2. QED
    BY <1>6, <2>1, IsolatedCritical DEF CritsSound
<1>8. Extracted(cr \cup {c}, rest \ {c})
  BY <1>6, <1>7, CriticalsGrow
<1>9. rest \ {c} = cf \ k
  OBVIOUS
<1>10. QED
  BY <1>3, <1>4, <1>8, <1>9

(* Mine: what a correction set of Explorer hits nowhere else is critical.  *)
LEMMA MinedCritical ==
    ASSUME CallData, NEW cr, NEW cf, Extracted(cr, cf), NEW downs, DownsSound(downs),
           NEW c \in cf, NEW b \in downs, b \cap ((cf \cup cr) \ {c}) = {}
    PROVE  Sat((given \cup cr \cup cf) \ {c})
<1>1. PICK m \in SUBSET Constraint :
          b = m \cap (f \ given) /\ m \cap given = {} /\ Sat(Constraint \ m)
  BY DEF DownsSound
<1>2. given \cup cr \cup cf \subseteq Constraint /\ c \notin given
      /\ cr \subseteq f \ given /\ cf \subseteq f \ given
  BY DEF CallData, CallInv, Extracted
<1>3. ((given \cup cr \cup cf) \ {c}) \cap m = {}
  BY <1>1, <1>2
<1>4. (given \cup cr \cup cf) \ {c} \in SUBSET (Constraint \ m)
  BY <1>2, <1>3
<1>5. QED
  BY <1>1, <1>4, SatMonotone

(* RefuteAndRefine and FindCS: what has no model in the solver has none    *)
(* at all.                                                                 *)
LEMMA RefutedUnsat ==
    ASSUME NEW cr, NEW g, NEW bs, Blocked(bs, cr, {})
    PROVE  /\ Mc!SolverModels(cr \cup g, bs) = Models(given \cup cr \cup g)
           /\ Mc!SolverModels(cr \cup g, bs) = {} <=> ~Sat(given \cup cr \cup g)
<1>1. \A b \in bs : b \cap (cr \cup g) # {}
  BY DEF Blocked
<1>2. Mc!SolverModels(cr \cup g, bs) = Models(given \cup (cr \cup g))
  BY <1>1, BlocksChangeNothing
<1>3. given \cup (cr \cup g) = given \cup cr \cup g
  OBVIOUS
<1>4. QED
  BY <1>2, <1>3 DEF Sat

---------------------------------------------------------------------------
(* A flip makes a false literal true and changes no other variable.        *)
LEMMA McFlip ==
    ASSUME NEW a \in SUBSET Var, NEW l \in Lit, ~LitTrue(a, l)
    PROVE  /\ Mc!Abs(l) \in Var /\ Mc!Flip(a, Mc!Abs(l)) \in SUBSET Var
           /\ \A k \in Lit : LitTrue(Mc!Flip(a, Mc!Abs(l)), k) <=>
                                 k = l \/ (LitTrue(a, k) /\ k # -l)
<1>1. l \in Int /\ l # 0 /\ Mc!Abs(l) \in Var
  BY SizesAssumption DEF Lit, Var, Mc!Abs
<1>2. Mc!Flip(a, Mc!Abs(l)) \in SUBSET Var
  BY <1>1 DEF Mc!Flip
<1>3. l > 0 => Mc!Flip(a, Mc!Abs(l)) = a \cup {l}
  BY <1>1 DEF Mc!Flip, Mc!Abs, LitTrue
<1>4. ~(l > 0) => Mc!Flip(a, Mc!Abs(l)) = a \ {-l}
  BY <1>1 DEF Mc!Flip, Mc!Abs, LitTrue
<1>5. ASSUME NEW k \in Lit
      PROVE  LitTrue(Mc!Flip(a, Mc!Abs(l)), k) <=> k = l \/ (LitTrue(a, k) /\ k # -l)
  <2>1. k \in Int /\ k # 0
    BY SizesAssumption DEF Lit, Var
  <2>2. CASE l > 0
    BY <1>1, <1>3, <2>1, <2>2 DEF LitTrue
  <2>3. CASE ~(l > 0)
    BY <1>1, <1>4, <2>1, <2>3 DEF LitTrue
  <2>4. QED
    BY <2>2, <2>3
<1>6. QED
  BY <1>1, <1>2, <1>5

(* Of the constraints missed a flip satisfies those with the literal.      *)
LEMMA FlipMissed ==
    ASSUME CnfTypeOK, NEW a \in SUBSET Var, NEW l \in Lit, ~LitTrue(a, l),
           NEW c \in Constraint, ~Satisfies(a, clauses[c])
    PROVE  Satisfies(Mc!Flip(a, Mc!Abs(l)), clauses[c]) <=> l \in clauses[c]
<1>1. clauses[c] \subseteq Lit /\ \A k \in clauses[c] : ~LitTrue(a, k)
  BY DEF CnfTypeOK, Satisfies
<1>2. \A k \in clauses[c] : LitTrue(Mc!Flip(a, Mc!Abs(l)), k) <=> k = l
  BY <1>1, McFlip
<1>3. QED
  BY <1>2 DEF Satisfies

(* McsRotate: a flip that breaks nothing of the rest leaves a model that   *)
(* misses just the constraints without the literal.                        *)
LEMMA RotateMinimizing ==
    ASSUME CallData, NEW cr, NEW cf, Extracted(cr, cf), NEW a, NEW k, NEW t,
           Minimizing(a, k, t, cr, cf), NEW l \in t,
           Mc!Flip(a, Mc!Abs(l)) \in Models(given),
           Missed(Mc!Flip(a, Mc!Abs(l)), cr \cup (cf \ k)) = {}
    PROVE  Minimizing(Mc!Flip(a, Mc!Abs(l)), {c \in k : l \notin clauses[c]}, t \ {l}, cr, cf)
<1> DEFINE x == Mc!Flip(a, Mc!Abs(l))
<1>1. a \in SUBSET Var /\ l \in Lit /\ ~LitTrue(a, l) /\ k = Missed(a, cf) /\ k \subseteq cf
  BY DEF Minimizing, Models, Missed
<1>2. Missed(x, cr) = {} /\ Missed(x, cf \ k) = {}
  BY MissedUnion
<1>3. x \in Models(given \cup cr)
  BY <1>2, ModelsOf
<1>4. cf \subseteq Constraint
  BY DEF Extracted, CallData, CallInv
<1>5. \A c \in k : ~Satisfies(x, clauses[c]) <=> l \notin clauses[c]
  BY <1>1, <1>4, FlipMissed DEF CallData, Missed
<1>6. {c \in k : l \notin clauses[c]} = Missed(x, cf)
  <2>1. \A c \in cf \ k : Satisfies(x, clauses[c])
    BY <1>2 DEF Missed
  <2>2. QED
    BY ONLY <2>1, <1>5, <1>1 DEF Missed
<1>7. ASSUME NEW m \in t \ {l} PROVE m \in Lit /\ ~LitTrue(x, m)
  <2>1. m \in Lit /\ ~LitTrue(a, m) /\ m # l
    BY DEF Minimizing
  <2>2. QED
    BY <2>1, <1>1, McFlip
<1>8. QED
  BY <1>3, <1>6, <1>7 DEF Minimizing

(* Every literal of a correction set is false in the model that misses it. *)
LEMMA StartMinimizingSound ==
    ASSUME CallData, NEW cr, NEW cf, Extracted(cr, cf), NEW a, a \in Models(given \cup cr),
           NEW t, t = {} \/ t = Mc!Literals(Missed(a, cf))
    PROVE  Minimizing(a, Missed(a, cf), t, cr, cf)
<1>1. cf \subseteq Constraint
  BY DEF Extracted, CallData, CallInv
<1>2. ASSUME NEW l \in Mc!Literals(Missed(a, cf)) PROVE l \in Lit /\ ~LitTrue(a, l)
  <2>1. PICK c \in Missed(a, cf) : l \in clauses[c]
    BY DEF Mc!Literals, Mc!Clauses
  <2>2. QED
    BY <2>1, <1>1 DEF Missed, Satisfies, CallData, CnfTypeOK
<1>3. t \subseteq Lit /\ \A l \in t : ~LitTrue(a, l)
  BY <1>2
<1>4. QED
  BY <1>3 DEF Minimizing

---------------------------------------------------------------------------
(* Nothing that is said of the seed changes while mcsmus works on it.      *)
LEMMA SeedUnchanged ==
    ASSUME UNCHANGED <<cnfVars, f, given>>
    PROVE  /\ \A g : Sat(g)' <=> Sat(g)
           /\ \A cr, cf : Extracted(cr, cf)' <=> Extracted(cr, cf)
           /\ \A downs : DownsSound(downs)' <=> DownsSound(downs)
           /\ \A bs, cr, k : Blocked(bs, cr, k)' <=> Blocked(bs, cr, k)
           /\ \A a, k, t, cr, cf : Minimizing(a, k, t, cr, cf)' <=> Minimizing(a, k, t, cr, cf)
           /\ \A k, bs, cr, cf : Minimal(k, bs, cr, cf)' <=> Minimal(k, bs, cr, cf)
           /\ \A st, ro, cr, cf : Rotating(st, ro, cr, cf)' <=> Rotating(st, ro, cr, cf)
           /\ \A cr, cf : Examined(cr, cf)' <=> Examined(cr, cf)
           /\ CallData' <=> CallData
<1>1. clauses' = clauses /\ hard_clauses' = hard_clauses /\ f' = f /\ given' = given
  BY DEF cnfVars
<1>2. \A g : Models(g)' = Models(g)
  BY <1>1 DEF Models
<1>3. \A g : Sat(g)' <=> Sat(g)
  BY <1>2 DEF Sat
<1>4. \A cr, g : CritsSound(cr, g)' <=> CritsSound(cr, g)
  BY <1>3 DEF CritsSound
<1>5. \A cr, cf : Extracted(cr, cf)' <=> Extracted(cr, cf)
  BY <1>1, <1>3, <1>4 DEF Extracted
<1>6. \A downs : DownsSound(downs)' <=> DownsSound(downs)
  BY <1>1, <1>3 DEF DownsSound
<1>7. \A bs, cr, k : Blocked(bs, cr, k)' <=> Blocked(bs, cr, k)
  BY DEF Blocked
<1>8. \A a, g : Missed(a, g)' = Missed(a, g)
  BY <1>1 DEF Missed
<1>9. \A a, k, t, cr, cf : Minimizing(a, k, t, cr, cf)' <=> Minimizing(a, k, t, cr, cf)
  BY <1>1, <1>2, <1>8 DEF Minimizing
<1>10. Mc!Hard' = Mc!Hard /\ Mc!Preprocessed' = Mc!Preprocessed
  BY <1>1 DEF Mc!Hard, Mc!Preprocessed, Mc!Soft, Mc!Propagated, Mc!PropagationClosed
<1>11. \A g, bs : Mc!SolverModels(g, bs)' = Mc!SolverModels(g, bs)
  BY <1>1, <1>10 DEF Mc!SolverModels, Mc!Clauses, Mc!Violated
<1>12. \A k, bs, cr, cf : Minimal(k, bs, cr, cf)' <=> Minimal(k, bs, cr, cf)
  BY <1>11 DEF Minimal
<1>13. \A a, c, cr, cf : Isolates(a, c, cr, cf)' <=> Isolates(a, c, cr, cf)
  BY <1>1, <1>2, <1>8 DEF Isolates
<1>14. \A cr, cf : Frames(cr, cf)' = Frames(cr, cf)
  BY <1>1, <1>13 DEF Frames
<1>15. \A st, ro, cr, cf : Rotating(st, ro, cr, cf)' <=> Rotating(st, ro, cr, cf)
  BY <1>1, <1>4, <1>14 DEF Rotating
<1>16. \A cr, cf : Examined(cr, cf)' <=> Examined(cr, cf)
  BY <1>10 DEF Examined
<1>17. CallData' <=> CallData
  BY <1>1, <1>3, <1>4 DEF CallData, CallInv, CnfTypeOK
<1>18. QED
  BY <1>3, <1>5, <1>6, <1>7, <1>9, <1>12, <1>15, <1>16, <1>17

(* Where a step of mcsmus starts.                                          *)
Running == CallData /\ Extracting

LEMMA InitExtracting ==
    ASSUME Mc!Init
    PROVE  Running
<1>1. CnfTypeOK
  <2>1. PICK in \in Inputs : clauses = in.clauses /\ hard_clauses = in.hard_clauses
    BY DEF Mc!Init, Mc!Parse
  <2>2. QED
    BY <2>1, InputsAssumption DEF CnfTypeOK, Input
<1>2. f \in SUBSET Constraint /\ given \in SUBSET f /\ ~Sat(f) /\ \A c \in given : Sat(f \ {c})
  BY SameFormulas DEF Mc!Init, Mc!Callable
<1>3. CallData
  BY <1>1, <1>2 DEF CallData, CallInv, CritsSound
<1>4. step = "start" /\ found = {} /\ conflict = f \ given /\ blocks = {} /\ rotated = {}
  BY DEF Mc!Init, Mc!Soft
<1>5. Extracted(found, conflict)
  <2>1. given \cup {} \cup (f \ given) = f
    BY <1>2
  <2>2. QED
    BY <1>2, <1>4, <2>1 DEF Extracted, CritsSound
<1>6. DownsSound(blockDowns)
  <2>1. PICK known \in SUBSET Mc!AllMcses : blockDowns = Mc!Trimmed(known)
    BY DEF Mc!Init
  <2>2. ASSUME NEW b \in blockDowns
        PROVE  \E m \in SUBSET Constraint :
                   b = m \cap (f \ given) /\ m \cap given = {} /\ Sat(Constraint \ m)
    <3>1. PICK m \in known : b = m \cap (f \ given) /\ m \cap given = {}
      BY <2>1, <2>2 DEF Mc!Trimmed, Mc!Soft
    <3>2. m \in Mc!AllMcses
      BY <2>1
    <3>3. PICK g \in SUBSET Constraint : Mc!IsMss(g) /\ m = Constraint \ g
      BY <3>2, SameFormulas DEF Mc!AllMcses
    <3>4. Sat(g)
      BY <3>3, SameFormulas DEF Mc!IsMss
    <3>5. Constraint \ m = g
      BY <3>3
    <3>6. QED
      BY <3>1, <3>3, <3>4, <3>5
  <2>3. QED
    BY <2>2 DEF DownsSound
<1>7. Extracting
  BY <1>4, <1>5, <1>6 DEF Extracting, Blocked
<1>8. QED
  BY <1>3, <1>7 DEF Running

LEMMA PreprocessStep ==
    ASSUME Running, Mc!Preprocess
    PROVE  Running'
<1>0. UNCHANGED <<cnfVars, f, given, blockDowns, found, blocks, rotated>>
  BY DEF Mc!Preprocess, Mc!seedVars, Mc!rotateVars, Mc!minimizeVars, Mc!cnfVars, cnfVars
<1>1. /\ step = "start" /\ conflict' = Mc!Preprocessed
      /\ step' = IF Cardinality(conflict') <= 1 THEN "returned" ELSE "findCS"
  BY SameCardinality DEF Mc!Preprocess
<1>2. found = {} /\ Blocked(blocks, found, {}) /\ rotated = {} /\ DownsSound(blockDowns)
      /\ CallData /\ Extracted(found, conflict) /\ conflict = f \ given
  BY <1>1 DEF Running, Extracting
<1>3. Mc!Preprocessed \subseteq conflict /\ ~Sat(given \cup Mc!Preprocessed)
  BY <1>2, PreprocessedUnsat DEF CallData, CallInv
<1>4. Extracted({}, Mc!Preprocessed)
  <2>1. given \cup {} \cup Mc!Preprocessed = given \cup Mc!Preprocessed
    OBVIOUS
  <2>2. QED
    BY <1>2, <1>3, <2>1, ConflictShrinks
<1>5. Cardinality(Mc!Preprocessed) <= 1 => Examined({}, Mc!Preprocessed)
  <2>1. IsFiniteSet(Constraint)
    BY SizesAssumption, FS_Interval DEF Constraint
  <2>2. IsFiniteSet(Mc!Preprocessed)
    BY <1>2, <1>3, <2>1, FS_Subset DEF CallData, CallInv
  <2>3. Cardinality(Mc!Preprocessed) \in Nat
        /\ (Cardinality(Mc!Preprocessed) = 0 <=> Mc!Preprocessed = {})
    BY <2>2, FS_CardinalityType, FS_EmptySet
  <2>4. Cardinality(Mc!Preprocessed) <= 1 => Mc!Preprocessed = {} \/ Cardinality(Mc!Preprocessed) = 1
    BY <2>3
  <2>5. QED
    BY <2>4 DEF Examined
<1>6. QED
  BY <1>0, <1>1, <1>2, <1>4, <1>5, SeedUnchanged DEF Running, Extracting

(* A correction set of the conflict that is not empty and counts one has   *)
(* one constraint.                                                         *)
LEMMA AtMostOne ==
    ASSUME CallData, NEW cr, NEW cf, Extracted(cr, cf), NEW a,
           Missed(a, cf) # {}, Cardinality(Missed(a, cf)) <= 1
    PROVE  \E c \in Missed(a, cf) : Missed(a, cf) = {c}
<1>1. IsFiniteSet(Constraint)
  BY SizesAssumption, FS_Interval DEF Constraint
<1>2. Missed(a, cf) \subseteq Constraint
  BY DEF Missed, Extracted, CallData, CallInv
<1>3. IsFiniteSet(Missed(a, cf))
  BY <1>1, <1>2, FS_Subset
<1>4. Cardinality(Missed(a, cf)) \in Nat /\ Cardinality(Missed(a, cf)) # 0
  BY <1>3, FS_CardinalityType, FS_EmptySet
<1>5. Cardinality(Missed(a, cf)) = 1
  BY <1>4
<1>6. QED
  BY <1>3, <1>5, FS_Singleton

(* The part of a step that every action leaves alone, and what is left to  *)
(* show of the invariant.                                                  *)
LEMMA RunningStep ==
    ASSUME Running, UNCHANGED <<cnfVars, f, given, blockDowns>>,
           step' \in {"findCS", "mcsRotate", "pick", "rotate", "refine", "mine", "stalled",
                      "returned"},
           Extracted(found', conflict'),
           IF step' \in {"mcsRotate", "pick"}
              THEN /\ Blocked(blocks', found', cs')
                   /\ Minimizing(mcs_witness', cs', toTry', found', conflict')
              ELSE Blocked(blocks', found', {}),
           step' = "pick" => Minimal(cs', blocks', found', conflict'),
           IF step' = "rotate" THEN Rotating(stack', rotated', found', conflict')
                               ELSE rotated' = {},
           step' = "returned" => Examined(found', conflict')
    PROVE  Running'
BY SeedUnchanged DEF Running, Extracting

LEMMA FindCSStep ==
    ASSUME Running, Mc!FindCS
    PROVE  Running'
<1>1. step = "findCS" /\ UNCHANGED <<cnfVars, f, given, blockDowns, found, rotated>>
  BY DEF Mc!FindCS, Mc!seedVars, Mc!rotateVars, Mc!cnfVars, cnfVars
<1>2. /\ CallData /\ Extracted(found, conflict) /\ Blocked(blocks, found, {}) /\ rotated = {}
  BY <1>1 DEF Running, Extracting
<1>3. CASE Mc!SolverModels(found, blocks) = {}
  <2>1. conflict' = {} /\ step' = "returned" /\ blocks' = blocks
    BY <1>3 DEF Mc!FindCS, Mc!minimizeVars
  <2>2. found \cup {} = found
    OBVIOUS
  <2>3. ~Sat(given \cup found \cup {})
    BY <1>2, <1>3, <2>2, RefutedUnsat
  <2>4. Extracted(found, {})
    BY <1>2, <2>3, ConflictShrinks
  <2>5. QED
    BY <1>1, <1>2, <2>1, <2>4, RunningStep DEF Examined
<1>4. CASE Mc!SolverModels(found, blocks) # {}
  <2>1. /\ mcs_witness' \in Mc!SolverModels(found, blocks)
        /\ cs' = Missed(mcs_witness', conflict)
        /\ conflict' = conflict /\ blocks' = blocks
    BY <1>4, ModelsOf DEF Mc!FindCS
  <2>2. mcs_witness' \in Models(given \cup found)
    BY <2>1, SolverModelsOf
  <2>3. mcs_witness' \in Models(given) /\ cs' # {}
    BY <1>2, <2>1, <2>2, CorrectionSetNotEmpty, ModelsOf
  <2>4. step' = (IF Cardinality(cs') <= 1 THEN "pick" ELSE "mcsRotate")
        /\ toTry' = (IF Cardinality(cs') <= 1 THEN {} ELSE Mc!Literals(cs'))
    BY <1>4, SameCardinality DEF Mc!FindCS, Mc!StartMinimizing
  <2>5. Minimizing(mcs_witness', cs', toTry', found, conflict)
    BY <1>2, <2>1, <2>2, <2>4, StartMinimizingSound
  <2>6. Blocked(blocks, found, cs')
    BY <1>2 DEF Blocked
  <2>7. step' = "pick" => Minimal(cs', blocks, found, conflict)
    BY <1>2, <2>1, <2>3, <2>4, AtMostOne DEF Minimal
  <2>8. QED
    BY <1>1, <1>2, <2>1, <2>4, <2>5, <2>6, <2>7, RunningStep
<1>5. QED
  BY <1>3, <1>4

LEMMA McsRotateStep ==
    ASSUME Running, Mc!McsRotate
    PROVE  Running'
<1>1. /\ step = "mcsRotate" /\ step' = step
      /\ UNCHANGED <<cnfVars, f, given, blockDowns, found, conflict, blocks, rotated>>
  BY DEF Mc!McsRotate, Mc!seedVars, Mc!rotateVars, Mc!cnfVars, cnfVars
<1>2. /\ CallData /\ Extracted(found, conflict) /\ Blocked(blocks, found, cs) /\ rotated = {}
      /\ Minimizing(mcs_witness, cs, toTry, found, conflict)
  BY <1>1 DEF Running, Extracting
<1>3. PICK l \in toTry :
          /\ toTry' = toTry \ {l}
          /\ IF Mc!FlipAllowed(Mc!Abs(l))
                THEN /\ mcs_witness' = Mc!Flip(mcs_witness, Mc!Abs(l))
                     /\ cs' = {c \in cs : l \notin clauses[c]}
                ELSE UNCHANGED <<mcs_witness, cs>>
  BY DEF Mc!McsRotate
<1>4. CASE Mc!FlipAllowed(Mc!Abs(l))
  <2> DEFINE x == Mc!Flip(mcs_witness, Mc!Abs(l))
  <2>1. Missed(x, found \cup (conflict \ cs)) = {} /\ \A h \in Mc!Hard : Satisfies(x, h)
    BY <1>4, ModelsOf, SameFormulas DEF Mc!FlipAllowed, Mc!Assumed
  <2>2. x \in Models(given)
    <3>1. mcs_witness \in SUBSET Var /\ l \in Lit /\ ~LitTrue(mcs_witness, l)
      BY <1>2 DEF Minimizing, Models
    <3>2. QED
      BY <2>1, <3>1, McFlip, ModelsOf
  <2>3. mcs_witness' = x /\ cs' = {c \in cs : l \notin clauses[c]}
    BY <1>3, <1>4
  <2>4. Minimizing(mcs_witness', cs', toTry', found, conflict)
    BY <1>2, <1>3, <2>1, <2>2, <2>3, RotateMinimizing
  <2>5. Missed(x, found) = {} /\ cs' = Missed(x, conflict)
    BY <2>1, <2>3, <2>4, MissedUnion DEF Minimizing
  <2>6. cs' # {}
    BY <1>2, <2>2, <2>5, CorrectionSetNotEmpty
  <2>7. Blocked(blocks, found, cs')
    <3>1. cs' \subseteq cs
      BY <2>3
    <3>2. QED
      BY <1>2, <2>6, <3>1 DEF Blocked
  <2>8. QED
    BY <1>1, <1>2, <2>4, <2>7, RunningStep
<1>5. CASE ~Mc!FlipAllowed(Mc!Abs(l))
  <2>1. mcs_witness' = mcs_witness /\ cs' = cs /\ toTry' \subseteq toTry
    BY <1>3, <1>5
  <2>2. Minimizing(mcs_witness', cs', toTry', found, conflict)
    BY <1>2, <2>1 DEF Minimizing
  <2>3. QED
    BY <1>1, <1>2, <2>1, <2>2, RunningStep
<1>6. QED
  BY <1>4, <1>5

LEMMA MinimizeCSStep ==
    ASSUME Running, Mc!MinimizeCS
    PROVE  Running'
<1>1. /\ step = "mcsRotate"
      /\ UNCHANGED <<cnfVars, f, given, blockDowns, found, conflict, rotated>>
      /\ blocks' = blocks \cup {cs}
  BY DEF Mc!MinimizeCS, Mc!Block, Mc!seedVars, Mc!rotateVars, Mc!cnfVars, cnfVars
<1>2. /\ CallData /\ Extracted(found, conflict) /\ Blocked(blocks, found, cs) /\ rotated = {}
      /\ Minimizing(mcs_witness, cs, toTry, found, conflict)
  BY <1>1 DEF Running, Extracting
<1>3. cs # {} /\ cs \subseteq conflict
  <2>1. mcs_witness \in Models(given) /\ Missed(mcs_witness, found) = {}
        /\ cs = Missed(mcs_witness, conflict)
    BY <1>2, ModelsOf DEF Minimizing
  <2>2. QED
    BY <1>2, <2>1, CorrectionSetNotEmpty DEF Missed
<1>4. CASE Mc!SolverModels(found \cup (conflict \ cs), blocks') = {}
  <2>1. step' = "pick" /\ UNCHANGED <<cs, mcs_witness, toTry>>
    BY <1>4 DEF Mc!MinimizeCS, Mc!Assumed
  <2>2. Blocked(blocks', found, cs)
    BY <1>1, <1>2, <1>3 DEF Blocked
  <2>3. Minimal(cs, blocks', found, conflict)
    BY <1>4 DEF Minimal
  <2>4. QED
    BY <1>1, <1>2, <2>1, <2>2, <2>3, RunningStep
<1>5. CASE Mc!SolverModels(found \cup (conflict \ cs), blocks') # {}
  <2>1. /\ mcs_witness' \in Mc!SolverModels(found \cup (conflict \ cs), blocks')
        /\ cs' = Missed(mcs_witness', cs)
    BY <1>5, ModelsOf DEF Mc!MinimizeCS, Mc!Assumed
  <2>2. mcs_witness' \in Models(given \cup (found \cup (conflict \ cs)))
    BY <2>1, SolverModelsOf
  <2>3. /\ mcs_witness' \in Models(given) /\ Missed(mcs_witness', found) = {}
        /\ Missed(mcs_witness', conflict \ cs) = {}
    <3>1. /\ mcs_witness' \in Models(given)
          /\ Missed(mcs_witness', found \cup (conflict \ cs)) = {}
      BY <2>2, ModelsOf
    <3>2. QED
      BY <3>1, MissedUnion
  <2>4. cs' = Missed(mcs_witness', conflict)
    <3>1. conflict = (conflict \ cs) \cup cs
      BY <1>3
    <3>2. Missed(mcs_witness', conflict) =
              Missed(mcs_witness', conflict \ cs) \cup Missed(mcs_witness', cs)
      BY <3>1, MissedUnion
    <3>3. QED
      BY <2>1, <2>3, <3>2
  <2>5. cs' # {}
    BY <1>2, <2>3, <2>4, CorrectionSetNotEmpty
  <2>6. step' = (IF Cardinality(cs') <= 1 THEN "pick" ELSE "mcsRotate")
        /\ toTry' = (IF Cardinality(cs') <= 1 THEN {} ELSE Mc!Literals(cs'))
    BY <1>5, SameCardinality DEF Mc!MinimizeCS, Mc!Assumed, Mc!StartMinimizing
  <2>7. mcs_witness' \in Models(given \cup found)
    BY <2>3, ModelsOf
  <2>8. Minimizing(mcs_witness', cs', toTry', found, conflict)
    BY <1>2, <2>4, <2>6, <2>7, StartMinimizingSound
  <2>9. Blocked(blocks', found, cs')
    <3>1. cs' \subseteq cs
      BY <2>1 DEF Missed
    <3>2. QED
      BY <1>1, <1>2, <2>5, <3>1 DEF Blocked
  <2>10. step' = "pick" => Minimal(cs', blocks', found, conflict)
    BY <1>2, <2>4, <2>5, <2>6, AtMostOne DEF Minimal
  <2>11. QED
    BY <1>1, <1>2, <2>6, <2>8, <2>9, <2>10, RunningStep
<1>6. QED
  BY <1>4, <1>5

LEMMA MinimizedStep ==
    ASSUME Running, Mc!Minimized
    PROVE  Running'
<1>1. /\ step = "mcsRotate" /\ step' = "pick" /\ Cardinality(cs) <= 1
      /\ UNCHANGED <<cnfVars, f, given, blockDowns, found, conflict, cs, blocks, mcs_witness,
                     toTry, rotated>>
  BY SameCardinality
     DEF Mc!Minimized, Mc!seedVars, Mc!minimizeVars, Mc!rotateVars, Mc!cnfVars, cnfVars
<1>2. /\ CallData /\ Extracted(found, conflict) /\ Blocked(blocks, found, cs) /\ rotated = {}
      /\ Minimizing(mcs_witness, cs, toTry, found, conflict)
  BY <1>1 DEF Running, Extracting
<1>3. mcs_witness \in Models(given) /\ Missed(mcs_witness, found) = {}
      /\ cs = Missed(mcs_witness, conflict)
  BY <1>2, ModelsOf DEF Minimizing
<1>4. Minimal(cs, blocks, found, conflict)
  BY <1>1, <1>2, <1>3, CorrectionSetNotEmpty, AtMostOne DEF Minimal
<1>5. QED
  BY <1>1, <1>2, <1>4, RunningStep

---------------------------------------------------------------------------
(* The stack of calls: replacing its first frame, pushing two.             *)
LEMMA TwoFields ==
    ASSUME NEW fr, NEW st, st # <<>>, NEW S, st \in Seq(S), fr = st[1], NEW x, NEW y
    PROVE  [st EXCEPT ![1].todo = @ \ x, ![1].rotations = @ \cup y] =
               [st EXCEPT ![1] = [fr EXCEPT !.todo = @ \ x, !.rotations = @ \cup y]]
OBVIOUS

LEMMA FrameReplaced ==
    ASSUME NEW S, NEW st \in Seq(S), st # <<>>, NEW fr \in S
    PROVE  [st EXCEPT ![1] = fr] \in Seq(S) /\ [st EXCEPT ![1] = fr] # <<>>
OBVIOUS

LEMMA PushFrames ==
    ASSUME NEW S, NEW st \in Seq(S), st # <<>>, NEW x \in S, NEW y \in S
    PROVE  <<x, y>> \o Tail(st) \in Seq(S) /\ <<x, y>> \o Tail(st) # <<>>
OBVIOUS

(* A variable tried in a call, and a rotation taken from it.               *)
LEMMA RotatedFrame ==
    ASSUME NEW cr, NEW cf, NEW fr \in Frames(cr, cf), NEW v \in fr.todo, NEW B,
           \A b \in B : b \in Constraint /\ Isolates(Mc!Flip(fr.model, v), b, cr, cf)
    PROVE  [fr EXCEPT !.todo = @ \ {v}, !.rotations = @ \cup {<<v, b>> : b \in B}]
               \in Frames(cr, cf)
<1> DEFINE new == [fr EXCEPT !.todo = @ \ {v}, !.rotations = @ \cup {<<v, b>> : b \in B}]
<1>1. /\ fr \in [inviolated : Constraint, model : SUBSET Var,
                 rotations : SUBSET (Var \X Constraint), todo : SUBSET Var]
      /\ Isolates(fr.model, fr.inviolated, cr, cf)
      /\ fr.todo \subseteq {Mc!Abs(l) : l \in clauses[fr.inviolated]}
      /\ \A r \in fr.rotations : Isolates(Mc!Flip(fr.model, r[1]), r[2], cr, cf)
  BY DEF Frames
<1>2. fr.todo \ {v} \in SUBSET Var /\ v \in Var
  BY <1>1
<1>3. fr.rotations \cup {<<v, b>> : b \in B} \in SUBSET (Var \X Constraint)
  BY <1>1, <1>2
<1>4. /\ new.inviolated = fr.inviolated /\ new.model = fr.model
      /\ new.todo = fr.todo \ {v} /\ new.rotations = fr.rotations \cup {<<v, b>> : b \in B}
      /\ new \in [inviolated : Constraint, model : SUBSET Var,
                  rotations : SUBSET (Var \X Constraint), todo : SUBSET Var]
  BY <1>1, <1>2, <1>3
<1>5. ASSUME NEW r \in new.rotations PROVE Isolates(Mc!Flip(fr.model, r[1]), r[2], cr, cf)
  <2>1. CASE r \in fr.rotations
    BY <1>1, <2>1
  <2>2. CASE \E b \in B : r = <<v, b>>
    <3>1. PICK b \in B : r = <<v, b>>
      BY <2>2
    <3>2. r[1] = v /\ r[2] = b
      BY <3>1
    <3>3. QED
      BY <3>2
  <2>3. r \in fr.rotations \/ \E b \in B : r = <<v, b>>
    BY <1>4
  <2>4. QED
    BY <2>1, <2>2, <2>3
<1>6. new.todo \subseteq {Mc!Abs(l) : l \in clauses[fr.inviolated]}
  BY <1>1, <1>4
<1>7. QED
  BY <1>1, <1>4, <1>5, <1>6 DEF Frames

LEMMA FewerRotations ==
    ASSUME NEW cr, NEW cf, NEW fr \in Frames(cr, cf), NEW r
    PROVE  [fr EXCEPT !.rotations = @ \ {r}] \in Frames(cr, cf)
<1> DEFINE new == [fr EXCEPT !.rotations = @ \ {r}]
<1>1. /\ fr \in [inviolated : Constraint, model : SUBSET Var,
                 rotations : SUBSET (Var \X Constraint), todo : SUBSET Var]
      /\ fr.rotations \ {r} \in SUBSET (Var \X Constraint)
  BY DEF Frames
<1>2. /\ new.inviolated = fr.inviolated /\ new.model = fr.model
      /\ new.todo = fr.todo /\ new.rotations = fr.rotations \ {r}
      /\ new \in [inviolated : Constraint, model : SUBSET Var,
                  rotations : SUBSET (Var \X Constraint), todo : SUBSET Var]
  BY <1>1
<1>3. QED
  BY <1>2 DEF Frames

---------------------------------------------------------------------------
(* Model rotation.                                                         *)

(* A call for a constraint and a model that misses it alone.               *)
LEMMA CallFrame ==
    ASSUME CallData, NEW cr, NEW cf, Extracted(cr, cf), NEW a, NEW c,
           Isolates(a, c, cr, cf), NEW values
    PROVE  Mc!Call(c, a, values) \in Frames(cr, cf)
<1>1. c \in Constraint /\ a \in SUBSET Var
  BY IsolatedCritical DEF Isolates, Models
<1>2. {Mc!Abs(l) : l \in clauses[c]} \subseteq Var
  <2>1. ASSUME NEW l \in clauses[c] PROVE Mc!Abs(l) \in Var
    <3>1. l \in Lit
      BY <1>1 DEF CallData, CnfTypeOK
    <3>2. QED
      BY <3>1, SizesAssumption DEF Mc!Abs, Lit, Var
  <2>2. QED
    BY <2>1
<1>3. PICK t : t \subseteq {Mc!Abs(l) : l \in clauses[c]}
               /\ Mc!Call(c, a, values) =
                      [inviolated |-> c, model |-> a, rotations |-> {}, todo |-> t]
  BY DEF Mc!Call
<1>4. t \in SUBSET Var
  BY <1>2, <1>3
<1>5. QED
  BY <1>1, <1>3, <1>4 DEF Frames

(* A flip that breaks one constraint alone moves the violation to it.      *)
LEMMA RotatesToIsolates ==
    ASSUME CallData, NEW cr, NEW cf, Extracted(cr, cf), NEW fr \in Frames(cr, cf),
           NEW v \in fr.todo, NEW b,
           Missed(Mc!Flip(fr.model, v), cf \cup cr) \ {fr.inviolated} = {b},
           \A h \in Mc!Hard : Satisfies(Mc!Flip(fr.model, v), h)
    PROVE  Isolates(Mc!Flip(fr.model, v), b, cr, cf)
<1> DEFINE c == fr.inviolated
           x == Mc!Flip(fr.model, v)
<1>1. c \in Constraint /\ fr.model \in SUBSET Var /\ Isolates(fr.model, c, cr, cf)
      /\ v \in {Mc!Abs(l) : l \in clauses[c]}
  BY DEF Frames
<1>2. PICK l \in clauses[c] : v = Mc!Abs(l)
  BY <1>1
<1>3. ~Satisfies(fr.model, clauses[c])
  BY <1>1 DEF Isolates, Missed
<1>4. l \in Lit /\ ~LitTrue(fr.model, l)
  BY <1>1, <1>3 DEF CallData, CnfTypeOK, Satisfies
<1>5. Satisfies(x, clauses[c]) /\ x \in SUBSET Var
  BY <1>1, <1>2, <1>3, <1>4, FlipMissed, McFlip DEF CallData
<1>6. x \in Models(given)
  BY <1>5, ModelsOf
<1>7. c \notin Missed(x, cf \cup cr)
  BY <1>5 DEF Missed
<1>8. Missed(x, cr \cup cf) = {b}
  <2>1. cr \cup cf = cf \cup cr
    OBVIOUS
  <2>2. QED
    BY <1>7, <2>1
<1>9. QED
  BY <1>6, <1>8 DEF Isolates

LEMMA PickStep ==
    ASSUME Running, Mc!Pick
    PROVE  Running'
<1>1. /\ step = "pick" /\ conflict' = conflict \ cs
      /\ UNCHANGED <<cnfVars, f, given, blockDowns, blocks, rotated>>
  BY DEF Mc!Pick, Mc!seedVars, Mc!minimizeVars, Mc!cnfVars, cnfVars
<1>2. /\ CallData /\ Extracted(found, conflict) /\ Blocked(blocks, found, cs) /\ rotated = {}
      /\ Minimizing(mcs_witness, cs, toTry, found, conflict)
      /\ Minimal(cs, blocks, found, conflict)
  BY <1>1 DEF Running, Extracting
<1>3. cs # {}
  <2>1. mcs_witness \in Models(given) /\ Missed(mcs_witness, found) = {}
        /\ cs = Missed(mcs_witness, conflict)
    BY <1>2, ModelsOf DEF Minimizing
  <2>2. QED
    BY <1>2, <2>1, CorrectionSetNotEmpty
<1>4. PICK c \in cs : /\ found' = found \cup {c} /\ step' = "rotate"
                      /\ stack' = <<Mc!Call(c, mcs_witness, fixed')>>
  BY <1>3 DEF Mc!Pick
<1>5. /\ Extracted(found', conflict') /\ Blocked(blocks, found', {})
      /\ Isolates(mcs_witness, c, found', conflict')
  BY <1>1, <1>2, <1>4, PickSound
<1>6. Mc!Call(c, mcs_witness, fixed') \in Frames(found', conflict')
  BY <1>2, <1>5, CallFrame
<1>7. stack' \in Seq(Frames(found', conflict')) /\ stack' # <<>>
  BY <1>4, <1>6
<1>8. Rotating(stack', rotated', found', conflict')
  BY <1>1, <1>2, <1>7 DEF Rotating, CritsSound
<1>9. QED
  BY <1>1, <1>2, <1>4, <1>5, <1>8, RunningStep

(* What is known while a call of modelRotate_ runs.                        *)
LEMMA RotateFacts ==
    ASSUME Running, step = "rotate"
    PROVE  /\ CallData /\ Extracted(found, conflict) /\ Blocked(blocks, found, {})
           /\ stack \in Seq(Frames(found, conflict)) /\ stack # <<>>
           /\ Head(stack) = stack[1] /\ Head(stack) \in Frames(found, conflict)
           /\ rotated \subseteq found \cup conflict
           /\ CritsSound(rotated, given \cup found \cup conflict)
<1>1. Rotating(stack, rotated, found, conflict)
  BY DEF Running, Extracting
<1>2. Head(stack) = stack[1] /\ Head(stack) \in Frames(found, conflict)
  BY <1>1 DEF Rotating
<1>3. QED
  BY <1>1, <1>2 DEF Running, Extracting, Rotating

LEMMA TryVariableStep ==
    ASSUME Running, Mc!TryVariable
    PROVE  Running'
<1>1. /\ step = "rotate" /\ step' = step
      /\ UNCHANGED <<cnfVars, f, given, blockDowns, found, conflict, blocks>>
  BY DEF Mc!TryVariable, Mc!seedVars, Mc!minimizeVars, Mc!cnfVars, cnfVars
<1> DEFINE fr == Head(stack)
           new(v) == [fr EXCEPT !.todo = @ \ {v},
                                !.rotations = @ \cup {<<v, b>> : b \in Mc!RotatesTo(v)}]
<1>2. PICK v \in fr.todo :
          /\ stack' = [stack EXCEPT ![1].todo = @ \ {v},
                                    ![1].rotations = @ \cup {<<v, b>> : b \in Mc!RotatesTo(v)}]
          /\ rotated' = rotated \cup Mc!RotatesTo(v)
  BY DEF Mc!TryVariable
<1>3. /\ CallData /\ Extracted(found, conflict) /\ Blocked(blocks, found, {})
      /\ stack \in Seq(Frames(found, conflict)) /\ stack # <<>>
      /\ fr = stack[1] /\ fr \in Frames(found, conflict)
      /\ rotated \subseteq found \cup conflict
      /\ CritsSound(rotated, given \cup found \cup conflict)
  BY <1>1, RotateFacts
<1>4. ASSUME NEW b \in Mc!RotatesTo(v)
      PROVE  /\ Isolates(Mc!Flip(fr.model, v), b, found, conflict)
             /\ b \in found \cup conflict /\ b \in Constraint
             /\ Sat((given \cup found \cup conflict) \ {b})
  <2>1. /\ Missed(Mc!Flip(fr.model, v), conflict \cup found) \ {fr.inviolated} = {b}
        /\ \A h \in Mc!Hard : Satisfies(Mc!Flip(fr.model, v), h)
    BY SameFormulas, ModelsOf DEF Mc!RotatesTo, Mc!Broken
  <2>2. Isolates(Mc!Flip(fr.model, v), b, found, conflict)
    BY <1>3, <2>1, RotatesToIsolates
  <2>3. QED
    BY <1>3, <2>2, IsolatedCritical
<1>5. new(v) \in Frames(found, conflict)
  BY <1>3, <1>4, RotatedFrame
<1>6. stack' = [stack EXCEPT ![1] = new(v)]
  BY <1>2, <1>3, TwoFields
<1>7. stack' \in Seq(Frames(found, conflict)) /\ stack' # <<>>
  BY <1>3, <1>5, <1>6, FrameReplaced
<1>8. Rotating(stack', rotated', found, conflict)
  BY <1>2, <1>3, <1>4, <1>7 DEF Rotating, CritsSound
<1>9. QED
  BY <1>1, <1>3, <1>8, RunningStep

LEMMA RecurseStep ==
    ASSUME Running, Mc!Recurse
    PROVE  Running'
<1>1. /\ step = "rotate" /\ step' = step
      /\ UNCHANGED <<cnfVars, f, given, blockDowns, found, conflict, blocks, rotated>>
  BY DEF Mc!Recurse, Mc!seedVars, Mc!minimizeVars, Mc!cnfVars, cnfVars
<1> DEFINE fr == Head(stack)
           F == Frames(found, conflict)
<1>2. PICK r \in fr.rotations :
          stack' = <<Mc!Call(r[2], Mc!Flip(fr.model, r[1]), fixed),
                     [fr EXCEPT !.rotations = @ \ {r}]>> \o Tail(stack)
  BY DEF Mc!Recurse
<1>3. /\ CallData /\ Extracted(found, conflict) /\ Blocked(blocks, found, {})
      /\ stack \in Seq(F) /\ stack # <<>> /\ fr \in F
      /\ rotated \subseteq found \cup conflict
      /\ CritsSound(rotated, given \cup found \cup conflict)
  BY <1>1, RotateFacts
<1>4. Isolates(Mc!Flip(fr.model, r[1]), r[2], found, conflict)
  BY <1>3 DEF Frames
<1>5. Mc!Call(r[2], Mc!Flip(fr.model, r[1]), fixed) \in F
  BY <1>3, <1>4, CallFrame
<1>6. [fr EXCEPT !.rotations = @ \ {r}] \in F
  <2>1. fr.rotations \ {r} \in SUBSET (Var \X Constraint)
    BY <1>3 DEF Frames
  <2>2. QED
    BY <1>3, <2>1, FewerRotations
<1>7. stack' \in Seq(F) /\ stack' # <<>>
  BY ONLY <1>2, <1>3, <1>5, <1>6, PushFrames
<1>8. Rotating(stack', rotated', found, conflict)
  BY <1>1, <1>3, <1>7 DEF Rotating
<1>9. QED
  BY <1>1, <1>3, <1>8, RunningStep

LEMMA ReturnStep ==
    ASSUME Running, Mc!Return
    PROVE  Running'
<1>1. /\ step = "rotate" /\ stack' = Tail(stack)
      /\ UNCHANGED <<cnfVars, f, given, blockDowns, blocks>>
  BY DEF Mc!Return, Mc!seedVars, Mc!cnfVars, cnfVars
<1>2. /\ CallData /\ Extracted(found, conflict) /\ Blocked(blocks, found, {})
      /\ stack \in Seq(Frames(found, conflict)) /\ stack # <<>>
      /\ rotated \subseteq found \cup conflict
      /\ CritsSound(rotated, given \cup found \cup conflict)
  BY <1>1, RotateFacts
<1>3. CASE stack' # <<>>
  <2>1. UNCHANGED <<step, conflict, found, rotated>>
    BY <1>3 DEF Mc!Return
  <2>2. stack' \in Seq(Frames(found, conflict))
    BY <1>1, <1>2
  <2>3. Rotating(stack', rotated', found, conflict)
    BY <1>2, <1>3, <2>1, <2>2 DEF Rotating
  <2>4. QED
    BY <1>1, <1>2, <2>1, <2>3, RunningStep
<1>4. CASE stack' = <<>>
  <2>1. /\ found' = found \cup rotated /\ conflict' = conflict \ rotated
        /\ step' \in {"refine", "mine"} /\ rotated' = {}
    BY <1>4 DEF Mc!Return
  <2>2. Extracted(found', conflict')
    BY <1>2, <2>1, CriticalsGrow
  <2>3. Blocked(blocks, found', {})
    BY <1>2, <2>1 DEF Blocked
  <2>4. QED
    BY <1>1, <1>2, <2>1, <2>2, <2>3, RunningStep
<1>5. QED
  BY <1>3, <1>4

---------------------------------------------------------------------------
(* refute_and_refine finds no model, so that it never fails.               *)
LEMMA RefuteAndRefineStep ==
    ASSUME Running, step \in {"refine", "stalled"}, NEW next,
           next \in {"mine", "returned", "findCS"},
           next = "returned" => conflict' = {},
           Mc!RefuteAndRefine(next)
    PROVE  Running'
<1>1. UNCHANGED <<cnfVars, f, given, blockDowns, found, blocks, rotated>>
  BY DEF Mc!RefuteAndRefine, Mc!seedVars, Mc!minimizeVars, Mc!rotateVars, Mc!cnfVars, cnfVars
<1>2. CallData /\ Extracted(found, conflict) /\ Blocked(blocks, found, {}) /\ rotated = {}
  BY DEF Running, Extracting
<1>3. Mc!SolverModels(found \cup conflict, blocks) = {}
  BY <1>2, RefutedUnsat DEF Extracted
<1>4. PICK g \in SUBSET conflict : conflict' = g /\ Mc!SolverModels(found \cup g, blocks) = {}
  BY <1>3 DEF Mc!RefuteAndRefine
<1>5. step' = next
  BY <1>3 DEF Mc!RefuteAndRefine
<1>6. Extracted(found, conflict')
  BY <1>2, <1>4, RefutedUnsat, ConflictShrinks
<1>7. QED
  BY <1>1, <1>2, <1>5, <1>6, RunningStep DEF Examined

LEMMA MineStep ==
    ASSUME Running, Mc!Mine
    PROVE  Running'
<1> DEFINE new == {c \in conflict : Mc!IsMinableCritical(c)}
<1>1. /\ step = "mine" /\ found' = found \cup new /\ conflict' = conflict \ new
      /\ UNCHANGED <<cnfVars, f, given, blockDowns, blocks, rotated>>
  BY DEF Mc!Mine, Mc!seedVars, Mc!rotateVars, Mc!cnfVars, cnfVars
<1>2. \/ step' = "returned" /\ conflict' = {}
      \/ step' \in {"findCS", "stalled"}
  BY DEF Mc!Mine
<1>3. /\ CallData /\ Extracted(found, conflict) /\ Blocked(blocks, found, {}) /\ rotated = {}
      /\ DownsSound(blockDowns)
  BY <1>1 DEF Running, Extracting
<1>4. ASSUME NEW c \in new PROVE c \in Constraint /\ Sat((given \cup found \cup conflict) \ {c})
  <2>1. PICK b \in blockDowns : b \cap ((conflict \cup found) \ {c}) = {}
    BY DEF Mc!IsMinableCritical
  <2>2. Sat((given \cup found \cup conflict) \ {c})
    BY <1>3, <2>1, MinedCritical
  <2>3. c \in Constraint
    BY <1>3 DEF Extracted, CallData, CallInv
  <2>4. QED
    BY <2>2, <2>3
<1>5. Extracted(found', conflict')
  <2>1. CritsSound(new, given \cup found \cup conflict)
    BY <1>4 DEF CritsSound
  <2>2. QED
    BY <1>1, <1>3, <2>1, CriticalsGrow
<1>6. Blocked(blocks, found', {})
  BY <1>1, <1>3 DEF Blocked
<1>7. QED
  BY <1>1, <1>2, <1>3, <1>5, <1>6, RunningStep DEF Examined

(* Every step of mcsmus keeps the invariant.                               *)
LEMMA McsmusStep ==
    ASSUME Running, Mc!Next, step # "returned"
    PROVE  Running'
<1>1. CASE Mc!Refine
  BY <1>1, RefuteAndRefineStep DEF Mc!Refine
<1>2. CASE Mc!Stalled
  <2>1. step = "stalled"
    BY <1>2 DEF Mc!Stalled
  <2>2. CASE conflict' = {}
    BY <1>2, <2>1, <2>2, RefuteAndRefineStep DEF Mc!Stalled
  <2>3. CASE conflict' # {}
    BY <1>2, <2>1, <2>3, RefuteAndRefineStep DEF Mc!Stalled
  <2>4. QED
    BY <2>2, <2>3
<1>3. CASE Mc!Returned
  BY <1>3 DEF Mc!Returned, Running, Extracting
<1>4. QED
  BY <1>1, <1>2, <1>3, PreprocessStep, FindCSStep, McsRotateStep, MinimizeCSStep,
     MinimizedStep, PickStep, TryVariableStep, RecurseStep, ReturnStep, MineStep
     DEF Mc!Next

---------------------------------------------------------------------------
(* Whole calls of shrink, with any value of --shrink.                      *)

(* What every file read says of the seed and its criticals.                *)
LEMMA InitMcsmusInv ==
    ASSUME CallInit
    PROVE  McsmusInv
<1>1. CASE Init /\ NoSolver
  <2>1. PICK in \in Inputs : clauses = in.clauses /\ hard_clauses = in.hard_clauses
    BY <1>1 DEF Init, Parse
  <2>2. CnfTypeOK
    BY <2>1, InputsAssumption DEF CnfTypeOK, Input
  <2>3. QED
    BY <1>1, <2>2 DEF Init, McsmusInv, CallData, CallInv, CritsSound
<1>2. CASE Mc!Init /\ phase = "mcsmus"
  BY <1>2, InitExtracting DEF McsmusInv, Running
<1>3. QED
  BY <1>1, <1>2 DEF CallInit

(* The steps of the other algorithms leave the arguments alone, and change *)
(* the phase as they should.                                               *)
LEMMA OtherAlgorithmPhases ==
    ASSUME OtherAlgorithm
    PROVE  /\ UNCHANGED <<cnfVars, f, given, shrink_alg>> /\ UNCHANGED localVars
           /\ phase \in {"loop", "file"} /\ phase' \in {"loop", "file", "returned"}
           /\ phase = "file" => phase' = "returned"
BY DEF OtherAlgorithm, Next, Looping, Skip, Remove, Keep, LoopEnds, RunMuser, Import, Returned

LEMMA McsmusInvStep ==
    ASSUME McsmusInv, [CallNext]_callVars
    PROVE  McsmusInv'
<1>1. CASE OtherAlgorithm
  BY <1>1, OtherAlgorithmPhases, SeedUnchanged DEF McsmusInv, NoSolver, localVars
<1>2. CASE Mcsmus
  <2>1. Running /\ phase' = "mcsmus" /\ Mc!Next /\ step # "returned"
    BY <1>2 DEF Mcsmus, McsmusInv, Running
  <2>2. QED
    BY <2>1, McsmusStep DEF McsmusInv, Running
<1>3. CASE McsmusReturns \/ McsmusThrows
  <2>1. UNCHANGED <<cnfVars, f, given>> /\ phase' \in {"loop", "returned"} /\ Discard
    BY <1>3 DEF McsmusReturns, McsmusThrows
  <2>2. QED
    BY <2>1, SeedUnchanged DEF McsmusInv, NoSolver, Discard
<1>4. CASE UNCHANGED callVars
  <2>1. UNCHANGED <<cnfVars, f, given, phase>> /\ UNCHANGED localVars
    BY <1>4 DEF callVars, shrinkVars
  <2>2. CASE phase = "mcsmus"
    BY <2>1, <2>2, SeedUnchanged DEF McsmusInv, Extracting, localVars
  <2>3. CASE phase # "mcsmus"
    BY <2>1, <2>3, SeedUnchanged DEF McsmusInv, NoSolver, localVars
  <2>4. QED
    BY <2>2, <2>3
<1>5. CASE CallReturned
  BY <1>4, <1>5 DEF CallReturned, Returned, callVars
<1>6. QED
  BY <1>1, <1>2, <1>3, <1>4, <1>5 DEF CallNext

(* Whatever models, cores and orders the solver and the search choose.     *)
THEOREM McsmusInvariantHolds == CallSpec => []McsmusInv
<1>1. CallInit => McsmusInv
  BY InitMcsmusInv
<1>2. McsmusInv /\ [CallNext]_callVars => McsmusInv'
  BY McsmusInvStep
<1>3. QED
  BY <1>1, <1>2, PTL DEF CallSpec

(* mcsmus never throws because of an empty correction set or because what  *)
(* it has left is satisfiable: what shrink falls back for does not happen. *)
THEOREM McsmusNeverFails == CallSpec => []NeverFails
<1>1. McsmusInv => NeverFails
  BY DEF McsmusInv, Extracting, NoSolver, NeverFails, Mc!NeverFails
<1>2. QED
  BY <1>1, McsmusInvariantHolds, PTL

(* The clauses that minimization leaves in the solver are satisfied by the *)
(* criticals whenever a correction set is looked for.                      *)
THEOREM McsmusBlocksHarmless == CallSpec => []BlocksAreHarmless
<1>1. McsmusInv => BlocksAreHarmless
  BY DEF McsmusInv, Extracting, NoSolver, Blocked, BlocksAreHarmless, Mc!BlocksAreHarmless
<1>2. QED
  BY <1>1, McsmusInvariantHolds, PTL

(* mcsmus never touches the formula, the seed or its criticals.            *)
LEMMA SeedKept ==
    ASSUME Mc!Next
    PROVE  UNCHANGED <<cnfVars, f, given, blockDowns>>
BY DEF Mc!Next, Mc!Preprocess, Mc!FindCS, Mc!McsRotate, Mc!MinimizeCS, Mc!Minimized, Mc!Pick,
   Mc!TryVariable, Mc!Recurse, Mc!Return, Mc!Refine, Mc!RefuteAndRefine, Mc!Mine, Mc!Stalled,
   Mc!Returned, Mc!mcsmusVars, Mc!seedVars, Mc!cnfVars, cnfVars

---------------------------------------------------------------------------
(* The hypothesis of the theorems on results: shrink turns to muser2 when  *)
(* mcsmus throws, whatever --shrink was.                                   *)
CallInputs ==
    \A in \in Inputs :
        /\ "extension" \in ShrinkAlgs => in.hard_clauses = {}
        /\ Unambiguous(in.clauses, in.hard_clauses)

(* A conflict of one constraint that preprocessing has left is returned    *)
(* unexamined.  It is needed unless the given criticals are unsatisfiable  *)
(* without it (run mcsmus_unit).                                           *)
Prepared == Sat(given) \/ Cardinality(Mc!Preprocessed) # 1

(* What a call with mcsmus does: it returns, or leaves its arguments to    *)
(* the loop.                                                               *)
AlgInv ==
    /\ Unambiguous(clauses, hard_clauses)
    /\ IF phase = "mcsmus"
          THEN shrink_alg = "default" /\ s = f /\ i = 1 /\ crits = given
          ELSE Inv \/ (shrink_alg = "default" /\ phase = "returned" /\ ~Prepared)

(* All that mcsmus returns is needed: what it found critical, and what it  *)
(* has not examined if all is well prepared.                               *)
LEMMA ExaminedIsResult ==
    ASSUME CallData, NEW cr, NEW cf, Extracted(cr, cf), Examined(cr, cf), Prepared
    PROVE  given \cup cr \cup cf \in ShrinkResults(f, given)
<1> DEFINE m == given \cup cr \cup cf
<1>1. m \in SUBSET (f \cup given) /\ given \subseteq m /\ ~Sat(m)
      /\ \A c \in given \cup cr : Sat(m \ {c})
  BY DEF Extracted, CallData, CallInv, CritsSound
<1>2. \A c \in m \ given : Sat(m \ {c})
  <2>1. CASE cf = {}
    BY <1>1, <2>1
  <2>2. CASE cr = {} /\ cf = Mc!Preprocessed /\ Cardinality(Mc!Preprocessed) = 1
    <3>1. IsFiniteSet(Constraint)
      BY SizesAssumption, FS_Interval DEF Constraint
    <3>2. cf \subseteq Constraint
      BY DEF Extracted, CallData, CallInv
    <3>3. IsFiniteSet(cf)
      BY <3>1, <3>2, FS_Subset
    <3>4. PICK c : cf = {c}
      BY <2>2, <3>3, FS_Singleton
    <3>5. Sat(given) /\ c \notin given
      BY <2>2, <3>4 DEF Prepared, Extracted
    <3>6. m \ {c} = given /\ m \ given = {c}
      BY <2>2, <3>4, <3>5
    <3>7. QED
      BY <3>5, <3>6
  <2>3. QED
    BY <2>1, <2>2 DEF Examined
<1>3. QED
  BY <1>1, <1>2 DEF ShrinkResults

LEMMA InitAlgInv ==
    ASSUME CallInputs, CallInit
    PROVE  AlgInv
<1>1. PICK in \in Inputs : clauses = in.clauses /\ hard_clauses = in.hard_clauses
  BY DEF CallInit, Init, Parse, Mc!Init, Mc!Parse
<1>2. Unambiguous(clauses, hard_clauses)
  BY <1>1 DEF CallInputs
<1>3. CASE Init /\ NoSolver
  <2>1. ShrinkInputs
    BY DEF CallInputs, ShrinkInputs
  <2>2. Inv /\ phase = "loop"
    BY <1>3, <2>1, InitInv DEF Init
  <2>3. QED
    BY <1>2, <2>2 DEF AlgInv
<1>4. CASE shrink_alg = "default" /\ phase = "mcsmus" /\ s = f /\ i = 1 /\ crits = given
  BY <1>2, <1>4 DEF AlgInv
<1>5. QED
  BY <1>3, <1>4 DEF CallInit

(* The arguments do not change, and so neither do the hypotheses on them.  *)
LEMMA ArgumentsUnchanged ==
    ASSUME UNCHANGED <<cnfVars, f, given>>
    PROVE  /\ Prepared' <=> Prepared
           /\ Unambiguous(clauses, hard_clauses)' <=> Unambiguous(clauses, hard_clauses)
<1>1. clauses' = clauses /\ hard_clauses' = hard_clauses /\ f' = f /\ given' = given
  BY DEF cnfVars
<1>2. Mc!Preprocessed' = Mc!Preprocessed
  BY <1>1 DEF Mc!Preprocessed, Mc!Soft, Mc!Propagated, Mc!PropagationClosed, Mc!Hard
<1>3. Sat(given)' <=> Sat(given)
  BY <1>1, SeedUnchanged
<1>4. Prepared' <=> Prepared
  BY <1>2, <1>3 DEF Prepared
<1>5. QED
  BY <1>1, <1>4 DEF Unambiguous

LEMMA AlgInvStep ==
    ASSUME McsmusInv, AlgInv, [CallNext]_callVars
    PROVE  AlgInv' /\ (Prepared' <=> Prepared) /\ UNCHANGED <<cnfVars, f, given>>
<1>1. CASE OtherAlgorithm
  <2>1. UNCHANGED <<cnfVars, f, given>> /\ phase \in {"loop", "file"} /\ phase' # "mcsmus"
    BY <1>1, OtherAlgorithmPhases
  <2>2. Inv'
    BY <1>1, <2>1, NextStep DEF AlgInv, OtherAlgorithm
  <2>3. QED
    BY <2>1, <2>2, ArgumentsUnchanged DEF AlgInv
<1>2. CASE Mcsmus
  <2>1. UNCHANGED <<shrink_alg, phase, s, i, crits>> /\ phase = "mcsmus"
    BY <1>2 DEF Mcsmus
  <2>2. UNCHANGED <<cnfVars, f, given>>
    BY <1>2, SeedKept DEF Mcsmus
  <2>3. QED
    BY <2>1, <2>2, ArgumentsUnchanged DEF AlgInv
<1>3. CASE McsmusReturns
  <2>1. /\ UNCHANGED <<cnfVars, f, given, shrink_alg, i, crits>>
        /\ phase = "mcsmus" /\ phase' = "returned" /\ step = "returned"
        /\ s' = given \cup found \cup conflict
    BY <1>3 DEF McsmusReturns, Mc!mus
  <2>2. CallData /\ Extracted(found, conflict) /\ Examined(found, conflict)
    BY <2>1 DEF McsmusInv, Extracting
  <2>3. ASSUME Prepared PROVE Inv'
    <3>1. s' \in ShrinkResults(f, given)
      BY <2>1, <2>2, <2>3, ExaminedIsResult
    <3>2. LoopInv' /\ ResultInv'
      BY <2>1, <3>1, CallUnchanged DEF LoopInv, ResultInv
    <3>3. InputInv /\ CallInv
      BY <2>1, <2>2 DEF InputInv, CallData, AlgInv
    <3>4. QED
      BY <2>1, <3>2, <3>3, CallUnchanged DEF Inv
  <2>4. QED
    BY <2>1, <2>3, ArgumentsUnchanged DEF AlgInv
<1>4. CASE McsmusThrows
  <2>1. /\ UNCHANGED <<cnfVars, f, given, s, i, crits>>
        /\ phase = "mcsmus" /\ phase' = "loop" /\ shrink_alg' = "muser"
    BY <1>4 DEF McsmusThrows
  <2>2. CallData /\ s = f /\ i = 1 /\ crits = given /\ Unambiguous(clauses, hard_clauses)
    BY <2>1 DEF McsmusInv, AlgInv
  <2>3. InputInv' /\ CallInv'
    <3>1. CnfTypeOK' /\ Unambiguous(clauses, hard_clauses)'
      BY <2>1, <2>2, ArgumentsUnchanged, SeedUnchanged DEF CallData
    <3>2. CallData'
      BY <2>1, <2>2, SeedUnchanged
    <3>3. QED
      BY <2>1, <3>1, <3>2 DEF InputInv, CallData
  <2>4. LoopInv'
    <3>1. s' = f' /\ i' = 1 /\ crits' = given'
      BY <2>1, <2>2
    <3>2. 1 \in 1 .. dimension + 1 /\ \A c \in Constraint : ~(c < 1)
      BY SizesAssumption DEF Constraint
    <3>3. QED
      BY <2>1, <2>3, <3>1, <3>2 DEF LoopInv, CallInv
  <2>5. ResultInv'
    BY <2>1 DEF ResultInv
  <2>6. QED
    BY <2>1, <2>3, <2>4, <2>5, <2>2, ArgumentsUnchanged DEF AlgInv, Inv
<1>5. CASE UNCHANGED callVars
  <2>1. UNCHANGED <<cnfVars, shrink_alg, f, given>> /\ UNCHANGED <<phase, s, i, crits>>
    BY <1>5 DEF callVars, shrinkVars
  <2>2. Inv' <=> Inv
    BY <2>1, CallUnchanged DEF Inv, LoopInv, ResultInv
  <2>3. QED
    BY <2>1, <2>2, ArgumentsUnchanged DEF AlgInv
<1>6. CASE CallReturned
  BY <1>5, <1>6 DEF CallReturned, Returned, callVars
<1>7. QED
  BY <1>1, <1>2, <1>3, <1>4, <1>5, <1>6 DEF CallNext

(* The loops and the fallback after an exception keep the invariant of the *)
(* loops; what mcsmus returned is a MUS if all was well prepared.          *)
THEOREM AlgInvariantHolds ==
    ASSUME CallInputs
    PROVE  CallSpec => []AlgInv
<1>1. CallInit => AlgInv
  BY InitAlgInv
<1>2. McsmusInv /\ AlgInv /\ [CallNext]_callVars => AlgInv'
  BY AlgInvStep
<1>3. QED
  BY <1>1, <1>2, McsmusInvariantHolds, PTL DEF CallSpec

(* A constraint the loop has passed, or takes for critical, is needed in   *)
(* what is left of the seed, in the fallback from mcsmus as well.          *)
THEOREM CallLoopCorrect ==
    ASSUME CallInputs
    PROVE  CallSpec => []KeptAreNeeded
<1>1. AlgInv => KeptAreNeeded
  BY DEF AlgInv, Inv, LoopInv, CritsSound, KeptAreNeeded
<1>2. QED
  BY <1>1, AlgInvariantHolds, PTL

(* A call with well-prepared arguments, wherever it is.                    *)
CallState == McsmusInv /\ AlgInv /\ (shrink_alg = "default" => Prepared)

LEMMA CallStateStep ==
    ASSUME CallState, [CallNext]_callVars
    PROVE  CallState'
<1>1. McsmusInv' /\ AlgInv' /\ (Prepared' <=> Prepared)
  BY McsmusInvStep, AlgInvStep DEF CallState
<1>2. shrink_alg' = "default" => shrink_alg = "default"
  BY OtherAlgorithmPhases DEF CallNext, Mcsmus, McsmusReturns, McsmusThrows, CallReturned,
     Returned, callVars, shrinkVars
<1>3. QED
  BY <1>1, <1>2 DEF CallState

(* Whatever --shrink is and whether mcsmus throws or not, Master gets back *)
(* a subset of the seed that is a MUS, if preprocessing may return its     *)
(* conflict.                                                               *)
THEOREM CallCorrect ==
    ASSUME CallInputs
    PROVE  CallSpec /\ (shrink_alg = "default" => Prepared) => []ReturnsMus
<1> DEFINE Pre == shrink_alg = "default" => Prepared
<1>1. CallInit /\ Pre => CallState
  BY InitMcsmusInv, InitAlgInv DEF CallState
<1>2. CallState /\ [CallNext]_callVars => CallState'
  BY CallStateStep
<1>3. CallState => ReturnsMus
  BY ResultIsMus DEF CallState, AlgInv, Inv, ResultInv, ReturnsMus
<1> HIDE DEF Pre
<1>4. CallSpec /\ Pre => []ReturnsMus
  BY <1>1, <1>2, <1>3, PTL DEF CallSpec
<1>5. QED
  BY <1>4 DEF Pre

---------------------------------------------------------------------------
(* Every algorithm implements Extraction.                                  *)

LEMMA SameForExtraction ==
    /\ E!Constraint = Constraint
    /\ \A g : E!Sat(g) <=> Sat(g)
    /\ \A g : E!Critical(g) = {c \in g : Sat(g \ {c})}
    /\ E!cnfVars = cnfVars
<1>1. E!Var = Var /\ E!Constraint = Constraint /\ E!cnfVars = cnfVars
  BY DEF E!Var, Var, E!Constraint, Constraint, E!cnfVars, cnfVars
<1>2. \A a, l : E!LitTrue(a, l) <=> LitTrue(a, l)
  BY DEF E!LitTrue, LitTrue
<1>3. \A a, cl : E!Satisfies(a, cl) <=> Satisfies(a, cl)
  BY <1>2 DEF E!Satisfies, Satisfies
<1>4. \A g : E!Models(g) = Models(g)
  BY <1>1, <1>3 DEF E!Models, Models
<1>5. \A g : E!Sat(g) <=> Sat(g)
  BY <1>4 DEF E!Sat, Sat
<1>6. QED
  BY <1>1, <1>5 DEF E!Critical

(* What a call has left is unsatisfiable, and what it says is needed is    *)
(* critical for it.                                                        *)
Kept ==
    /\ left \in SUBSET Constraint /\ ~Sat(left)
    /\ needed \in SUBSET {c \in left : Sat(left \ {c})}

LEMMA CallStateKept ==
    ASSUME CallState
    PROVE  Kept
<1>1. CASE phase = "mcsmus"
  <2>1. CallData /\ Extracted(found, conflict)
    BY <1>1 DEF CallState, McsmusInv, Extracting
  <2>2. left = given \cup found \cup conflict /\ needed = given \cup found
    BY <1>1 DEF left, needed, Mc!mus
  <2>3. QED
    BY <2>1, <2>2 DEF Kept, Extracted, CallData, CallInv, CritsSound
<1>2. CASE phase # "mcsmus"
  <2>1. Inv /\ left = s
    BY <1>2 DEF CallState, AlgInv, left
  <2>2. CASE phase = "loop"
    <3>1. needed = {c \in s : c < i} \cup crits
      BY <2>2 DEF needed
    <3>2. s \in SUBSET Constraint /\ ~Sat(s) /\ CritsSound(crits, s)
          /\ \A c \in s : c < i => Sat(s \ {c})
      BY <2>1, <2>2 DEF Inv, LoopInv, CallInv
    <3>3. crits \subseteq s
      BY <3>2, CriticalInside
    <3>4. QED
      BY <2>1, <3>1, <3>2, <3>3 DEF Kept, CritsSound
  <2>3. CASE phase \in {"file", "returned"}
    <3>1. needed = s
      BY <2>3 DEF needed
    <3>2. IsMus(s)
      BY <2>1, <2>3, ResultIsMus DEF Inv, ResultInv
    <3>3. QED
      BY <2>1, <3>1, <3>2 DEF Kept, IsMus
  <2>4. QED
    BY <1>2, <2>2, <2>3 DEF CallState, McsmusInv
<1>3. QED
  BY <1>1, <1>2

(* What is needed stays in every unsatisfiable part of what is left.       *)
LEMMA NeededStays ==
    ASSUME Kept, NEW g \in SUBSET left, ~Sat(g)
    PROVE  needed \subseteq g
<1>1. CritsSound(needed, left)
  BY DEF Kept, CritsSound
<1>2. CritsSound(needed, g)
  BY <1>1, CriticalInSubset
<1>3. QED
  BY <1>2, CriticalInside

(* mcsmus drops constraints of its conflict or finds them critical.        *)
LEMMA McsmusShrinks ==
    ASSUME Running, Mc!Next
    PROVE  found \subseteq found' /\ found' \cup conflict' \subseteq found \cup conflict
<1>1. CASE Mc!Preprocess
  <2>1. found' = found /\ conflict' = Mc!Preprocessed /\ conflict = f \ given
    BY <1>1 DEF Mc!Preprocess, Running, Extracting
  <2>2. Mc!Preprocessed \subseteq f \ given
    BY PreprocessedUnsat DEF Running, CallData, CallInv
  <2>3. QED
    BY <2>1, <2>2
<1>2. CASE Mc!Pick
  <2>1. step = "pick" /\ conflict' = conflict \ cs
        /\ (found' = found \/ \E c \in cs : found' = found \cup {c})
    BY <1>2 DEF Mc!Pick
  <2>2. cs \subseteq conflict
    BY <2>1 DEF Running, Extracting, Minimizing, Missed
  <2>3. QED
    BY <2>1, <2>2
<1>3. CASE Mc!Return
  <2>1. \/ found' = found /\ conflict' = conflict
        \/ found' = found \cup rotated /\ conflict' = conflict \ rotated
    BY <1>3 DEF Mc!Return
  <2>2. rotated \subseteq found \cup conflict
    BY <1>3, RotateFacts DEF Mc!Return
  <2>3. QED
    BY <2>1, <2>2
<1>4. CASE Mc!Mine
  BY <1>4 DEF Mc!Mine
<1>5. CASE Mc!Refine \/ Mc!Stalled
  BY <1>5 DEF Mc!Refine, Mc!Stalled, Mc!RefuteAndRefine
<1>6. CASE Mc!FindCS
  BY <1>6 DEF Mc!FindCS
<1>7. CASE Mc!McsRotate \/ Mc!MinimizeCS \/ Mc!Minimized \/ Mc!TryVariable \/ Mc!Recurse
           \/ Mc!Returned
  BY <1>7 DEF Mc!McsRotate, Mc!MinimizeCS, Mc!Minimized, Mc!TryVariable, Mc!Recurse,
     Mc!Returned, Mc!mcsmusVars
<1>8. QED
  BY <1>1, <1>2, <1>3, <1>4, <1>5, <1>6, <1>7 DEF Mc!Next

(* No step of the other algorithms adds to what is left or forgets what is *)
(* needed.                                                                 *)
LEMMA OtherAlgorithmShrinks ==
    ASSUME CallState, Kept, Kept', OtherAlgorithm
    PROVE  left' \subseteq left /\ needed \subseteq needed'
<1>1. /\ Inv /\ phase \in {"loop", "file"} /\ phase' \in {"loop", "file", "returned"}
      /\ left = s /\ left' = s' /\ f' = f
      /\ phase = "file" => phase' = "returned"
  BY OtherAlgorithmPhases DEF CallState, AlgInv, left
<1>2. phase = "loop" => s \subseteq f /\ (shrink_alg = "muser" => s = f)
  BY <1>1 DEF Inv, LoopInv
<1>3. s' \subseteq s
  <2>1. CASE Skip \/ Keep \/ LoopEnds
    BY <2>1 DEF Skip, Keep, LoopEnds
  <2>2. CASE Remove
    BY <2>2 DEF Remove, Cores
  <2>3. CASE RunMuser
    BY <2>3, <1>2 DEF RunMuser, MuserResults, ShrinkResults, Inv, CallInv, CallState, AlgInv
  <2>4. CASE Import
    BY <2>4, <1>1, ImportSame
  <2>5. CASE Returned
    BY <1>1, <2>5 DEF Returned
  <2>6. QED
    BY <2>1, <2>2, <2>3, <2>4, <2>5 DEF OtherAlgorithm, Next
<1>4. ~Sat(s') /\ needed \subseteq s'
  <2>1. \A g : Sat(g)' <=> Sat(g)
    BY OtherAlgorithmPhases, SeedUnchanged
  <2>2. ~Sat(s')
    BY <1>1, <2>1 DEF Kept
  <2>3. QED
    BY <1>1, <1>3, <2>2, NeededStays
<1>5. CASE phase' \in {"file", "returned"}
  BY <1>1, <1>3, <1>4, <1>5 DEF needed
<1>6. CASE phase' = "loop"
  <2>1. phase = "loop" /\ Looping /\ i' = i + 1 /\ i \in Int /\ crits \subseteq crits'
        /\ \A c \in s : c \in Int
    <3>1. phase = "loop" /\ Looping /\ i' = i + 1
      BY <1>1, <1>6 DEF OtherAlgorithm, Next, Skip, Remove, Keep, LoopEnds, RunMuser, Import,
         Returned, Looping
    <3>2. crits \subseteq crits'
      BY <1>6, <3>1 DEF OtherAlgorithm, Next, Skip, Remove, Keep, LoopEnds, RunMuser, Import,
         Returned, CriticalPropagation
    <3>3. QED
      BY <1>1, <3>1, <3>2, LoopFacts
  <2>2. needed = {c \in s : c < i} \cup crits /\ needed' = {c \in s' : c < i'} \cup crits'
    BY <1>6, <2>1 DEF needed
  <2>3. \A c \in s : c < i => c < i + 1
    BY <2>1
  <2>4. QED
    BY <1>1, <1>3, <1>4, <2>1, <2>2, <2>3
<1>7. QED
  BY <1>1, <1>5, <1>6

LEMMA ExtractionStep ==
    ASSUME CallState, Kept, Kept', [CallNext]_callVars
    PROVE  [E!Next \/ McsmusThrows]_(E!extractionVars)
<1>1. CASE McsmusThrows
  BY <1>1
<1>2. CASE UNCHANGED callVars
  <2>1. /\ UNCHANGED <<cnfVars, f, given, phase, s, i, crits>> /\ UNCHANGED <<found, conflict>>
    BY <1>2 DEF callVars, shrinkVars, localVars
  <2>2. left' = left
    BY <2>1 DEF left, Mc!mus
  <2>3. needed' = needed
    BY <2>1 DEF needed
  <2>4. QED
    BY <2>1, <2>2, <2>3 DEF E!extractionVars, E!cnfVars, cnfVars
<1>3. CASE CallReturned
  BY <1>2, <1>3 DEF CallReturned, Returned, callVars
<1>4. ASSUME cnfVars' = cnfVars, left' \subseteq left, needed \subseteq needed'
      PROVE  E!Next
  <2>1. \A g : Sat(g)' <=> Sat(g)
    <3>1. \A g : Models(g)' = Models(g)
      BY <1>4 DEF Models, cnfVars
    <3>2. QED
      BY <3>1 DEF Sat
  <2>2. ~Sat(left') /\ needed' \subseteq {c \in left' : Sat(left' \ {c})}
    BY <2>1 DEF Kept
  <2>3. left' \in {g \in SUBSET left : ~E!Sat(g)}
    BY <1>4, <2>2, SameForExtraction
  <2>4. E!Critical(left') = {c \in left' : Sat(left' \ {c})}
    BY SameForExtraction
  <2>5. needed' \in {n \in SUBSET E!Critical(left') : needed \subseteq n}
    BY <1>4, <2>2, <2>4
  <2>6. UNCHANGED E!cnfVars
    BY <1>4 DEF E!cnfVars, cnfVars
  <2>7. QED
    BY <2>3, <2>5, <2>6 DEF E!Next
<1>5. CASE OtherAlgorithm
  BY <1>4, <1>5, OtherAlgorithmShrinks, OtherAlgorithmPhases
<1>6. CASE Mcsmus
  <2>1. Running /\ Mc!Next /\ phase = "mcsmus" /\ phase' = "mcsmus"
    BY <1>6 DEF Mcsmus, CallState, McsmusInv, Running
  <2>2. /\ found \subseteq found' /\ found' \cup conflict' \subseteq found \cup conflict
        /\ given' = given /\ cnfVars' = cnfVars
    BY <2>1, McsmusShrinks, SeedKept
  <2>3. /\ left = given \cup found \cup conflict /\ needed = given \cup found
        /\ left' = given \cup found' \cup conflict' /\ needed' = given \cup found'
    BY <2>1, <2>2 DEF left, needed, Mc!mus
  <2>4. QED
    BY <1>4, <2>2, <2>3
<1>7. CASE McsmusReturns
  <2>1. left' = left /\ needed' = left' /\ cnfVars' = cnfVars
    BY <1>7 DEF McsmusReturns, left, needed
  <2>2. QED
    BY <1>4, <2>1 DEF Kept
<1>8. QED
  BY <1>1, <1>2, <1>3, <1>5, <1>6, <1>7 DEF CallNext

LEMMA ExtractionInit ==
    ASSUME CallInputs, CallInit, shrink_alg = "default" => Prepared
    PROVE  E!Init
<1>1. CallState
  BY InitMcsmusInv, InitAlgInv DEF CallState
<1>2. Kept
  BY <1>1, CallStateKept
<1>3. E!Parse
  BY DEF CallInit, Init, Parse, Mc!Init, Mc!Parse, E!Parse
<1>4. QED
  BY <1>2, <1>3, SameForExtraction DEF Kept, E!Init

(* Deletion, propagation of criticals, muser2 and mcsmus: whatever         *)
(* --shrink is, the seed shrinks, it stays unsatisfiable, and what is      *)
(* taken for critical is; only an exception of mcsmus starts over.         *)
THEOREM CallImplementsExtraction ==
    ASSUME CallInputs
    PROVE  CallSpec /\ (shrink_alg = "default" => Prepared) => ImplementsExtraction
<1> DEFINE Pre == shrink_alg = "default" => Prepared
<1>1. CallInit /\ Pre => E!Init
  BY ExtractionInit
<1>2. CallInit /\ Pre => CallState
  BY InitMcsmusInv, InitAlgInv DEF CallState
<1>3. CallState /\ [CallNext]_callVars => CallState'
  BY CallStateStep
<1>4. CallState => Kept
  BY CallStateKept
<1>5. CallState /\ Kept /\ Kept' /\ [CallNext]_callVars
          => [E!Next \/ McsmusThrows]_(E!extractionVars)
  BY ExtractionStep
<1> HIDE DEF Pre
<1>6. CallSpec /\ Pre => E!Init /\ [][E!Next \/ McsmusThrows]_(E!extractionVars)
  BY <1>1, <1>2, <1>3, <1>4, <1>5, PTL DEF CallSpec
<1>7. QED
  BY <1>6 DEF Pre, ImplementsExtraction
===========================================================================
