---------------------------- MODULE MarcoProofs ----------------------------
(***************************************************************************)
(* MARCO is proved to enumerate the MUSes of every input: nothing but      *)
(* MUSes, none twice, and it stops only when none is left.                 *)
(***************************************************************************)
EXTENDS Marco, MasterProofs

ControlPoints == {"start", "loop", "collect", "shrink", "mine", "mark", "done", "exit"}

(* The inductive invariant: that of the shared part, and what MARCO adds.  *)
Inv ==
    /\ MasterInv
    /\ pc \in ControlPoints
    /\ pc \notin {"start", "exit"} => ~Sat(Constraint)
    /\ pc = "done" => UnexploredSets = {}
    /\ BlockedDownAreMss

LEMMA InitInv ==
    ASSUME PlainInputs, Init
    PROVE  Inv
<1>1. MasterInv
  BY InitMasterInv DEF Init
<1>2. BlockedDownAreMss
  BY DEF Init, ExplorerInit, BlockedDownAreMss
<1>3. QED
  BY <1>1, <1>2 DEF Inv, Init, MasterInit, ControlPoints

LEMMA AllMcsesUnchanged ==
    ASSUME UNCHANGED cnfVars
    PROVE  AllMcses' = AllMcses
<1>1. \A f : IsMss(f)' <=> IsMss(f)
  BY CnfUnchanged DEF IsMss
<1>2. QED
  BY <1>1 DEF AllMcses

(* A maximal unexplored set that is satisfiable is an MSS, so the model    *)
(* found cannot grow it: a larger satisfiable set would be unexplored too. *)
LEMMA SeedSatisfiableStep ==
    ASSUME Inv, SeedSatisfiable
    PROVE  Inv' /\ Visible /\ UnexploredSets' # UnexploredSets
<1>a. PICK top \in TopUnexplored(Constraint) : \E g \in Extensions(top) : BlockDown(g)
  BY DEF SeedSatisfiable
<1>1. PICK grown \in Extensions(top) : BlockDown(grown)
  BY <1>a
<1>2. top \in SUBSET Constraint /\ Unexplored(top)
  BY DEF TopUnexplored, Maximal
<1>3. Sat(grown) /\ top \subseteq grown /\ grown \in SUBSET Constraint
  BY <1>2, ExtensionsSatisfiable
<1>4. MasterInv' /\ Visible
  BY <1>1, <1>3, BlockDownOutside DEF SeedSatisfiable, Inv, InCall, Visible, Over, masterVars
<1>5. IsMss(grown)
  <2>1. grown = top
    BY <1>2, <1>3, TopCannotGrow DEF Inv, MasterInv
  <2>2. ASSUME NEW c \in Constraint \ grown, Sat(grown \cup {c}) PROVE FALSE
    BY <1>3, <2>1, <2>2, TopCannotGrow DEF Inv, MasterInv
  <2>3. QED
    BY <1>3, <2>2 DEF IsMss
<1>6. BlockedDownAreMss'
  <2>1. Constraint \ grown \in AllMcses
    BY <1>3, <1>5 DEF AllMcses
  <2>2. AllMcses' = AllMcses
    BY AllMcsesUnchanged DEF SeedSatisfiable
  <2>3. QED
    BY <1>1, <2>1, <2>2 DEF Inv, BlockedDownAreMss, BlockDown
<1>7. UnexploredSets' # UnexploredSets
  <2>1. top \in UnexploredSets
    BY <1>2 DEF UnexploredSets
  <2>2. ~Satisfies(top, Constraint \ grown)
    <3>1. Constraint \ grown \in SUBSET Constraint /\ top \cap (Constraint \ grown) = {}
      BY <1>3
    <3>2. QED
      BY <3>1, <1>2, MapClauseMeaning
  <2>3. top \notin UnexploredSets'
    BY <1>1, <2>2 DEF UnexploredSets, Unexplored, SatisfiesAll, BlockDown, Satisfies, LitTrue
  <2>4. QED
    BY <2>1, <2>3
<1>8. ~Sat(Constraint)'
  BY CnfUnchanged DEF Inv, SeedSatisfiable
<1>9. QED
  BY <1>4, <1>6, <1>7, <1>8 DEF Inv, SeedSatisfiable, masterVars

LEMMA SeedUnsatisfiableStep ==
    ASSUME Inv, SeedUnsatisfiable
    PROVE  Inv' /\ Visible
<1>a. PICK top \in TopUnexplored(Constraint) :
         \E core \in Cores(top) : CallShrinkFormula(core, critical)
  BY DEF SeedUnsatisfiable
<1>1. PICK core \in Cores(top) : CallShrinkFormula(core, critical)
  BY <1>a
<1>2. core \in SUBSET Constraint /\ ~Sat(core) /\ Unexplored(core)
  BY <1>1, CoreIsCallable DEF Inv
<1>3. CritsSound(critical, core)
  BY <1>2, CriticalSound DEF Inv, MasterInv
<1>4. MasterInv'
  BY <1>1, <1>2, <1>3, CallStep DEF SeedUnsatisfiable, Inv, InCall
<1>5. BlockedDownAreMss' /\ ~Sat(Constraint)'
  BY AllMcsesUnchanged, CnfUnchanged DEF Inv, BlockedDownAreMss, SeedUnsatisfiable, explorerVars
<1>6. QED
  BY <1>1, <1>4, <1>5
     DEF Inv, CallShrinkFormula, ControlPoints, SeedUnsatisfiable, Visible, Over

LEMMA EnumerateKeepsInv ==
    ASSUME Inv, Enumerate
    PROVE  Inv' /\ Visible
<1>1. ~Sat(Constraint)' <=> ~Sat(Constraint)
  BY CnfUnchanged DEF Enumerate
<1>2. BlockedDownAreMss'
  BY AllMcsesUnchanged DEF Inv, BlockedDownAreMss, Enumerate, explorerVars
<1>3. QED
  BY <1>1, <1>2, EnumerateStep DEF Enumerate, Inv, ControlPoints, Visible, Over

LEMMA MapExhaustedStep ==
    ASSUME Inv, MapExhausted
    PROVE  Inv' /\ Visible
<1>1. UnexploredSets = {}
  BY NoTopIsExhausted DEF MapExhausted
<1>2. UnexploredSets' = {}
  BY <1>1, MapUnchanged DEF UnexploredSets, MapExhausted
<1>3. MasterInv' /\ AllMuses \subseteq Reported
  BY <1>1, ControlStep, ExhaustedIsComplete DEF MapExhausted, Inv, InCall
<1>4. BlockedDownAreMss' /\ ~Sat(Constraint)'
  BY AllMcsesUnchanged, CnfUnchanged DEF Inv, BlockedDownAreMss, MapExhausted, explorerVars
<1>5. QED
  BY <1>2, <1>3, <1>4 DEF MapExhausted, Inv, ControlPoints, Visible, Over

(* Mining blocks down all constraints but one: an MSS, as the input as a   *)
(* whole is unsatisfiable.                                                 *)
LEMMA ShrinkFormulaKeepsMss ==
    ASSUME Inv, ShrinkFormula
    PROVE  BlockedDownAreMss' /\ ~Sat(Constraint)' /\ pc' \in ControlPoints
           /\ pc' \notin {"start", "loop", "done", "exit"}
<1>1. UNCHANGED cnfVars /\ ~Sat(Constraint) /\ pc' \in {"shrink", "mine", "mark"}
  BY DEF ShrinkFormula, CollectCrits, Shrink, Mine, MineEnd, Inv
<1>2. AllMcses' = AllMcses
  BY <1>1, AllMcsesUnchanged
<1>3. ASSUME NEW c \in Constraint, Sat(Constraint \ {c}), BlockDown(Constraint \ {c})
      PROVE  BlockedDownAreMss'
  <2>1. IsMss(Constraint \ {c})
    <3>1. (Constraint \ {c}) \cup {c} = Constraint
      OBVIOUS
    <3>2. QED
      BY <1>1, <1>3, <3>1 DEF IsMss
  <2>2. Constraint \ (Constraint \ {c}) \in AllMcses
    BY <2>1 DEF AllMcses
  <2>3. QED
    BY <1>2, <1>3, <2>2 DEF Inv, BlockedDownAreMss, BlockDown
<1>4. ASSUME UNCHANGED mcses PROVE BlockedDownAreMss'
  BY <1>2, <1>4 DEF Inv, BlockedDownAreMss
<1>5. ASSUME Mine PROVE BlockedDownAreMss'
  <2>1. PICK c \in MiningCandidates :
           IF Sat(Constraint \ {c}) THEN BlockDown(Constraint \ {c}) ELSE UNCHANGED mcses
    BY <1>5 DEF Mine
  <2>2. c \in Constraint
    BY <2>1 DEF MiningCandidates, Inv, MasterInv, MasterTypeOK
  <2>3. QED
    BY <1>3, <1>4, <2>1, <2>2
<1>6. BlockedDownAreMss'
  BY <1>4, <1>5 DEF ShrinkFormula, CollectCrits, Shrink, MineEnd, explorerVars
<1>7. QED
  BY <1>1, <1>6, CnfUnchanged DEF ControlPoints

LEMMA MarkMusMarco ==
    ASSUME Inv, MarkMus("loop")
    PROVE  Inv' /\ Visible /\ UnexploredSets' # UnexploredSets
<1>1. MasterInv' /\ UNCHANGED muses
  BY MarkMusStep DEF Inv
<1>2. BlockedDownAreMss'
  BY AllMcsesUnchanged DEF Inv, BlockedDownAreMss, MarkMus, BlockUp
<1>3. ~Sat(Constraint)'
  BY CnfUnchanged DEF Inv, MarkMus
<1>4. mus \in UnexploredSets
  BY DEF Inv, MasterInv, CallInv, MarkMus, IsMus, UnexploredSets
<1>5. mus \notin UnexploredSets'
  <2>1. mus \in SUBSET Constraint /\ UpClause(mus) = Weakened(mus, critical)
    BY <1>4 DEF UnexploredSets, UpClause, Weakened
  <2>2. ~Satisfies(mus, UpClause(mus))
    BY <2>1, MapClauseMeaning
  <2>3. UpClause(mus) \in solver'
    BY DEF MarkMus, BlockUp
  <2>4. QED
    BY <2>2, <2>3 DEF UnexploredSets, Unexplored, SatisfiesAll, Satisfies, LitTrue
<1>6. QED
  BY <1>1, <1>2, <1>3, <1>4, <1>5 DEF Inv, MarkMus, ControlPoints, Visible, Over

---------------------------------------------------------------------------
(* One step of the program, seen from outside: it keeps the invariant,     *)
(* reports at most one MUS, a new one, and only stops when all are known.  *)
LEMMA NextStep ==
    ASSUME Inv, [Next]_marcoVars
    PROVE  Inv' /\ Visible
<1>1. CASE Enumerate
  BY <1>1, EnumerateKeepsInv
<1>2. CASE SeedSatisfiable
  BY <1>2, SeedSatisfiableStep
<1>3. CASE SeedUnsatisfiable
  BY <1>3, SeedUnsatisfiableStep
<1>4. CASE MapExhausted
  BY <1>4, MapExhaustedStep
<1>5. CASE ShrinkFormula
  BY <1>5, ShrinkFormulaVisible, ShrinkFormulaKeepsMss DEF Inv
<1>6. CASE MarkMus("loop")
  BY <1>6, MarkMusMarco
<1>7. CASE UNCHANGED marcoVars
  <2>1. UNCHANGED <<cnfVars, explorerVars, masterVars>>
    BY <1>7 DEF marcoVars
  <2>2. MasterInv'
    BY <2>1, StutterStep DEF Inv
  <2>3. BlockedDownAreMss' /\ (~Sat(Constraint)' <=> ~Sat(Constraint))
    BY <2>1, AllMcsesUnchanged, CnfUnchanged DEF Inv, BlockedDownAreMss, explorerVars
  <2>4. UnexploredSets' = UnexploredSets
    BY <2>1, MapUnchanged DEF UnexploredSets
  <2>5. QED
    BY <2>1, <2>2, <2>3, <2>4 DEF Inv, masterVars, Visible
<1>8. QED
  BY <1>1, <1>2, <1>3, <1>4, <1>5, <1>6, <1>7 DEF Next, Ended

(* The invariant holds in every behaviour of MARCO.                        *)
THEOREM InvariantHolds ==
    ASSUME PlainInputs
    PROVE  Spec => []Inv
<1>1. Init => Inv
  BY InitInv
<1>2. Inv /\ [Next]_marcoVars => Inv'
  BY NextStep
<1>3. QED
  BY <1>1, <1>2, PTL DEF Spec

(* Every variable keeps its type. *)
THEOREM TypeCorrect ==
    ASSUME PlainInputs
    PROVE  Spec => []TypeOK
<1>1. Inv => TypeOK
  BY DEF Inv, MasterInv, TypeOK, ControlPoints
<1>2. QED
  BY <1>1, InvariantHolds, PTL

(* Constraints that shrink_formula passes on as critical are critical for  *)
(* the seed: leaving any one out makes it satisfiable.                     *)
THEOREM CritsCorrect ==
    ASSUME PlainInputs
    PROVE  Spec => []CritsAreCritical
<1>1. Inv => CritsAreCritical
  BY DEF Inv, MasterInv, CallInv, CritsSound, CritsAreCritical
<1>2. QED
  BY <1>1, InvariantHolds, PTL

(* shrink_formula is only called on unexplored seeds, and the MUS it       *)
(* returns is unexplored, although mining may have written the map.        *)
THEOREM WorkNeverRepeated ==
    ASSUME PlainInputs
    PROVE  Spec => []WorkIsNew
<1>1. Inv => WorkIsNew
  BY DEF Inv, MasterInv, CallInv, WorkIsNew
<1>2. QED
  BY <1>1, InvariantHolds, PTL

(* At the end the correction sets are complete: a set that is not          *)
(* unexplored lies below a known MSS or contains a known MUS.              *)
LEMMA McsesComplete ==
    ASSUME Inv, UnexploredSets = {}
    PROVE  AllMcses \subseteq mcses
<1> SUFFICES ASSUME NEW f \in SUBSET Constraint, IsMss(f) PROVE Constraint \ f \in mcses
  BY DEF AllMcses
<1>1. PICK cl \in solver : ~Satisfies(f, cl)
  BY DEF UnexploredSets, Unexplored, SatisfiesAll
<1>2. ASSUME NEW mcs \in mcses, f \cap mcs = {} PROVE Constraint \ f \in mcses
  <2>1. mcs \in SUBSET Constraint /\ Sat(Constraint \ mcs)
    BY DEF Inv, MasterInv, MapInv, DownSound, ExplorerTypeOK
  <2>2. ASSUME NEW c \in Constraint \ f, c \notin mcs PROVE FALSE
    <3>1. f \cup {c} \subseteq Constraint \ mcs
      BY <1>2, <2>2
    <3>2. Sat(f \cup {c})
      BY <2>1, <3>1, SatMonotone
    <3>3. QED
      BY <3>2 DEF IsMss
  <2>3. Constraint \ f = mcs
    BY <1>2, <2>1, <2>2
  <2>4. QED
    BY <2>3
<1>3. CASE cl \in mcses
  <2>1. cl \in SUBSET Constraint
    BY <1>3 DEF Inv, MasterInv, ExplorerTypeOK
  <2>2. f \cap cl = {}
    BY <1>1, <2>1, MapClauseMeaning
  <2>3. QED
    BY <1>2, <1>3, <2>2
<1>4. ASSUME NEW m \in blocked_muses, NEW K \in SUBSET critical, cl = Weakened(m, K)
      PROVE  Constraint \ f \in mcses
  <2>1. m \in SUBSET Constraint /\ ~Sat(m)
    BY DEF Inv, MasterInv, MapInv, UpSound, IsMus
  <2>2. m \ K \subseteq f
    BY <1>1, <1>4, <2>1, MapClauseMeaning
  <2>3. ~(m \subseteq f)
    BY <2>1, SatMonotone DEF IsMss
  <2>4. PICK c \in critical : c \notin f
    BY <2>2, <2>3
  <2>5. {c} \in mcses /\ f \cap {c} = {}
    BY <2>4 DEF Inv, MasterInv, MapInv, DownSound
  <2>6. QED
    BY <1>2, <2>5
<1>5. QED
  BY <1>3, <1>4 DEF Inv, MasterInv, MapInv, MapClauses

(* MARCO blocks down maximal satisfiable sets only, and all of them by the *)
(* time it ends.                                                           *)
THEOREM McsesCorrect ==
    ASSUME PlainInputs
    PROVE  Spec => [](BlockedDownAreMss /\ AllMcsesFound)
<1>1. Inv => BlockedDownAreMss /\ AllMcsesFound
  BY McsesComplete DEF Inv, BlockedDownAreMss, AllMcsesFound
<1>2. QED
  BY <1>1, InvariantHolds, PTL

(* Every turn of the loop makes the set of unexplored sets smaller.        *)
THEOREM RoundsMakeProgress ==
    ASSUME PlainInputs
    PROVE  Spec => RoundsExplore
<1>1. Inv /\ [Next]_marcoVars => [RoundExplores]_marcoVars
  <2> SUFFICES ASSUME Inv, Next, RoundEnds
               PROVE  \/ UNCHANGED marcoVars
                      \/ UnexploredSets' \subseteq UnexploredSets /\ UnexploredSets' # UnexploredSets
    BY DEF RoundExplores
  <2>1. CASE SeedSatisfiable
    <3>1. solver \subseteq solver'
      BY <2>1 DEF SeedSatisfiable, BlockDown
    <3>2. QED
      BY <2>1, <3>1, SeedSatisfiableStep
         DEF UnexploredSets, Unexplored, SatisfiesAll, Satisfies, LitTrue
  <2>2. CASE MarkMus("loop")
    <3>1. solver \subseteq solver'
      BY <2>2 DEF MarkMus, BlockUp
    <3>2. QED
      BY <2>2, <3>1, MarkMusMarco
         DEF UnexploredSets, Unexplored, SatisfiesAll, Satisfies, LitTrue
  <2>3. ~(Enumerate \/ SeedUnsatisfiable \/ MapExhausted \/ ShrinkFormula \/ Ended)
    BY DEF RoundEnds, Enumerate, SeedUnsatisfiable, CallShrinkFormula, MapExhausted,
       ShrinkFormula, CollectCrits, Shrink, Mine, MineEnd, Ended
  <2>4. QED
    BY <2>1, <2>2, <2>3 DEF Next
<1>2. QED
  BY <1>1, InvariantHolds, PTL DEF Spec, RoundsExplore

(* MARCO implements the enumeration it promises, for every input: it       *)
(* reports MUSes only, none twice, and completes only when all are out.    *)
THEOREM EnumerationCorrect ==
    ASSUME PlainInputs
    PROVE  Spec => EnumeratesMuses
<1>1. Init => Abstract!EnumInit
  BY InitImplements DEF Init
<1>2. Inv /\ [Next]_marcoVars => [Abstract!EnumNext]_(Abstract!enumVars)
  BY NextStep, VisibleImplements
<1>3. QED
  BY <1>1, <1>2, InvariantHolds, PTL DEF Spec, EnumeratesMuses, Abstract!EnumSpec
===========================================================================
