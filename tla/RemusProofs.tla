---------------------------- MODULE RemusProofs ----------------------------
(***************************************************************************)
(* ReMUS is proved to enumerate the MUSes of every input, and to hand only *)
(* critical constraints down its recursion.                                *)
(***************************************************************************)
EXTENDS Remus, MasterProofs

ControlPoints == {"start", "loop", "collect", "shrink", "mine", "mark", "done", "exit"}

(* A call: its criticals are right, and what the for loop recurses into is *)
(* satisfiable.                                                            *)
FrameInv(f) ==
    /\ f \in Frame
    /\ CritsSound(f.crits, f.subset)
    /\ f.origin_top \subseteq f.subset
    /\ f.crit_all # {} => Sat(f.origin_top) /\ f.crit_all \subseteq f.subset

(* The first call is for all constraints.                                  *)
CallStack(fs) ==
    /\ fs \in Seq(Frame)
    /\ \A i \in 1..Len(fs) : FrameInv(fs[i])
    /\ fs # <<>> => fs[1].subset = Constraint

Inv ==
    /\ MasterInv
    /\ pc \in ControlPoints
    /\ CallStack(frames)
    /\ pc \in InCall \cup {"loop"} => frames # <<>>
    /\ pc \in InCall => seed \subseteq frame.subset /\ frame.crit_all = {}

---------------------------------------------------------------------------
(* The call stack. *)

LEMMA FramesUnchanged ==
    ASSUME UNCHANGED cnfVars
    PROVE  /\ \A f : FrameInv(f)' <=> FrameInv(f)
           /\ \A fs : CallStack(fs)' <=> CallStack(fs)
<1>1. \A f : FrameInv(f)' <=> FrameInv(f)
  BY CnfUnchanged DEF FrameInv
<1>2. QED
  BY <1>1 DEF CallStack

LEMMA InnermostCall ==
    ASSUME CallStack(frames), frames # <<>>
    PROVE  /\ Len(frames) \in 1..Len(frames)
           /\ FrameInv(frame) /\ frame.subset \in SUBSET Constraint
           /\ frame.crits \in SUBSET Constraint
BY DEF CallStack, FrameInv, Frame, frame

LEMMA CallersKept ==
    ASSUME CallStack(frames), frames # <<>>
    PROVE  /\ CallStack(callers)
           /\ Len(frames) \in Nat /\ Len(callers) = Len(frames) - 1
<1>1. /\ Len(frames) \in Nat /\ Len(frames) >= 1
      /\ callers \in Seq(Frame) /\ Len(callers) = Len(frames) - 1
      /\ \A i \in 1..Len(frames) - 1 : callers[i] = frames[i]
  BY StackPop DEF CallStack, callers
<1>2. callers # <<>> => 1 \in 1..Len(frames) - 1
  BY <1>1, EmptySeq
<1>3. QED
  BY <1>1, <1>2 DEF CallStack

LEMMA CallPushed ==
    ASSUME NEW fs, CallStack(fs), NEW f, FrameInv(f),
           fs = <<>> => f.subset = Constraint
    PROVE  /\ CallStack(Append(fs, f)) /\ Append(fs, f) # <<>>
           /\ Append(fs, f)[Len(Append(fs, f))] = f
<1>1. /\ Append(fs, f) \in Seq(Frame) /\ Append(fs, f) # <<>>
      /\ Len(Append(fs, f)) = Len(fs) + 1 /\ Len(fs) \in Nat
      /\ \A i \in 1..Len(fs) : Append(fs, f)[i] = fs[i]
      /\ Append(fs, f)[Len(fs) + 1] = f
  BY StackPush DEF CallStack, FrameInv
<1>2. \A i \in 1..Len(fs) + 1 : FrameInv(Append(fs, f)[i])
  BY <1>1 DEF CallStack
<1>3. Append(fs, f)[1].subset = Constraint
  <2>1. CASE fs = <<>>
    BY <1>1, <2>1
  <2>2. CASE fs # <<>>
    <3>1. 1 \in 1..Len(fs)
      BY <2>2, EmptySeq DEF CallStack
    <3>2. QED
      BY <1>1, <2>2, <3>1 DEF CallStack
  <2>3. QED
    BY <2>1, <2>2
<1>4. QED
  BY <1>1, <1>2, <1>3 DEF CallStack

LEMMA FrameReplaced ==
    ASSUME CallStack(frames), frames # <<>>, NEW f, FrameInv(f), f.subset = frame.subset
    PROVE  /\ CallStack(WithFrame(f)) /\ WithFrame(f) # <<>>
           /\ WithFrame(f)[Len(WithFrame(f))] = f
<1>1. CallStack(callers) /\ Len(callers) = Len(frames) - 1 /\ Len(frames) \in Nat
  BY CallersKept
<1>2. callers = <<>> => f.subset = Constraint
  <2>1. callers = <<>> => Len(callers) = 0
    BY EmptySeq
  <2>2. callers = <<>> => Len(frames) = 1
    BY ONLY <1>1, <2>1
  <2>3. QED
    BY <2>2 DEF CallStack, frame
<1>3. QED
  BY <1>1, <1>2, CallPushed DEF WithFrame

---------------------------------------------------------------------------
(* The steps of ReMUS. *)

LEMMA InitInv ==
    ASSUME PlainInputs, Init
    PROVE  Inv
<1>1. MasterInv
  BY InitMasterInv DEF Init
<1>2. CallStack(frames)
  BY EmptySeq DEF Init, CallStack
<1>3. QED
  BY <1>1, <1>2 DEF Inv, Init, MasterInit, ControlPoints, InCall

LEMMA NewFrameInv ==
    ASSUME NEW subset \in SUBSET Constraint, NEW cr, CritsSound(cr, subset)
    PROVE  FrameInv(NewFrame(subset, cr)) /\ NewFrame(subset, cr).subset = subset
BY DEF FrameInv, NewFrame, Frame, CritsSound

LEMMA StartStep ==
    ASSUME Inv, Start
    PROVE  Inv' /\ Visible
<1>1. MasterInv' /\ UNCHANGED muses /\ pc' \in {"loop", "exit"}
      /\ (pc' = "exit" => AllMuses \subseteq Reported)
  BY EnumerateStep DEF Start, Inv
<1>2. CallStack(<<>>)
  BY EmptySeq DEF CallStack
<1>3. CallStack(<<NewFrame(Constraint, {})>>)
  <2>1. /\ FrameInv(NewFrame(Constraint, {}))
        /\ NewFrame(Constraint, {}).subset = Constraint
    BY NewFrameInv DEF CritsSound
  <2> DEFINE new == NewFrame(Constraint, {})
  <2> HIDE DEF new
  <2>2. CallStack(Append(<<>>, new))
    BY <1>2, <2>1, CallPushed DEF new
  <2>3. Append(<<>>, new) = <<new>>
    OBVIOUS
  <2>4. QED
    BY <2>2, <2>3 DEF new
<1>4. CallStack(frames)'
  <2>1. CallStack(frames')
    BY <1>2, <1>3 DEF Start
  <2>2. QED
    BY <2>1, FramesUnchanged DEF Start, Enumerate
<1>5. pc' = "loop" => frames' # <<>>
  BY DEF Start
<1>6. QED
  BY <1>1, <1>4, <1>5 DEF Start, Enumerate, Inv, ControlPoints, InCall, Visible, Over

(* A call returns; the outermost one only when its subset, the whole       *)
(* input, is exhausted.                                                    *)
LEMMA ReturnStep ==
    ASSUME Inv, pc = "loop", Return, UNCHANGED <<cnfVars, explorerVars>>,
           depth = 0 => UnexploredSets = {}
    PROVE  Inv' /\ Visible
<1>1. CallStack(frames) /\ frames # <<>>
  BY DEF Inv
<1>2. MasterInv'
  BY ControlStep DEF Return, Inv, InCall
<1>3. CallStack(callers) /\ Len(callers) = Len(frames) - 1 /\ Len(frames) \in Nat
  BY <1>1, CallersKept
<1>4. CallStack(frames)'
  BY <1>3, FramesUnchanged DEF Return
<1>5. depth # 0 => callers # <<>>
  <2>1. callers = <<>> => Len(callers) = 0
    BY EmptySeq
  <2>2. QED
    BY <1>3, <2>1 DEF depth
<1>6. depth = 0 => AllMuses \subseteq Reported
  BY ExhaustedIsComplete DEF Inv, InCall
<1>7. QED
  BY <1>2, <1>4, <1>5, <1>6 DEF Return, Inv, ControlPoints, InCall, Visible, Over

LEMMA SubsetExhaustedStep ==
    ASSUME Inv, SubsetExhausted
    PROVE  Inv' /\ Visible
<1>1. depth = 0 => frame.subset = Constraint
  <2>1. CallStack(frames) /\ frames # <<>> /\ Len(frames) \in Nat
    BY CallersKept DEF SubsetExhausted, AskingForSeed, Inv
  <2>2. depth = 0 => frame = frames[1]
    <3>1. depth = 0 => Len(frames) = 1
      BY <2>1 DEF depth
    <3>2. QED
      BY <3>1 DEF frame
  <2>3. QED
    BY <2>1, <2>2 DEF CallStack
<1>2. depth = 0 => UnexploredSets = {}
  BY <1>1, NoTopIsExhausted DEF SubsetExhausted
<1>3. QED
  BY <1>2, ReturnStep DEF SubsetExhausted, AskingForSeed

LEMMA StreakEndsStep ==
    ASSUME Inv, StreakEnds
    PROVE  Inv' /\ Visible
<1>1. depth # 0
  <2>1. depth \in Int
    BY CallersKept DEF StreakEnds, AskingForSeed, Inv, depth
  <2>2. depth > 0
    BY DEF StreakEnds
  <2>3. QED
    BY ONLY <2>1, <2>2
<1>2. QED
  BY <1>1, ReturnStep DEF StreakEnds, AskingForSeed

LEMMA SeedUnsatisfiableStep ==
    ASSUME Inv, SeedUnsatisfiable
    PROVE  Inv' /\ Visible
<1>1. PICK top \in TopUnexplored(frame.subset) :
         /\ \E core \in Cores(top) : CallShrinkFormula(core, frame.crits)
         /\ frames' = WithFrame([frame EXCEPT !.streak = 0, !.origin_top = top])
  BY DEF SeedUnsatisfiable
<1>2. PICK core \in Cores(top) : CallShrinkFormula(core, frame.crits)
  BY <1>1
<1>3. CallStack(frames) /\ frames # <<>> /\ FrameInv(frame) /\ frame.subset \in SUBSET Constraint
      /\ frame.crit_all = {}
  BY InnermostCall DEF SeedUnsatisfiable, AskingForSeed, Inv
<1>4. /\ core \in SUBSET Constraint /\ core \subseteq top /\ top \subseteq frame.subset
      /\ ~Sat(core) /\ Unexplored(core)
  BY <1>3, CoreIsCallable DEF Inv
<1>5. CritsSound(frame.crits, core)
  BY <1>3, <1>4, CriticalInSubset DEF FrameInv
<1>6. MasterInv'
  BY <1>2, <1>4, <1>5, CallStep DEF SeedUnsatisfiable, AskingForSeed, Inv, InCall
<1> DEFINE new == [frame EXCEPT !.streak = 0, !.origin_top = top]
<1>7. FrameInv(new) /\ new.subset = frame.subset /\ new.crit_all = {}
  BY <1>3, <1>4 DEF FrameInv, Frame
<1> HIDE DEF new
<1>8. CallStack(frames') /\ frames' # <<>> /\ frames'[Len(frames')] = new
  BY <1>1, <1>3, <1>7, FrameReplaced DEF new
<1>9. CallStack(frames)'
  BY <1>8, FramesUnchanged DEF SeedUnsatisfiable
<1>10. frame' = new /\ seed' = core /\ pc' = "collect" /\ UNCHANGED muses
  BY <1>2, <1>8 DEF frame, CallShrinkFormula
<1>11. QED
  BY <1>4, <1>6, <1>7, <1>8, <1>9, <1>10
     DEF SeedUnsatisfiable, AskingForSeed, Inv, ControlPoints, InCall, Visible, Over

LEMMA ShrinkingStep ==
    ASSUME Inv, Shrinking
    PROVE  Inv' /\ Visible
<1>1. MasterInv' /\ Visible /\ pc \in InCall /\ pc' \in InCall /\ seed' = seed
  BY ShrinkFormulaVisible DEF Shrinking, Inv
<1>2. CallStack(frames)'
  BY <1>1, FramesUnchanged DEF Shrinking, Inv, Visible
<1>3. frame' = frame
  BY DEF Shrinking, frame
<1>4. QED
  BY <1>1, <1>2, <1>3 DEF Shrinking, Inv, InCall, ControlPoints

LEMMA MarkAndRecurseStep ==
    ASSUME Inv, MarkAndRecurse
    PROVE  Inv' /\ Visible
<1> DEFINE old == [frame EXCEPT !.origin_top = {}]
           rest == WithFrame(old)
           new == NewFrame(ExtendMus(frame.origin_top, mus), frame.crits)
<1>1. /\ CallStack(frames) /\ frames # <<>>
      /\ FrameInv(frame) /\ frame.subset \in SUBSET Constraint
      /\ mus \subseteq frame.subset /\ frame.crit_all = {}
  BY InnermostCall DEF MarkAndRecurse, MarkMus, Inv, InCall, MasterInv, CallInv
<1>2. MasterInv' /\ UNCHANGED <<muses, cnfVars>> /\ pc' = "loop"
  BY MarkMusStep DEF MarkAndRecurse, MarkMus, Inv
<1>3. FrameInv(old) /\ old.subset = frame.subset
  BY <1>1 DEF FrameInv, Frame
<1>4. CallStack(rest) /\ rest # <<>>
  <2> HIDE DEF old
  <2>1. QED
    BY <1>1, <1>3, FrameReplaced
<1>5. FrameInv(new)
  <2>1. ExtendMus(frame.origin_top, mus) \subseteq frame.subset
    BY <1>1 DEF ExtendMus, FirstOf, FrameInv
  <2>2. CritsSound(frame.crits, ExtendMus(frame.origin_top, mus))
    BY <1>1, <2>1, CriticalInSubset DEF FrameInv
  <2>3. QED
    BY <1>1, <2>1, <2>2, NewFrameInv
<1>6. frames' = rest \/ frames' = Append(rest, new)
  BY DEF MarkAndRecurse
<1> HIDE DEF rest, new
<1>7. CallStack(frames') /\ frames' # <<>>
  BY <1>4, <1>5, <1>6, CallPushed
<1>8. CallStack(frames)'
  BY <1>2, <1>7, FramesUnchanged
<1>9. QED
  BY <1>2, <1>7, <1>8 DEF MarkAndRecurse, MarkMus, Inv, ControlPoints, InCall, Visible, Over

LEMMA NewCrits ==
    ASSUME NEW f \in Frame, NEW cr \in SUBSET Constraint
    PROVE  LET g == [f EXCEPT !.crits = @ \cup cr]
           IN  /\ g \in Frame /\ g.crits = f.crits \cup cr /\ g.subset = f.subset
               /\ g.origin_top = f.origin_top /\ g.crit_all = f.crit_all
BY DEF Frame

(* The one constraint that an MSS of the subset misses is critical for it, *)
(* and the MSS with one of several missing is satisfiable without it.      *)
LEMMA AfterMssInv ==
    ASSUME FrameInv(frame), frame.subset \in SUBSET Constraint, frame.crit_all = {},
           NEW top \in SUBSET frame.subset, Sat(top)
    PROVE  FrameInv(AfterMss(top)) /\ AfterMss(top).subset = frame.subset
<1> DEFINE missing == frame.subset \ top
           next == [frame EXCEPT !.streak = @ + 1]
<1>1. /\ FrameInv(next) /\ next.subset = frame.subset /\ next.crits = frame.crits
      /\ next.origin_top = frame.origin_top /\ next.crit_all = {}
  BY DEF FrameInv, Frame
<1>a. missing \in SUBSET Constraint /\ top \in SUBSET Constraint
  OBVIOUS
<1>2. CASE Cardinality(missing) = 1
  <2>1. PICK c : missing = {c}
    BY <1>2, ConstraintsFinite, FS_Singleton
  <2>2. c \in Constraint /\ frame.subset \ {c} = top
    BY <2>1
  <2>3. CritsSound(frame.crits \cup missing, frame.subset)
    BY <2>1, <2>2 DEF FrameInv, CritsSound
  <2> DEFINE new == [next EXCEPT !.crits = @ \cup missing]
  <2>4. AfterMss(top) = new
    BY <1>2 DEF AfterMss
  <2> HIDE DEF missing, next
  <2>5. /\ new \in Frame /\ new.crits = frame.crits \cup missing
        /\ new.subset = frame.subset /\ new.origin_top = frame.origin_top
        /\ new.crit_all = {}
    BY <1>1, <1>a, NewCrits DEF FrameInv
  <2> HIDE DEF new
  <2>6. QED
    BY <2>3, <2>4, <2>5 DEF FrameInv
<1>3. CASE AfterMss(top) = [next EXCEPT !.origin_top = top, !.crit_all = missing]
  <2> DEFINE new == [next EXCEPT !.origin_top = top, !.crit_all = missing]
  <2>1. missing \subseteq frame.subset /\ CritsSound(frame.crits, frame.subset)
    BY DEF FrameInv
  <2> HIDE DEF missing, next
  <2>2. /\ new \in Frame /\ new.crits = frame.crits /\ new.subset = frame.subset
        /\ new.origin_top = top /\ new.crit_all = missing
    <3>1. next \in Frame
      BY <1>1 DEF FrameInv
    <3>2. QED
      BY <1>1, <1>a, <3>1 DEF new, Frame
  <2> HIDE DEF new
  <2>3. FrameInv(new) /\ new.subset = frame.subset
    BY <2>1, <2>2 DEF FrameInv
  <2>4. QED
    BY <1>3, <2>3 DEF new
<1>4. QED
  BY <1>1, <1>2, <1>3 DEF AfterMss

LEMMA SeedSatisfiableStep ==
    ASSUME Inv, SeedSatisfiable
    PROVE  Inv' /\ Visible
<1>1. PICK top \in TopUnexplored(frame.subset) :
         /\ Sat(top)
         /\ \E grown \in Extensions(top) : BlockDown(grown)
         /\ frames' = WithFrame(AfterMss(top))
  BY DEF SeedSatisfiable
<1>2. PICK grown \in Extensions(top) : BlockDown(grown)
  BY <1>1
<1>3. /\ CallStack(frames) /\ frames # <<>> /\ FrameInv(frame)
      /\ frame.subset \in SUBSET Constraint /\ frame.crit_all = {}
  BY InnermostCall DEF SeedSatisfiable, AskingForSeed, Inv
<1>4. top \in SUBSET frame.subset
  BY DEF TopUnexplored, Maximal
<1>5. Sat(grown) /\ grown \in SUBSET Constraint
  BY <1>3, <1>4, ExtensionsSatisfiable
<1>6. MasterInv' /\ UNCHANGED <<pc, muses, cnfVars>>
  BY <1>2, <1>5, BlockDownOutside
     DEF SeedSatisfiable, AskingForSeed, Inv, InCall, masterVars
<1>7. FrameInv(AfterMss(top)) /\ AfterMss(top).subset = frame.subset
  BY <1>1, <1>3, <1>4, AfterMssInv
<1>8. CallStack(frames') /\ frames' # <<>>
  BY <1>1, <1>3, <1>7, FrameReplaced
<1>9. CallStack(frames)'
  BY <1>6, <1>8, FramesUnchanged
<1>10. QED
  BY <1>6, <1>8, <1>9
     DEF SeedSatisfiable, AskingForSeed, Inv, ControlPoints, InCall, Visible, Over

LEMMA RecurseOnMssStep ==
    ASSUME Inv, RecurseOnMss
    PROVE  Inv' /\ Visible
<1>1. PICK c \in frame.crit_all :
         LET left == frame.crit_all \ {c}
             rest == [frame EXCEPT !.crit_all = left,
                                   !.origin_top = IF left = {} THEN {} ELSE @]
         IN  frames' = Append(WithFrame(rest),
                              NewFrame(frame.origin_top \cup {c}, frame.crits \cup {c}))
  BY DEF RecurseOnMss
<1> DEFINE left == frame.crit_all \ {c}
           old == [frame EXCEPT !.crit_all = left,
                                !.origin_top = IF left = {} THEN {} ELSE @]
           new == NewFrame(frame.origin_top \cup {c}, frame.crits \cup {c})
<1>2. /\ CallStack(frames) /\ frames # <<>> /\ FrameInv(frame)
      /\ frame.subset \in SUBSET Constraint
  BY InnermostCall DEF RecurseOnMss, Inv
<1>3. Sat(frame.origin_top) /\ frame.crit_all \subseteq frame.subset
      /\ frame.origin_top \subseteq frame.subset
  BY <1>1, <1>2 DEF FrameInv
<1>4. FrameInv(old) /\ old.subset = frame.subset
  BY <1>2, <1>3 DEF FrameInv, Frame
<1>5. FrameInv(new)
  <2> DEFINE sub == frame.origin_top \cup {c}
  <2>1. sub \subseteq frame.subset
    BY <1>1, <1>3
  <2>2. CritsSound(frame.crits, sub)
    BY <1>2, <2>1, CriticalInSubset DEF FrameInv
  <2>3. Sat(sub \ {c})
    <3>1. sub \ {c} \subseteq frame.origin_top
      OBVIOUS
    <3>2. QED
      BY <1>3, <3>1, SatMonotone
  <2>4. CritsSound(frame.crits \cup {c}, sub)
    BY <1>1, <1>2, <1>3, <2>2, <2>3 DEF CritsSound
  <2>5. QED
    BY <1>2, <2>1, <2>4, NewFrameInv
<1>6. frames' = Append(WithFrame(old), new)
  BY <1>1
<1> HIDE DEF old, new
<1>7. CallStack(WithFrame(old)) /\ WithFrame(old) # <<>>
  BY <1>2, <1>4, FrameReplaced
<1>8. CallStack(frames') /\ frames' # <<>>
  BY <1>5, <1>6, <1>7, CallPushed
<1>9. MasterInv' /\ CallStack(frames)'
  BY <1>8, StutterStep, FramesUnchanged DEF RecurseOnMss, Inv
<1>10. QED
  BY <1>8, <1>9 DEF RecurseOnMss, Inv, ControlPoints, InCall, Visible, Over, masterVars

LEMMA NextStep ==
    ASSUME Inv, [Next]_remusVars
    PROVE  Inv' /\ Visible
<1>1. CASE UNCHANGED remusVars
  <2>1. UNCHANGED <<cnfVars, explorerVars, masterVars>> /\ UNCHANGED frames
    BY <1>1 DEF remusVars
  <2>2. MasterInv' /\ CallStack(frames)'
    BY <2>1, StutterStep, FramesUnchanged DEF Inv
  <2>3. QED
    BY <2>1, <2>2 DEF Inv, frame, masterVars, Visible, Over
<1>2. QED
  BY <1>1, StartStep, SubsetExhaustedStep, StreakEndsStep, SeedUnsatisfiableStep,
     ShrinkingStep, MarkAndRecurseStep, SeedSatisfiableStep, RecurseOnMssStep
     DEF Next, Ended

(* The invariant of the call stack holds for every depth and streak.       *)
THEOREM InvariantHolds ==
    ASSUME PlainInputs
    PROVE  Spec => []Inv
<1>1. Init => Inv
  BY InitInv
<1>2. Inv /\ [Next]_remusVars => Inv'
  BY NextStep
<1>3. QED
  BY <1>1, <1>2, PTL DEF Spec

---------------------------------------------------------------------------
(* Every variable keeps its type. *)
THEOREM TypeCorrect ==
    ASSUME PlainInputs
    PROVE  Spec => []TypeOK
<1>1. Inv => TypeOK
  BY DEF Inv, MasterInv, TypeOK, ControlPoints, CallStack
<1>2. QED
  BY <1>1, InvariantHolds, PTL

(* What is handed down the recursion as critical is critical for the       *)
(* subset of each call under way.                                          *)
THEOREM CritsCorrect ==
    ASSUME PlainInputs
    PROVE  Spec => []InheritedCritsAreCritical
<1>1. Inv => InheritedCritsAreCritical
  BY DEF Inv, CallStack, FrameInv, CritsSound, InheritedCritsAreCritical
<1>2. QED
  BY <1>1, InvariantHolds, PTL

(* A satisfiable seed is an MSS of the subset of its call, which is why    *)
(* the one constraint it misses may be called critical.                    *)
THEOREM TopsCorrect ==
    ASSUME PlainInputs
    PROVE  Spec => []TopIsMssOfSubset
<1>1. Inv => TopIsMssOfSubset
  <2> SUFFICES ASSUME Inv, pc = "loop", NEW top \in TopUnexplored(frame.subset), Sat(top),
                      NEW c \in frame.subset \ top, Sat(top \cup {c})
               PROVE  FALSE
    BY DEF TopIsMssOfSubset
  <2>1. frame.subset \in SUBSET Constraint
    BY InnermostCall DEF Inv
  <2>2. top \subseteq frame.subset
    BY DEF TopUnexplored, Maximal
  <2>3. top \cup {c} = top
    BY <2>1, <2>2, TopCannotGrow DEF Inv, MasterInv
  <2>4. QED
    BY <2>3
<1>2. QED
  BY <1>1, InvariantHolds, PTL

(* ReMUS implements the enumeration it promises, for every input, whatever *)
(* its limits on depth and streaks make it abandon.                        *)
THEOREM EnumerationCorrect ==
    ASSUME PlainInputs
    PROVE  Spec => EnumeratesMuses
<1>1. Init => Abstract!EnumInit
  BY InitImplements DEF Init
<1>2. Inv /\ [Next]_remusVars => [Abstract!EnumNext]_(Abstract!enumVars)
  BY NextStep, VisibleImplements
<1>3. QED
  BY <1>1, <1>2, InvariantHolds, PTL DEF Spec, EnumeratesMuses, Abstract!EnumSpec
===========================================================================
