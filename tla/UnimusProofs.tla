--------------------------- MODULE UnimusProofs ----------------------------
(***************************************************************************)
(* UNIMUS, the default algorithm, is proved to enumerate the MUSes of      *)
(* every input.  The point is its rotations: a new seed is only compared   *)
(* with the MUSes found in the same cover, and that is enough.  The second *)
(* part is about one rotation, module Rotation.                            *)
(***************************************************************************)
EXTENDS Unimus, Rotation, MasterProofs, WellFoundedInduction, TLAPS

ControlPoints == {"start", "loop", "collect", "shrink", "mine", "mark", "stack", "rotate",
                  "done", "exit"}
InRotation == InCall \cup {"stack", "rotate"}

(* A call of unimusRec: its criticals are right for its subset.            *)
FrameInv(f) ==
    /\ f \in Frame
    /\ CritsSound(f.crits, f.subset)
    /\ f.todo \subseteq f.subset

CallStack(fs) == fs \in Seq(Frame) /\ \A i \in 1..Len(fs) : FrameInv(fs[i])

(* The MUSes known when the call of shrink_formula under way was made.     *)
Older == 1..Len(muses) \ (IF pc \in {"mine", "mark"} THEN {Len(muses)} ELSE {})

RotationTypes ==
    /\ cover \in SUBSET Constraint
    /\ unimus_rotation_stack \in Seq(1..Len(muses))
    /\ rot_streak \in Nat /\ iter \in Nat /\ before \in Nat
    /\ mid \in 0..Len(muses)
    /\ untried \in SUBSET Constraint

(* The older MUSes inside the cover are the local ones, and the MUS that   *)
(* is being extracted comes from the cover.                                *)
CoverInv ==
    /\ localMuses \subseteq Older
    /\ pc \in InRotation => \A i \in Older : muses[i] \subseteq cover <=> i \in localMuses
    /\ pc \in InCall => seed \subseteq cover
    /\ pc \in {"mine", "mark"} => Len(muses) \in 1..Len(muses) /\ muses[Len(muses)] = mus

(* mid tells a call made by a rotation from the others.                    *)
RotationControl ==
    /\ mid = 0 /\ pc # "stack" => localMuses = {}
    /\ pc = "rotate" => mid # 0
    /\ mid # 0 => pc \in InCall \cup {"rotate"}

RotationInv == RotationTypes /\ CoverInv /\ RotationControl

Inv ==
    /\ MasterInv
    /\ pc \in ControlPoints
    /\ foundMUS \in Nat /\ foundMSS \in Nat
    /\ CallStack(frames)
    /\ RotationInv

---------------------------------------------------------------------------
(* The call stack. *)

LEMMA FramesUnchanged ==
    ASSUME UNCHANGED cnfVars
    PROVE  \A fs : CallStack(fs)' <=> CallStack(fs)
<1>1. \A f : FrameInv(f)' <=> FrameInv(f)
  BY CnfUnchanged DEF FrameInv
<1>2. QED
  BY <1>1 DEF CallStack

LEMMA InnermostCall ==
    ASSUME CallStack(frames), frames # <<>>
    PROVE  /\ FrameInv(frame) /\ frame \in Frame
           /\ frame.subset \in SUBSET Constraint /\ frame.crits \in SUBSET Constraint
<1>1. Len(frames) \in 1..Len(frames)
  BY DEF CallStack
<1>2. QED
  BY <1>1 DEF CallStack, FrameInv, Frame, frame

LEMMA CallersKept ==
    ASSUME CallStack(frames), frames # <<>>
    PROVE  CallStack(callers)
<1>1. /\ Len(frames) \in Nat
      /\ callers \in Seq(Frame) /\ Len(callers) = Len(frames) - 1
      /\ \A i \in 1..Len(frames) - 1 : callers[i] = frames[i]
  BY StackPop DEF CallStack, callers
<1>2. QED
  BY <1>1 DEF CallStack

LEMMA CallPushed ==
    ASSUME NEW fs, CallStack(fs), NEW f, FrameInv(f)
    PROVE  CallStack(Append(fs, f))
<1>1. /\ Append(fs, f) \in Seq(Frame)
      /\ Len(Append(fs, f)) = Len(fs) + 1 /\ Len(fs) \in Nat
      /\ \A i \in 1..Len(fs) : Append(fs, f)[i] = fs[i]
      /\ Append(fs, f)[Len(fs) + 1] = f
  BY StackPush DEF CallStack, FrameInv
<1>2. QED
  BY <1>1 DEF CallStack

LEMMA FrameReplaced ==
    ASSUME CallStack(frames), frames # <<>>, NEW f, FrameInv(f)
    PROVE  CallStack(WithFrame(f))
BY CallersKept, CallPushed DEF WithFrame

LEMMA NewFrameInv ==
    ASSUME NEW subset \in SUBSET Constraint, NEW cr, CritsSound(cr, subset)
    PROVE  FrameInv(NewFrame(subset, cr))
BY DEF FrameInv, NewFrame, Frame, CritsSound

(* Inside a call the innermost frame may be given other criticals, if they *)
(* are right, and another loop over constraints of its subset.             *)
LEMMA NewCrits ==
    ASSUME NEW f, FrameInv(f), NEW cr \in SUBSET Constraint,
           CritsSound(f.crits \cup cr, f.subset)
    PROVE  FrameInv([f EXCEPT !.crits = @ \cup cr])
BY DEF FrameInv, Frame

LEMMA NewStreak ==
    ASSUME NEW f \in Frame
    PROVE  LET g == [f EXCEPT !.streak = @ + 1, !.first = FALSE]
           IN  g \in Frame /\ g.subset = f.subset /\ g.crits = f.crits /\ g.todo = f.todo
<1> DEFINE g == [f EXCEPT !.streak = @ + 1, !.first = FALSE]
<1>1. f.streak + 1 \in Nat
  BY DEF Frame
<1>2. g \in Frame
  BY <1>1 DEF Frame
<1>3. g.subset = f.subset /\ g.crits = f.crits /\ g.todo = f.todo
  BY DEF Frame
<1>4. QED
  BY <1>2, <1>3

LEMMA NewLoop ==
    ASSUME NEW f, FrameInv(f), NEW all \in SUBSET Constraint, NEW left \in SUBSET f.subset
    PROVE  FrameInv([f EXCEPT !.crit_all = all, !.todo = left])
BY DEF FrameInv, Frame

---------------------------------------------------------------------------
(* What the steps do to the rotation. *)

LEMMA SeqMonotone ==
    ASSUME NEW S, NEW T, S \subseteq T, NEW s \in Seq(S)
    PROVE  s \in Seq(T)
OBVIOUS

(* Every MUS that was reported is explored, so none lies in an unexplored  *)
(* set.                                                                    *)
LEMMA NoKnownMusInside ==
    ASSUME MasterInv, pc \notin InCall, NEW f \in SUBSET Constraint, Unexplored(f),
           NEW i \in DOMAIN muses
    PROVE  ~(muses[i] \subseteq f)
<1>1. muses[i] \in blocked_muses
  BY DEF MasterInv, ReportInv, Reported, InCall
<1>2. ~Sat(muses[i]) /\ ~Unexplored(muses[i])
  BY <1>1, BlockedIsExplored DEF MasterInv, MapInv, UpSound, IsMus
<1>3. QED
  BY <1>2, UnsatPartUnexplored DEF MasterInv

(* And an unsatisfiable set that contains no reported MUS is unexplored,   *)
(* although clauses of the map were weakened.                              *)
LEMMA NoKnownMusIsUnexplored ==
    ASSUME MasterInv, pc \notin InCall, NEW f \in SUBSET Constraint, ~Sat(f),
           \A i \in DOMAIN muses : ~(muses[i] \subseteq f)
    PROVE  Unexplored(f)
<1>1. \A m \in blocked_muses : ~(m \subseteq f)
  BY DEF MasterInv, ReportInv, Reported, InCall
<1>2. (\A mcs \in mcses : Satisfies(f, mcs)) /\ critical \subseteq f
  BY UnsatMeetsMcs DEF MasterInv, MapInv
<1> SUFFICES ASSUME NEW cl \in solver PROVE Satisfies(f, cl)
  BY DEF Unexplored, SatisfiesAll
<1>3. ASSUME NEW m \in blocked_muses, NEW K \in SUBSET critical, cl = Weakened(m, K)
      PROVE  Satisfies(f, cl)
  <2>1. m \in SUBSET Constraint
    BY DEF MasterInv, ExplorerTypeOK
  <2>2. ~(m \ K \subseteq f)
    BY <1>1, <1>2
  <2>3. QED
    BY <1>3, <2>1, <2>2, MapClauseMeaning
<1>4. QED
  BY <1>2, <1>3 DEF MasterInv, MapInv, MapClauses

LEMMA MusesIndexed ==
    ASSUME MasterInv
    PROVE  /\ DOMAIN muses = 1..Len(muses) /\ Len(muses) \in Nat
           /\ \A i \in 1..Len(muses) : muses[i] \in SUBSET Constraint
BY DEF MasterInv, MasterTypeOK

(* Steps outside the rotation. *)
LEMMA RotationQuiet ==
    ASSUME RotationInv, UNCHANGED <<rotationVars, seed, mus, muses>>,
           pc \notin InRotation, pc' \notin InRotation
    PROVE  RotationInv'
<1>1. RotationTypes'
  BY DEF rotationVars, RotationInv, RotationTypes
<1>2. CoverInv'
  BY DEF rotationVars, RotationInv, CoverInv, Older, InRotation, InCall
<1>3. RotationControl'
  BY DEF rotationVars, RotationInv, RotationControl, InRotation, InCall
<1>4. QED
  BY <1>1, <1>2, <1>3 DEF RotationInv

(* The seed of a refinement or recursion becomes the cover.                *)
LEMMA CoverChosen ==
    ASSUME MasterInv, RotationInv, pc = "loop",
           NEW top \in SUBSET Constraint, Unexplored(top), NEW core \in SUBSET top, NEW cr,
           CallShrinkFormula(core, cr), cover' = top, UNCHANGED localMuses,
           UNCHANGED <<unimus_rotation_stack, rot_streak, mid, before, untried, iter>>
    PROVE  RotationInv'
<1>1. pc' = "collect" /\ seed' = core /\ UNCHANGED <<mus, muses>>
  BY DEF CallShrinkFormula
<1>2. mid = 0 /\ localMuses = {}
  BY DEF RotationInv, RotationControl, InCall
<1>3. \A i \in 1..Len(muses) : ~(muses[i] \subseteq top)
  BY NoKnownMusInside, MusesIndexed DEF InCall
<1>4. RotationTypes'
  BY <1>1 DEF RotationInv, RotationTypes
<1>5. CoverInv'
  BY <1>1, <1>2, <1>3 DEF CoverInv, Older, InCall
<1>6. RotationControl'
  BY <1>1, <1>2 DEF RotationControl
<1>7. QED
  BY <1>4, <1>5, <1>6 DEF RotationInv

(* Extracting a MUS pushes one that lies in the cover.                     *)
LEMMA MusPushed ==
    ASSUME MasterInv, RotationInv, UNCHANGED <<rotationVars, seed>>,
           pc \in {"collect", "shrink"}, pc' \in {"mine", "mark"},
           NEW m \in SUBSET Constraint, Push(m)
    PROVE  RotationInv'
<1> DEFINE n == Len(muses)
<1>1. muses \in Seq(SUBSET Constraint) /\ muses' = Append(muses, m) /\ mus' = m
  BY DEF Push, MasterInv, MasterTypeOK
<1>2. /\ n \in Nat /\ Len(muses') = n + 1 /\ muses'[n + 1] = m
      /\ \A i \in 1..n : muses'[i] = muses[i]
  BY <1>1
<1>3. Older = 1..n /\ Older' = 1..n
  BY <1>2 DEF Older
<1>4. RotationTypes'
  <2>1. 1..n \subseteq 1..n + 1 /\ 0..n \subseteq 0..n + 1
    BY <1>2
  <2>2. unimus_rotation_stack \in Seq(1..n + 1)
    BY <2>1, SeqMonotone DEF RotationInv, RotationTypes
  <2>3. QED
    BY <1>2, <2>1, <2>2 DEF rotationVars, RotationInv, RotationTypes
<1>5. CoverInv'
  <2>1. Len(muses') \in 1..Len(muses') /\ muses'[Len(muses')] = mus'
    BY <1>1, <1>2
  <2>2. \A i \in 1..n : muses'[i] \subseteq cover <=> i \in localMuses
    BY <1>2, <1>3 DEF RotationInv, CoverInv, InRotation, InCall
  <2>3. QED
    BY <1>3, <2>1, <2>2 DEF rotationVars, RotationInv, CoverInv, InCall
<1>6. RotationControl'
  BY DEF rotationVars, RotationInv, RotationControl, InCall
<1>7. QED
  BY <1>4, <1>5, <1>6 DEF RotationInv

(* The extraction goes on. *)
LEMMA NothingPushed ==
    ASSUME RotationInv, UNCHANGED <<rotationVars, seed, mus, muses>>,
           pc \in InCall, pc' \in InCall, pc' \in {"mine", "mark"} <=> pc \in {"mine", "mark"}
    PROVE  RotationInv'
<1>1. Older' = Older
  BY DEF Older
<1>2. RotationTypes'
  BY DEF rotationVars, RotationInv, RotationTypes
<1>3. CoverInv'
  BY <1>1 DEF rotationVars, RotationInv, CoverInv, InRotation
<1>4. RotationControl'
  BY DEF rotationVars, RotationInv, RotationControl, InCall
<1>5. QED
  BY <1>2, <1>3, <1>4 DEF RotationInv

(* The MUS just marked lies in the cover: it becomes a local one.          *)
LEMMA LocalMusAdded ==
    ASSUME MasterInv, RotationInv, NEW next \in {"stack", "rotate"}, MarkMus(next),
           localMuses' = localMuses \cup {Len(muses)}, UNCHANGED cover
    PROVE  CoverInv'
<1> DEFINE n == Len(muses)
<1>1. pc = "mark" /\ pc' = next /\ UNCHANGED muses
  BY DEF MarkMus
<1>2. n \in 1..n /\ muses[n] = mus /\ seed \subseteq cover /\ localMuses \subseteq Older
      /\ \A i \in Older : muses[i] \subseteq cover <=> i \in localMuses
  BY <1>1 DEF RotationInv, CoverInv, InCall, InRotation
<1>3. mus \subseteq seed
  BY <1>1 DEF MasterInv, CallInv
<1>4. Older = 1..n \ {n} /\ Older' = 1..n
  BY <1>1 DEF Older
<1> HIDE DEF n
<1>5. \A i \in 1..n : muses[i] \subseteq cover <=> i \in localMuses \cup {n}
  BY ONLY <1>2, <1>3, <1>4
<1>6. localMuses \cup {n} \subseteq 1..n
  BY ONLY <1>2, <1>4
<1>7. QED
  BY <1>1, <1>4, <1>5, <1>6 DEF CoverInv, n, InCall

LEMMA RotationBegins ==
    ASSUME MasterInv, RotationInv, MarkAndRotate
    PROVE  RotationInv'
<1>1. pc = "mark" /\ pc' = "stack" /\ UNCHANGED <<muses, cover>>
  BY DEF MarkAndRotate, MarkMus
<1>2. localMuses = {}
  BY <1>1 DEF MarkAndRotate, RotationInv, RotationControl
<1>3. Len(muses) \in 1..Len(muses)
  BY <1>1 DEF RotationInv, CoverInv
<1>4. CoverInv'
  <2>1. localMuses' = localMuses \cup {Len(muses)}
    BY <1>2 DEF MarkAndRotate
  <2>2. QED
    BY <2>1, LocalMusAdded DEF MarkAndRotate
<1>5. RotationTypes'
  <2>1. unimus_rotation_stack' \in Seq(1..Len(muses))
    BY <1>3 DEF MarkAndRotate
  <2>2. QED
    BY <1>1, <2>1 DEF MarkAndRotate, RotationInv, RotationTypes
<1>6. RotationControl'
  BY <1>1 DEF MarkAndRotate, RotationControl
<1>7. QED
  BY <1>4, <1>5, <1>6 DEF RotationInv

LEMMA RotationGoesOn ==
    ASSUME MasterInv, RotationInv, MarkRotated
    PROVE  RotationInv'
<1>1. pc = "mark" /\ pc' = "rotate" /\ UNCHANGED <<muses, cover>>
  BY DEF MarkRotated, MarkMus
<1>2. Len(muses) \in 1..Len(muses)
  BY <1>1 DEF RotationInv, CoverInv
<1>3. CoverInv'
  BY LocalMusAdded DEF MarkRotated
<1>4. RotationTypes'
  <2>1. unimus_rotation_stack' \in Seq(1..Len(muses))
    BY <1>2, StackPush DEF MarkRotated, RotationInv, RotationTypes
  <2>2. QED
    BY <1>1, <2>1 DEF MarkRotated, RotationInv, RotationTypes
<1>5. RotationControl'
  BY <1>1 DEF MarkRotated, RotationControl
<1>6. QED
  BY <1>3, <1>4, <1>5 DEF RotationInv

(* Nothing is pushed while the rotation chooses what to do next.           *)
LEMMA CoverKept ==
    ASSUME RotationInv, UNCHANGED <<cover, localMuses, mus, muses>>,
           pc \in {"stack", "rotate"},
           \/ pc' \in {"stack", "rotate"}
           \/ pc' = "collect" /\ seed' \subseteq cover
    PROVE  CoverInv'
<1>1. Older' = Older
  BY DEF Older
<1>2. QED
  BY <1>1 DEF RotationInv, CoverInv, InRotation, InCall

LEMMA MusPopped ==
    ASSUME MasterInv, RotationInv, PopMus
    PROVE  RotationInv'
<1> DEFINE n == Len(unimus_rotation_stack)
<1>1. /\ unimus_rotation_stack \in Seq(1..Len(muses)) /\ unimus_rotation_stack # <<>>
      /\ unimus_rotation_stack' = SubSeq(unimus_rotation_stack, 1, n - 1)
      /\ mid' = unimus_rotation_stack[n]
  BY DEF PopMus, RotationInv, RotationTypes
<1>2. unimus_rotation_stack' \in Seq(1..Len(muses)) /\ n \in Nat /\ n >= 1
  BY <1>1, StackPop
<1>3. mid' \in 1..Len(muses)
  BY <1>1, <1>2, ElementOfSeq
<1>4. Len(muses) \in Nat /\ muses[mid'] \in SUBSET Constraint
  BY <1>3, MusesIndexed
<1>5. mid' # 0 /\ mid' \in 0..Len(muses)
  BY <1>3, <1>4
<1>6. RotationTypes'
  BY <1>2, <1>4, <1>5 DEF PopMus, RotationInv, RotationTypes
<1>7. CoverInv'
  BY CoverKept DEF PopMus
<1>8. RotationControl'
  BY <1>5 DEF PopMus, RotationControl
<1>9. QED
  BY <1>6, <1>7, <1>8 DEF RotationInv

LEMMA ConstraintTried ==
    ASSUME MasterInv, RotationInv, SkipCritical \/ RotationFails
    PROVE  RotationInv'
<1>1. /\ pc = "rotate" /\ pc' = "rotate" /\ iter' \in {iter, iter + 1} /\ untried' \subseteq untried
      /\ UNCHANGED <<seed, mus, muses, cover, localMuses, unimus_rotation_stack,
                     rot_streak, mid, before>>
  BY DEF SkipCritical, RotationFails, Rotating, masterVars
<1>2. RotationTypes'
  BY <1>1 DEF RotationInv, RotationTypes
<1>3. CoverInv'
  BY <1>1, CoverKept
<1>4. RotationControl'
  BY <1>1 DEF RotationInv, RotationControl
<1>5. QED
  BY <1>2, <1>3, <1>4 DEF RotationInv

(* The seed a rotation returns contains no local MUS, and no other one     *)
(* because it lies in the cover: it is unexplored.                         *)
LEMMA RotationSeedIsNew ==
    ASSUME MasterInv, RotationInv, pc = "rotate", NEW c, NEW s \in Seeds(c)
    PROVE  s \in SUBSET Constraint /\ s \subseteq cover /\ ~Sat(s) /\ Unexplored(s)
<1>1. /\ s \subseteq cover /\ ~Sat(s)
      /\ \A i \in localMuses : ~(muses[i] \subseteq s)
  BY DEF Seeds, RotationSeeds
<1>2. s \in SUBSET Constraint
  BY <1>1 DEF RotationInv, RotationTypes
<1>3. \A i \in 1..Len(muses) : muses[i] \subseteq cover <=> i \in localMuses
  BY DEF RotationInv, CoverInv, InRotation, Older
<1>4. \A i \in DOMAIN muses : ~(muses[i] \subseteq s)
  BY <1>1, <1>3, MusesIndexed
<1>5. QED
  BY <1>1, <1>2, <1>4, NoKnownMusIsUnexplored DEF InCall

LEMMA RotationReturns ==
    ASSUME RotationInv, MasterInv, RotateReturns
    PROVE  RotationInv'
<1>1. unimus_rotation_stack' \in Seq(1..Len(muses))
  <2>1. <<>> \in Seq(1..Len(muses))
    BY EmptySeq
  <2>2. QED
    BY <2>1 DEF RotateReturns, RotationInv, RotationTypes
<1>2. rot_streak' \in Nat
  BY DEF RotateReturns, RotationInv, RotationTypes
<1>3. 0 \in 0..Len(muses)
  BY MusesIndexed
<1>4. RotationTypes'
  BY <1>1, <1>2, <1>3 DEF RotateReturns, RotationInv, RotationTypes
<1>5. CoverInv'
  BY CoverKept DEF RotateReturns
<1>6. RotationControl'
  BY DEF RotateReturns, RotationControl
<1>7. QED
  BY <1>4, <1>5, <1>6 DEF RotationInv

LEMMA RotationOver ==
    ASSUME RotationInv, RotationEnds
    PROVE  RotationInv'
<1>1. mid = 0
  BY DEF RotationEnds, RotationInv, RotationControl, InCall
<1>2. RotationTypes'
  BY DEF RotationEnds, RotationInv, RotationTypes
<1>3. CoverInv'
  BY DEF RotationEnds, CoverInv, InRotation, InCall
<1>4. RotationControl'
  BY <1>1 DEF RotationEnds, RotationControl
<1>5. QED
  BY <1>2, <1>3, <1>4 DEF RotationInv

---------------------------------------------------------------------------
(* The steps of UNIMUS. *)

LEMMA InitInv ==
    ASSUME PlainInputs, Init
    PROVE  Inv
<1>1. MasterInv
  BY InitMasterInv DEF Init
<1>2. CallStack(frames)
  BY EmptySeq DEF Init, CallStack
<1>3. RotationInv
  <2>1. muses = <<>> /\ Len(muses) = 0
    BY DEF Init, MasterInit
  <2>2. RotationTypes
    BY <2>1 DEF Init, RotationTypes
  <2>3. CoverInv /\ RotationControl
    BY DEF Init, MasterInit, CoverInv, RotationControl, InRotation, InCall
  <2>4. QED
    BY <2>2, <2>3 DEF RotationInv
<1>4. QED
  BY <1>1, <1>2, <1>3 DEF Inv, Init, MasterInit, ControlPoints

LEMMA StartStep ==
    ASSUME Inv, Start
    PROVE  Inv' /\ Visible
<1>1. MasterInv' /\ UNCHANGED muses /\ pc' \in {"loop", "exit"}
      /\ (pc' = "exit" => AllMuses \subseteq Reported)
  BY EnumerateStep DEF Start, Inv
<1>2. pc = "start" /\ UNCHANGED <<cnfVars, seed, mus>>
  BY DEF Start, Enumerate
<1>3. CallStack(frames)'
  BY <1>2, FramesUnchanged DEF Start, Inv, CallStack
<1>4. RotationInv'
  BY <1>1, <1>2, RotationQuiet DEF Start, Inv, InRotation, InCall
<1>5. QED
  BY <1>1, <1>2, <1>3, <1>4 DEF Start, Inv, refineVars, ControlPoints, Visible, Over

(* Steps between the calls, which leave the map and the MUSes alone.       *)
LEMMA QuietStep ==
    ASSUME Inv, pc = "loop", pc' \in {"loop", "done"},
           pc' = "done" => AllMuses \subseteq Reported,
           UNCHANGED <<seed, crits, mus, muses, uni, limit, cnfVars, explorerVars, rotationVars>>,
           foundMUS' \in Nat, foundMSS' \in Nat, CallStack(frames')
    PROVE  Inv' /\ Visible
<1>1. MasterInv'
  BY ControlStep DEF Inv, InCall
<1>2. CallStack(frames)'
  BY FramesUnchanged DEF CallStack
<1>3. RotationInv'
  BY RotationQuiet DEF Inv, InRotation, InCall
<1>4. QED
  BY <1>1, <1>2, <1>3 DEF Inv, ControlPoints, Visible, Over

LEMMA RefineExhaustedStep ==
    ASSUME Inv, RefineExhausted
    PROVE  Inv' /\ Visible
<1>1. UnexploredSets = {}
  BY NoTopIsExhausted DEF RefineExhausted
<1>2. AllMuses \subseteq Reported
  BY <1>1, ExhaustedIsComplete DEF RefineExhausted, Refining, Inv, InCall
<1>3. QED
  BY <1>2, QuietStep DEF RefineExhausted, Refining, refineVars, Inv

LEMMA RefineEndsStep ==
    ASSUME Inv, RefineEnds
    PROVE  Inv' /\ Visible
<1>1. FrameInv(NewFrame(uni, {}))
  BY NewFrameInv DEF Inv, MasterInv, MasterTypeOK, CritsSound
<1> DEFINE new == NewFrame(uni, {})
<1>2. CallStack(<<>>)
  BY EmptySeq DEF CallStack
<1>3. CallStack(<<new>>)
  <2> HIDE DEF new
  <2>1. CallStack(Append(<<>>, new))
    BY <1>1, <1>2, CallPushed DEF new
  <2>2. Append(<<>>, new) = <<new>>
    OBVIOUS
  <2>3. QED
    BY <2>1, <2>2
<1>4. QED
  BY <1>3, QuietStep DEF RefineEnds, Refining, masterVars

LEMMA RecReturnsStep ==
    ASSUME Inv, RecReturns
    PROVE  Inv' /\ Visible
<1>1. CallStack(callers)
  BY CallersKept DEF RecReturns, AskingForSeed, Inv
<1>2. QED
  BY <1>1, QuietStep DEF RecReturns, AskingForSeed, masterVars, refineVars, Inv

(* A seed is shrunk: of a refinement, of a recursion, or of a rotation.    *)
LEMMA CalledStep ==
    ASSUME Inv, pc \notin InCall \cup Over, UNCHANGED <<cnfVars, explorerVars, refineVars>>,
           NEW f \in SUBSET Constraint, ~Sat(f), Unexplored(f),
           NEW cr, CritsSound(cr, f), CallShrinkFormula(f, cr),
           RotationInv', CallStack(frames')
    PROVE  Inv' /\ Visible
<1>1. MasterInv'
  BY CallStep DEF Inv
<1>2. CallStack(frames)'
  BY FramesUnchanged DEF CallStack
<1>3. pc' = "collect" /\ UNCHANGED muses
  BY DEF CallShrinkFormula
<1>4. QED
  BY <1>1, <1>2, <1>3 DEF Inv, refineVars, ControlPoints, Visible, Over

LEMMA RefineUnsatisfiableStep ==
    ASSUME Inv, RefineUnsatisfiable
    PROVE  Inv' /\ Visible
<1>1. PICK top \in TopUnexplored(Constraint) :
         /\ \E core \in Cores(top) : CallShrinkFormula(core, critical)
         /\ cover' = top
  BY DEF RefineUnsatisfiable
<1>2. PICK core \in Cores(top) : CallShrinkFormula(core, critical)
  BY <1>1
<1>3. /\ core \in SUBSET Constraint /\ core \subseteq top /\ top \subseteq Constraint
      /\ ~Sat(core) /\ Unexplored(core)
  BY CoreIsCallable DEF Inv
<1>4. Unexplored(top)
  BY DEF TopUnexplored, Maximal
<1>5. CritsSound(critical, core)
  BY <1>3, CriticalSound DEF Inv, MasterInv
<1>6. RotationInv'
  BY <1>1, <1>2, <1>3, <1>4, CoverChosen DEF RefineUnsatisfiable, Refining, Inv
<1>7. CallStack(frames')
  BY DEF RefineUnsatisfiable, Inv
<1>8. QED
  BY <1>2, <1>3, <1>5, <1>6, <1>7, CalledStep DEF RefineUnsatisfiable, Refining, InCall, Over

LEMMA RecUnsatisfiableStep ==
    ASSUME Inv, RecUnsatisfiable
    PROVE  Inv' /\ Visible
<1>1. PICK top \in TopUnexplored(frame.subset) :
         /\ \E core \in Cores(top) : CallShrinkFormula(core, frame.crits)
         /\ cover' = top
  BY DEF RecUnsatisfiable
<1>2. PICK core \in Cores(top) : CallShrinkFormula(core, frame.crits)
  BY <1>1
<1>3. /\ CallStack(frames) /\ frames # <<>> /\ FrameInv(frame)
      /\ frame.subset \in SUBSET Constraint
  BY InnermostCall DEF RecUnsatisfiable, AskingForSeed, Inv
<1>4. /\ core \in SUBSET Constraint /\ core \subseteq top /\ top \subseteq frame.subset
      /\ ~Sat(core) /\ Unexplored(core)
  BY <1>3, CoreIsCallable DEF Inv
<1>5. Unexplored(top) /\ top \in SUBSET Constraint
  BY <1>3, <1>4 DEF TopUnexplored, Maximal
<1>6. CritsSound(frame.crits, core)
  BY <1>3, <1>4, CriticalInSubset DEF FrameInv
<1>7. RotationInv'
  BY <1>1, <1>2, <1>4, <1>5, CoverChosen DEF RecUnsatisfiable, AskingForSeed, Inv
<1>8. CallStack(frames')
  <2> DEFINE new == [frame EXCEPT !.unsatFound = TRUE, !.streak = 0, !.first = FALSE]
  <2>1. FrameInv(new)
    BY <1>3 DEF FrameInv, Frame
  <2> HIDE DEF new
  <2>2. QED
    BY <1>3, <2>1, FrameReplaced DEF RecUnsatisfiable, new
<1>9. QED
  BY <1>2, <1>4, <1>6, <1>7, <1>8, CalledStep
     DEF RecUnsatisfiable, AskingForSeed, InCall, Over

LEMMA RotationSucceedsStep ==
    ASSUME Inv, RotationSucceeds
    PROVE  Inv' /\ Visible
<1>1. PICK c \in untried : /\ Rotating(c)
                           /\ \E s \in Seeds(c) : CallShrinkFormula(s, critical)
                           /\ untried' = untried \ {c}
  BY DEF RotationSucceeds
<1>2. PICK s \in Seeds(c) : CallShrinkFormula(s, critical)
  BY <1>1
<1>3. pc = "rotate" /\ pc' = "collect" /\ seed' = s /\ UNCHANGED <<mus, muses>>
  BY <1>1, <1>2 DEF Rotating, CallShrinkFormula
<1>4. s \in SUBSET Constraint /\ s \subseteq cover /\ ~Sat(s) /\ Unexplored(s)
  BY <1>3, RotationSeedIsNew DEF Inv
<1>5. CritsSound(critical, s)
  BY <1>4, CriticalSound DEF Inv, MasterInv
<1>6. RotationInv'
  <2>1. RotationTypes'
    BY <1>1, <1>3 DEF RotationSucceeds, Inv, RotationInv, RotationTypes
  <2>2. CoverInv'
    BY <1>3, <1>4, CoverKept DEF RotationSucceeds, Inv
  <2>3. RotationControl'
    BY <1>3 DEF RotationSucceeds, Inv, RotationInv, RotationControl, InCall
  <2>4. QED
    BY <2>1, <2>2, <2>3 DEF RotationInv
<1>7. CallStack(frames')
  BY DEF RotationSucceeds, Inv
<1>8. QED
  BY <1>2, <1>3, <1>4, <1>5, <1>6, <1>7, CalledStep DEF RotationSucceeds, InCall, Over

(* A satisfiable seed of a refinement or a recursion is blocked down.      *)
LEMMA BlockedDownStep ==
    ASSUME Inv, pc = "loop", NEW f \in SUBSET Constraint, Sat(f), BlockDown(f),
           UNCHANGED <<masterVars, testedForCriticality, cnfVars, rotationVars>>,
           foundMUS' \in Nat, foundMSS' \in Nat, CallStack(frames')
    PROVE  Inv' /\ Visible
<1>1. MasterInv' /\ UNCHANGED <<pc, seed, mus, muses>>
  BY BlockDownOutside DEF Inv, InCall, masterVars
<1>2. CallStack(frames)'
  BY FramesUnchanged DEF CallStack
<1>3. RotationInv'
  BY <1>1, RotationQuiet DEF Inv, InRotation, InCall
<1>4. QED
  BY <1>1, <1>2, <1>3 DEF Inv, ControlPoints, Visible, Over

LEMMA RefineSatisfiableStep ==
    ASSUME Inv, RefineSatisfiable
    PROVE  Inv' /\ Visible
<1>1. PICK top \in TopUnexplored(Constraint) : Sat(top) /\ BlockDown(top)
  BY DEF RefineSatisfiable
<1>2. top \in SUBSET Constraint
  BY DEF TopUnexplored, Maximal
<1>3. QED
  BY <1>1, <1>2, BlockedDownStep DEF RefineSatisfiable, Refining, Inv

(* The one constraint that an MSS of the subset misses is critical for it. *)
LEMMA AfterMssInv ==
    ASSUME CallStack(frames), frames # <<>>, NEW top \in SUBSET frame.subset, Sat(top)
    PROVE  CallStack(AfterMss(top))
<1> DEFINE missing == frame.subset \ top
           next == [frame EXCEPT !.streak = @ + 1, !.first = FALSE]
<1>1. FrameInv(frame) /\ frame \in Frame /\ frame.subset \in SUBSET Constraint
  BY InnermostCall
<1>2. FrameInv(next) /\ next.subset = frame.subset /\ next.crits = frame.crits
  <2>1. /\ next \in Frame /\ next.subset = frame.subset /\ next.crits = frame.crits
        /\ next.todo = frame.todo
    BY <1>1, NewStreak
  <2> HIDE DEF next
  <2>2. QED
    BY <1>1, <2>1 DEF FrameInv
<1>3. missing \in SUBSET Constraint /\ missing \in SUBSET frame.subset
  BY <1>1
<1>4. CASE AfterMss(top) = callers
  BY <1>4, CallersKept
<1>5. CASE /\ Cardinality(missing) = 1
           /\ AfterMss(top) = WithFrame([next EXCEPT !.crits = @ \cup missing])
  <2>1. PICK c : missing = {c}
    BY <1>3, <1>5, ConstraintsFinite, FS_Singleton
  <2>2. c \in Constraint /\ frame.subset \ {c} = top
    BY <1>3, <2>1
  <2>3. CritsSound(frame.crits \cup missing, frame.subset)
    BY <1>1, <2>1, <2>2 DEF FrameInv, CritsSound
  <2> HIDE DEF missing, next
  <2>4. FrameInv([next EXCEPT !.crits = @ \cup missing])
    BY <1>2, <1>3, <2>3, NewCrits
  <2>5. QED
    BY <1>5, <2>4, FrameReplaced
<1>6. CASE AfterMss(top) = WithFrame(next)
  BY <1>2, <1>6, FrameReplaced
<1>7. CASE AfterMss(top) = WithFrame([next EXCEPT !.crit_all = missing, !.todo = missing])
  <2> HIDE DEF missing, next
  <2>1. FrameInv([next EXCEPT !.crit_all = missing, !.todo = missing])
    BY <1>2, <1>3, NewLoop
  <2>2. QED
    BY <1>7, <2>1, FrameReplaced
<1>8. QED
  BY <1>4, <1>5, <1>6, <1>7 DEF AfterMss

LEMMA RecSatisfiableStep ==
    ASSUME Inv, RecSatisfiable
    PROVE  Inv' /\ Visible
<1>1. PICK top \in TopUnexplored(frame.subset) :
         /\ Sat(top)
         /\ \E grown \in Extensions(top) : BlockDown(grown)
         /\ frames' = AfterMss(top)
  BY DEF RecSatisfiable
<1>2. PICK grown \in Extensions(top) : BlockDown(grown)
  BY <1>1
<1>3. CallStack(frames) /\ frames # <<>> /\ frame.subset \in SUBSET Constraint
  BY InnermostCall DEF RecSatisfiable, AskingForSeed, Inv
<1>4. top \in SUBSET frame.subset
  BY DEF TopUnexplored, Maximal
<1>5. Sat(grown) /\ grown \in SUBSET Constraint
  BY <1>3, <1>4, ExtensionsSatisfiable
<1>6. CallStack(frames')
  BY <1>1, <1>3, <1>4, AfterMssInv
<1>7. QED
  BY <1>2, <1>5, <1>6, BlockedDownStep
     DEF RecSatisfiable, AskingForSeed, refineVars, Inv

LEMMA RecForEachStep ==
    ASSUME Inv, RecForEach
    PROVE  Inv' /\ Visible
<1>1. CallStack(frames) /\ frames # <<>> /\ FrameInv(frame) /\ frame \in Frame
      /\ frame.subset \in SUBSET Constraint
  BY InnermostCall DEF RecForEach, Inv
<1>2. PICK c \in frame.todo :
         LET left == frame.todo \ {c}
             old == [frame EXCEPT !.processed = @ \cup {c}, !.todo = left,
                                  !.crit_all = IF left = {} THEN {} ELSE @]
             sub == (frame.subset \ frame.crit_all) \cup {c}
         IN  \/ frames' = WithFrame(old)
             \/ frames' = Append(WithFrame(old), NewFrame(sub, frame.crits))
  BY DEF RecForEach
<1> DEFINE left == frame.todo \ {c}
           old == [frame EXCEPT !.processed = @ \cup {c}, !.todo = left,
                                !.crit_all = IF left = {} THEN {} ELSE @]
           sub == (frame.subset \ frame.crit_all) \cup {c}
<1>3. c \in frame.subset /\ frame.todo \subseteq frame.subset
  BY <1>1 DEF FrameInv
<1>4. FrameInv(old)
  BY <1>1, <1>3 DEF FrameInv, Frame
<1>5. FrameInv(NewFrame(sub, frame.crits))
  <2>1. sub \subseteq frame.subset
    BY <1>3
  <2>2. CritsSound(frame.crits, sub)
    BY <1>1, <2>1, CriticalInSubset DEF FrameInv
  <2>3. QED
    BY <1>1, <2>1, <2>2, NewFrameInv
<1>6. frames' = WithFrame(old) \/ frames' = Append(WithFrame(old), NewFrame(sub, frame.crits))
  BY <1>2
<1> HIDE DEF old, sub
<1>7. CallStack(frames')
  BY <1>1, <1>4, <1>5, <1>6, FrameReplaced, CallPushed
<1>8. QED
  BY <1>7, QuietStep DEF RecForEach, masterVars, refineVars, Inv

LEMMA ShrinkingStep ==
    ASSUME Inv, Shrinking
    PROVE  Inv' /\ Visible
<1>1. MasterInv' /\ Visible /\ pc \in InCall /\ pc' \in InCall /\ seed' = seed
  BY ShrinkFormulaVisible DEF Shrinking, Inv
<1>2. CallStack(frames)'
  BY <1>1, FramesUnchanged DEF Shrinking, Inv, Visible, CallStack
<1>3. \/ UNCHANGED <<mus, muses>> /\ (pc' \in {"mine", "mark"} <=> pc \in {"mine", "mark"})
      \/ /\ pc \in {"collect", "shrink"} /\ pc' \in {"mine", "mark"}
         /\ \E m \in SUBSET Constraint : Push(m)
  <2>1. CASE CollectCrits
    BY <2>1, CollectPushes DEF CollectCrits, Inv, IsMus
  <2>2. CASE Shrink
    BY <2>2, ShrinkPushes DEF Shrink, Inv, IsMus
  <2>3. CASE Mine \/ MineEnd
    BY <2>3 DEF Mine, MineEnd
  <2>4. QED
    BY <2>1, <2>2, <2>3 DEF Shrinking, ShrinkFormula
<1>4. RotationInv'
  BY <1>1, <1>3, MusPushed, NothingPushed DEF Shrinking, Inv
<1>5. QED
  BY <1>1, <1>2, <1>4 DEF Shrinking, refineVars, Inv, InCall, ControlPoints

(* mark_MUS, and where the algorithm goes on.                              *)
LEMMA MarkedStep ==
    ASSUME Inv, NEW next \in {"stack", "rotate"}, MarkMus(next),
           RotationInv', UNCHANGED <<refineVars, frames>>
    PROVE  Inv' /\ Visible
<1>1. MasterInv' /\ UNCHANGED <<muses, cnfVars>> /\ pc = "mark" /\ pc' = next
  BY MarkMusStep DEF MarkMus, Inv
<1>2. CallStack(frames)'
  BY <1>1, FramesUnchanged DEF Inv, CallStack
<1>3. QED
  BY <1>1, <1>2 DEF Inv, refineVars, ControlPoints, Visible, Over

(* The steps of a rotation that leave the map alone.                       *)
LEMMA RotatingStep ==
    ASSUME Inv, pc \in {"stack", "rotate"}, pc' \in {"stack", "rotate", "loop"},
           UNCHANGED <<seed, crits, mus, muses, uni, limit, cnfVars, explorerVars, frames>>,
           foundMUS' \in Nat, foundMSS' \in Nat, RotationInv'
    PROVE  Inv' /\ Visible
<1>1. MasterInv'
  BY ControlStep DEF Inv, InCall
<1>2. CallStack(frames)'
  BY FramesUnchanged DEF Inv, CallStack
<1>3. QED
  BY <1>1, <1>2 DEF Inv, ControlPoints, Visible, Over

LEMMA RotationStep ==
    ASSUME Inv, \/ MarkAndRotate \/ MarkRotated \/ PopMus \/ SkipCritical \/ RotationFails
                \/ RotateReturns \/ RotationEnds
    PROVE  Inv' /\ Visible
<1>1. CASE MarkAndRotate
  BY <1>1, RotationBegins, MarkedStep DEF MarkAndRotate, Inv
<1>2. CASE MarkRotated
  BY <1>2, RotationGoesOn, MarkedStep DEF MarkRotated, Inv
<1>3. CASE PopMus
  BY <1>3, MusPopped, RotatingStep DEF PopMus, refineVars, Inv
<1>4. CASE SkipCritical
  BY <1>4, ConstraintTried, RotatingStep
     DEF SkipCritical, Rotating, masterVars, refineVars, Inv
<1>5. CASE RotationFails
  BY <1>5, ConstraintTried, RotatingStep
     DEF RotationFails, Rotating, masterVars, refineVars, Inv
<1>6. CASE RotateReturns
  BY <1>6, RotationReturns, RotatingStep DEF RotateReturns, refineVars, Inv
<1>7. CASE RotationEnds
  BY <1>7, RotationOver, RotatingStep DEF RotationEnds, Inv
<1>8. QED
  BY <1>1, <1>2, <1>3, <1>4, <1>5, <1>6, <1>7

LEMMA NextStep ==
    ASSUME Inv, [Next]_unimusVars
    PROVE  Inv' /\ Visible
<1>1. CASE UNCHANGED unimusVars
  <2>1. UNCHANGED <<cnfVars, explorerVars, masterVars, refineVars, rotationVars, frames>>
    BY <1>1 DEF unimusVars
  <2>2. MasterInv' /\ UNCHANGED <<pc, seed, mus, muses>>
    BY <2>1, StutterStep DEF Inv, masterVars
  <2>3. CallStack(frames)'
    BY <2>1, FramesUnchanged DEF Inv, CallStack
  <2>4. RotationInv'
    <3>1. RotationTypes' /\ CoverInv'
      BY <2>1, <2>2 DEF rotationVars, Inv, RotationInv, RotationTypes, CoverInv, Older
    <3>2. RotationControl'
      BY <2>1, <2>2 DEF rotationVars, Inv, RotationInv, RotationControl
    <3>3. QED
      BY <3>1, <3>2 DEF RotationInv
  <2>5. QED
    BY <2>1, <2>2, <2>3, <2>4 DEF Inv, refineVars, Visible, Over
<1>2. QED
  BY <1>1, StartStep, RefineExhaustedStep, RefineEndsStep, RefineUnsatisfiableStep,
     RefineSatisfiableStep, RecReturnsStep, RecUnsatisfiableStep, RecSatisfiableStep,
     RecForEachStep, ShrinkingStep, RotationSucceedsStep, RotationStep
     DEF Next, Ended

(* The invariant of covers, rotations and calls holds for every limit.     *)
THEOREM InvariantHolds ==
    ASSUME PlainInputs
    PROVE  Spec => []Inv
<1>1. Init => Inv
  BY InitInv
<1>2. Inv /\ [Next]_unimusVars => Inv'
  BY NextStep
<1>3. QED
  BY <1>1, <1>2, PTL DEF Spec

---------------------------------------------------------------------------
(* Every variable keeps its type. *)
THEOREM TypeCorrect ==
    ASSUME PlainInputs
    PROVE  Spec => []TypeOK
<1>1. Inv => localMuses \in SUBSET (1..Len(muses))
  BY DEF Inv, RotationInv, CoverInv, Older
<1>2. Inv => TypeOK
  BY <1>1 DEF Inv, MasterInv, TypeOK, ControlPoints, CallStack, RotationInv, RotationTypes
<1>3. QED
  BY <1>2, InvariantHolds, PTL

(* unimusRec_rotate_mus compares a new seed with the local MUSes only:     *)
(* the cover contains no other one, in a refinement or in a recursion.     *)
THEOREM LocalMusesSuffice ==
    ASSUME PlainInputs
    PROVE  Spec => []CoverHoldsLocalMusesOnly
<1>1. Inv => CoverHoldsLocalMusesOnly
  BY DEF Inv, RotationInv, CoverInv, Older, InRotation, CoverHoldsLocalMusesOnly
<1>2. QED
  BY <1>1, InvariantHolds, PTL

(* The criticals a call of unimusRec was given, or found, are critical for *)
(* its subset.                                                             *)
THEOREM CritsCorrect ==
    ASSUME PlainInputs
    PROVE  Spec => []InheritedCritsAreCritical
<1>1. Inv => InheritedCritsAreCritical
  BY DEF Inv, CallStack, FrameInv, CritsSound, InheritedCritsAreCritical
<1>2. QED
  BY <1>1, InvariantHolds, PTL

(* A satisfiable seed of unimusRec is an MSS of the subset, whatever       *)
(* refinements and rotations blocked in the map before.                    *)
THEOREM TopsCorrect ==
    ASSUME PlainInputs
    PROVE  Spec => []TopIsMssOfSubset
<1>1. Inv => TopIsMssOfSubset
  <2> SUFFICES ASSUME Inv, frames # <<>>, NEW top \in TopUnexplored(frame.subset), Sat(top),
                      NEW c \in frame.subset \ top, Sat(top \cup {c})
               PROVE  FALSE
    BY DEF TopIsMssOfSubset
  <2>1. frame.subset \in SUBSET Constraint
    BY InnermostCall DEF Inv
  <2>2. top \subseteq frame.subset
    BY DEF TopUnexplored, Maximal
  <2>3. top \cup {c} = top
    BY <2>1, <2>2, TopCannotGrow DEF Inv, MasterInv
  <2>4. QED
    BY <2>3
<1>2. QED
  BY <1>1, InvariantHolds, PTL

(* A seed, of a rotation too, is unexplored when it is shrunk, and its MUS *)
(* until it is marked: no MUS is found a second time.                      *)
THEOREM WorkNeverRepeated ==
    ASSUME PlainInputs
    PROVE  Spec => []WorkIsNew
<1>1. Inv => WorkIsNew
  BY DEF Inv, MasterInv, CallInv, WorkIsNew
<1>2. QED
  BY <1>1, InvariantHolds, PTL

(* UNIMUS implements the enumeration it promises, for every input, although*)
(* rotations are cut short, calls give up and constraints are skipped.     *)
THEOREM EnumerationCorrect ==
    ASSUME PlainInputs
    PROVE  Spec => EnumeratesMuses
<1>1. Init => Abstract!EnumInit
  BY InitImplements DEF Init
<1>2. Inv /\ [Next]_unimusVars => [Abstract!EnumNext]_(Abstract!enumVars)
  BY NextStep, VisibleImplements
<1>3. QED
  BY <1>1, <1>2, InvariantHolds, PTL DEF Spec, EnumeratesMuses, Abstract!EnumSpec

---------------------------------------------------------------------------
(* One rotation keeps the contract RotationSeeds, on which the proofs      *)
(* above rely.  No assumption about the inputs is needed.                  *)

(* A set of indices that is not empty has a first and a last one.          *)
LEMMA FirstIndex ==
    ASSUME NEW T \in SUBSET Nat, T # {}
    PROVE  \E x \in T : \A y \in T : x <= y
<1>1. PICK x \in T : \A y \in T : ~(<<y, x>> \in OpToRel(<, Nat))
  BY NatLessThanWellFounded, WFMin
<1>2. ASSUME NEW y \in T PROVE x <= y
  <2>1. ~(y < x)
    BY <1>1 DEF OpToRel
  <2>2. QED
    BY <2>1
<1>3. QED
  BY <1>2

LEMMA LastIndex ==
    ASSUME NEW n \in Nat, NEW T \in SUBSET (1..n), T # {}
    PROVE  \E x \in T : \A y \in T : y <= x
<1> DEFINE S == {k \in Nat : n - k \in T}
<1>1. S # {}
  <2>1. PICK t \in T : TRUE
    OBVIOUS
  <2>2. t \in 1..n
    OBVIOUS
  <2>3. n - t \in Nat /\ n - (n - t) = t
    BY <2>2
  <2>4. QED
    BY <2>3
<1>2. PICK k \in S : \A j \in S : k <= j
  <2>1. S \in SUBSET Nat
    OBVIOUS
  <2>2. QED
    BY ONLY <2>1, <1>1, FirstIndex
<1>3. ASSUME NEW y \in T PROVE y <= n - k
  <2>1. y \in 1..n /\ n - (n - y) = y /\ n - y \in Nat
    BY SMT
  <2>2. n - y \in S
    BY <2>1
  <2>3. k <= n - y
    BY <2>2, <1>2
  <2>4. QED
    BY <2>1, <2>3, <1>2
<1>4. QED
  BY <1>2, <1>3

---------------------------------------------------------------------------
(* The refinement. *)

(* One turn of its loop: entry i is looked at when `later` was dropped.    *)
Turn(list, i, later) ==
    later \cup (IF Stays(list, i, later) THEN {} ELSE {NameOf(list[i])})

(* g is what the loop computes from the last entry down to entry k.        *)
DownTo(list, g, k) ==
    g = [i \in k..Len(list) |-> IF i = Len(list) THEN {} ELSE Turn(list, i, g[i + 1])]

LEMMA DownExists ==
    ASSUME NEW list, Len(list) \in Nat \ {0}
    PROVE  \A k \in 1..Len(list) : \E g : DownTo(list, g, k)
<1> DEFINE n == Len(list)
           T == {k \in 1..n : ~ \E g : DownTo(list, g, k)}
<1>1. SUFFICES ASSUME T # {} PROVE FALSE
  OBVIOUS
<1>2. PICK k \in T : \A y \in T : y <= k
  <2>1. n \in Nat /\ T \in SUBSET (1..n)
    OBVIOUS
  <2>2. QED
    BY ONLY <2>1, <1>1, LastIndex
<1>3. CASE k = n
  <2> DEFINE g == [i \in n..n |-> {}]
  <2>1. g = [i \in k..n |-> IF i = n THEN {} ELSE Turn(list, i, g[i + 1])]
    BY <1>3
  <2>2. QED
    BY <2>1, <1>2 DEF DownTo
<1>4. CASE k # n
  <2>1. k + 1 \in 1..n /\ k + 1 \notin T
    BY <1>2, <1>4
  <2>2. PICK g : DownTo(list, g, k + 1)
    BY <2>1
  <2> DEFINE f == [i \in k..n |-> IF i = k THEN Turn(list, k, g[k + 1]) ELSE g[i]]
  <2>3. ASSUME NEW i \in k..n
        PROVE  f[i] = IF i = n THEN {} ELSE Turn(list, i, f[i + 1])
    <3>1. CASE i = k
      <4>1. f[k] = Turn(list, k, g[k + 1]) /\ f[k + 1] = g[k + 1]
        BY <1>2, <1>4
      <4>2. QED
        BY <4>1, <3>1, <1>4
    <3>2. CASE i # k
      <4>1. i \in k + 1 .. n
        BY <3>2, <1>2
      <4>2. g[i] = IF i = n THEN {} ELSE Turn(list, i, g[i + 1])
        BY <4>1, <2>2 DEF DownTo
      <4>3. f[i] = g[i]
        BY <3>2
      <4>4. i # n => f[i + 1] = g[i + 1]
        BY <4>1
      <4>5. QED
        BY <4>2, <4>3, <4>4
    <3>3. QED
      BY <3>1, <3>2
  <2>4. f = [i \in k..n |-> IF i = n THEN {} ELSE Turn(list, i, f[i + 1])]
    BY <2>3
  <2>5. DownTo(list, f, k)
    BY <2>4 DEF DownTo
  <2>6. QED
    BY <2>5, <1>2
<1>5. QED
  BY <1>3, <1>4

LEMMA DroppedFromTurns ==
    ASSUME NEW list, Len(list) \in Nat \ {0}
    PROVE  DownTo(list, DroppedFrom(list), 1)
<1> DEFINE n == Len(list)
<1>1. \E g : DownTo(list, g, 1)
  BY DownExists
<1>2. \E g : g = [i \in 1..n |-> IF i = n THEN {} ELSE g[i + 1] \cup
                    (IF Stays(list, i, g[i + 1]) THEN {} ELSE {NameOf(list[i])})]
  BY <1>1 DEF DownTo, Turn
<1>3. QED
  BY <1>2 DEF DroppedFrom, DownTo, Turn

LEMMA DownGrows ==
    ASSUME NEW list, Len(list) \in Nat \ {0}, NEW g, DownTo(list, g, 1)
    PROVE  /\ g[Len(list)] = {}
           /\ \A i \in 1..Len(list) - 1 : g[i] = Turn(list, i, g[i + 1])
           /\ \A i \in 1..Len(list) : g[i] \subseteq g[1]
<1> DEFINE n == Len(list)
           T == {i \in 1..n : ~(g[i] \subseteq g[1])}
<1>1. \A i \in 1..n : g[i] = IF i = n THEN {} ELSE Turn(list, i, g[i + 1])
  BY DEF DownTo
<1>2. ASSUME T # {} PROVE FALSE
  <2>1. PICK i \in T : \A j \in T : i <= j
    <3>1. T \in SUBSET Nat
      OBVIOUS
    <3>2. QED
      BY ONLY <3>1, <1>2, FirstIndex
  <2>2. i # 1 /\ i \in 1..n
    BY <2>1
  <2>3. i - 1 \in 1..n /\ i - 1 # n /\ (i - 1) + 1 = i
    BY <2>2
  <2>4. g[i] \subseteq g[i - 1]
    BY <2>3, <1>1 DEF Turn
  <2>5. g[i - 1] \subseteq g[1]
    BY <2>1, <2>2, <2>3
  <2>6. QED
    BY <2>1, <2>4, <2>5
<1>3. \A i \in 1..n : g[i] \subseteq g[1]
  BY <1>2
<1>4. n \in 1..n /\ \A i \in 1..n - 1 : i \in 1..n /\ i # n
  OBVIOUS
<1>5. g[n] = {} /\ \A i \in 1..n - 1 : g[i] = Turn(list, i, g[i + 1])
  BY ONLY <1>1, <1>4
<1>6. QED
  BY ONLY <1>3, <1>5

(* What is dropped was dropped at some entry, which had no reason to stay. *)
LEMMA DroppedAtSomeEntry ==
    ASSUME NEW list, Len(list) \in Nat \ {0}, NEW x \in Dropped(list)
    PROVE  \E k \in 1..Len(list) - 1 :
              /\ x = NameOf(list[k])
              /\ ~Stays(list, k, DroppedFrom(list)[k + 1])
              /\ DroppedFrom(list)[k + 1] \subseteq Dropped(list)
<1> DEFINE n == Len(list)
           g == DroppedFrom(list)
           T == {i \in 1..n : x \in g[i]}
<1>1. /\ g[n] = {}
      /\ \A i \in 1..n - 1 : g[i] = Turn(list, i, g[i + 1])
      /\ \A i \in 1..n : g[i] \subseteq g[1]
  <2>1. DownTo(list, g, 1)
    BY DroppedFromTurns
  <2>2. \A h : DownTo(list, h, 1) => /\ h[n] = {}
                                     /\ \A i \in 1..n - 1 : h[i] = Turn(list, i, h[i + 1])
                                     /\ \A i \in 1..n : h[i] \subseteq h[1]
    BY DownGrows
  <2>3. QED
    BY <2>1, <2>2
<1>2. PICK k \in T : \A i \in T : i <= k
  <2>1. n \in Nat /\ T \in SUBSET (1..n) /\ 1 \in T
    BY DEF Dropped
  <2>2. QED
    BY ONLY <2>1, LastIndex
<1>3. k \in 1..n - 1 /\ k + 1 \in 1..n /\ k + 1 \notin T
  <2>1. k # n
    BY <1>1, <1>2
  <2>2. k \in 1..n /\ n \in Nat /\ ~(k + 1 <= k)
    BY <1>2
  <2>3. k \in 1..n - 1 /\ k + 1 \in 1..n
    BY ONLY <2>1, <2>2
  <2>4. QED
    BY <2>2, <2>3, <1>2
<1>4. x \in Turn(list, k, g[k + 1]) /\ x \notin g[k + 1]
  BY <1>1, <1>2, <1>3
<1>5. x = NameOf(list[k]) /\ ~Stays(list, k, g[k + 1])
  BY <1>4 DEF Turn
<1>6. g[k + 1] \subseteq Dropped(list)
  BY <1>1, <1>3 DEF Dropped
<1>7. QED
  BY <1>3, <1>5, <1>6

---------------------------------------------------------------------------
(* Why a refined seed is unsatisfiable. *)

InSeed(entry, f) ==
    \/ entry[1] = "soft" /\ entry[2] \in f
    \/ entry[1] = "hard" /\ entry[2] \in hard_clauses

(* Each literal of lits is false by some entry before entry i.             *)
FalseBefore(list, i, lits) == \A x \in lits : \E j \in 1..i - 1 : list[j][3] = -x

(* An entry is an assumption (a literal of c1 is false), or its clause is  *)
(* used and was unit when it implied the literal.                          *)
Assumed(entry) == NameOf(entry) = <<"soft", c1>> /\ -entry[3] \in clauses[c1]

Forced(list, i, f) ==
    /\ InSeed(list[i], f)
    /\ list[i][3] \in ClauseOf(list[i])
    /\ FalseBefore(list, i, ClauseOf(list[i]) \ {list[i][3]})

(* The reasons of the first n entries; a clause implies one literal only.  *)
Reasons(list, n, f) ==
    /\ \A i \in 1..n : list[i][3] \in Lit /\ (Assumed(list[i]) \/ Forced(list, i, f))
    /\ \A i, j \in 1..n : NameOf(list[i]) = NameOf(list[j]) =>
          i = j \/ NameOf(list[i]) = <<"soft", c1>>

LEMMA NegatedLiteral ==
    ASSUME NEW a, NEW l \in Lit
    PROVE  l # 0 /\ l \in Int /\ -l \in Lit /\ -(-l) = l /\ (LitTrue(a, -l) <=> ~LitTrue(a, l))
BY SizesAssumption DEF Lit, Var, LitTrue

(* An entry that a later kept clause needs is an assumption or kept.       *)
LEMMA NeededIsKept ==
    ASSUME NEW list, NEW n \in Nat, Len(list) = n + 1, NEW f, c1 \notin f,
           Reasons(list, n, f), NEW j \in 1..n, NEW i \in j + 1 .. n + 1,
           NameOf(list[i]) \notin Dropped(list), -list[j][3] \in ClauseOf(list[i])
    PROVE  Assumed(list[j]) \/ NameOf(list[j]) \notin Dropped(list)
<1>1. SUFFICES ASSUME NameOf(list[j]) \in Dropped(list), ~Assumed(list[j]) PROVE FALSE
  OBVIOUS
<1>2. PICK k \in 1..n : /\ NameOf(list[j]) = NameOf(list[k])
                        /\ ~Stays(list, k, DroppedFrom(list)[k + 1])
                        /\ DroppedFrom(list)[k + 1] \subseteq Dropped(list)
  <2>1. Len(list) \in Nat \ {0} /\ Len(list) - 1 = n
    OBVIOUS
  <2>2. QED
    BY <2>1, <1>1, DroppedAtSomeEntry
<1>3. Needed(list, j, DroppedFrom(list)[k + 1])
  <2>1. i \in j + 1 .. Len(list)
    OBVIOUS
  <2>2. QED
    BY <2>1, <1>2 DEF Needed
<1>4. j = k \/ NameOf(list[j]) = <<"soft", c1>>
  BY <1>2 DEF Reasons
<1>5. j # k
  BY <1>2, <1>3 DEF Stays
<1>6. Forced(list, j, f)
  BY <1>1 DEF Reasons
<1>7. NameOf(list[j]) # <<"soft", c1>>
  BY <1>6 DEF Forced, InSeed, NameOf
<1>8. QED
  BY <1>4, <1>5, <1>7

(* The refinement takes out neither the rest of m1 nor the last clause.    *)
LEMMA NeverDropped ==
    ASSUME NEW list, Len(list) \in Nat \ {0}
    PROVE  /\ NameOf(list[Len(list)]) \notin Dropped(list)
           /\ \A d \in base : <<"soft", d>> \notin Dropped(list)
<1>1. ASSUME NameOf(list[Len(list)]) \in Dropped(list) PROVE FALSE
  BY <1>1, DroppedAtSomeEntry DEF Stays
<1>2. ASSUME NEW d \in base, <<"soft", d>> \in Dropped(list) PROVE FALSE
  <2>1. PICK k \in 1..Len(list) - 1 : /\ <<"soft", d>> = NameOf(list[k])
                                      /\ ~Stays(list, k, DroppedFrom(list)[k + 1])
    BY <1>2, DroppedAtSomeEntry
  <2>2. list[k][1] = "soft" /\ list[k][2] = d
    BY <2>1 DEF NameOf
  <2>3. QED
    BY <2>1, <2>2 DEF Stays
<1>3. QED
  BY <1>1, <1>2

(* What a model of a refined seed would make true: the literals of all     *)
(* entries that are assumptions or were kept.                              *)
LEMMA KeptLiteralsTrue ==
    ASSUME CnfTypeOK, NEW list, NEW n \in Nat, Len(list) = n + 1,
           NEW f \in SUBSET Constraint, c1 \in Constraint, c1 \notin f,
           Reasons(list, n, f), NEW a \in Models(Refined(f, list)),
           ~Satisfies(a, clauses[c1])
    PROVE  \A i \in 1..n : Assumed(list[i]) \/ NameOf(list[i]) \notin Dropped(list)
                              => LitTrue(a, list[i][3])
<1> DEFINE Kept(i) == Assumed(list[i]) \/ NameOf(list[i]) \notin Dropped(list)
           T == {i \in 1..n : Kept(i) /\ ~LitTrue(a, list[i][3])}
<1>1. SUFFICES ASSUME T # {} PROVE FALSE
  OBVIOUS
<1>2. PICK i \in T : \A j \in T : i <= j
  <2>1. T \in SUBSET Nat
    OBVIOUS
  <2>2. QED
    BY ONLY <2>1, <1>1, FirstIndex
<1>3. i \in 1..n /\ list[i][3] \in Lit /\ ~LitTrue(a, list[i][3])
  BY <1>2 DEF Reasons
<1>4. ~Assumed(list[i])
  <2>1. SUFFICES ASSUME Assumed(list[i]) PROVE FALSE
    OBVIOUS
  <2>2. -list[i][3] \in clauses[c1] /\ LitTrue(a, -list[i][3])
    BY <2>1, <1>3, NegatedLiteral DEF Assumed
  <2>3. QED
    BY <2>2 DEF Satisfies
<1>5. NameOf(list[i]) \notin Dropped(list) /\ Forced(list, i, f)
  BY <1>2, <1>4 DEF Reasons
<1> DEFINE C == ClauseOf(list[i])
<1>6. Satisfies(a, C) /\ C \subseteq Lit
  <2>1. CASE list[i][1] = "soft"
    <3>1. list[i][2] \in Refined(f, list) /\ C = clauses[list[i][2]] /\ list[i][2] \in Constraint
      BY <2>1, <1>5 DEF Forced, InSeed, Refined, NameOf, ClauseOf
    <3>2. QED
      BY <3>1 DEF Models, CnfTypeOK
  <2>2. CASE list[i][1] # "soft"
    <3>1. list[i][2] \in hard_clauses /\ C = list[i][2]
      BY <2>2, <1>5 DEF Forced, InSeed, ClauseOf
    <3>2. QED
      BY <3>1 DEF Models, CnfTypeOK
  <2>3. QED
    BY <2>1, <2>2
<1>7. PICK x \in C : LitTrue(a, x)
  BY <1>6 DEF Satisfies
<1>8. x # list[i][3] /\ x \in Lit
  BY <1>7, <1>3, <1>6
<1>9. PICK j \in 1..i - 1 : list[j][3] = -x
  BY <1>5, <1>8 DEF Forced, FalseBefore
<1>10. j \in 1..n /\ i \in j + 1 .. n + 1 /\ ~(i <= j)
  BY <1>3, <1>9
<1>11. -list[j][3] \in ClauseOf(list[i])
  BY <1>9, <1>8, NegatedLiteral
<1>12. Kept(j)
  BY <1>10, <1>11, <1>5, NeededIsKept
<1>13. ~LitTrue(a, list[j][3])
  BY <1>9, <1>8, <1>7, NegatedLiteral
<1>14. j \in T
  BY <1>10, <1>12, <1>13
<1>15. QED
  BY <1>14, <1>10, <1>2

(* Once a clause of the seed (or a hard one) is false, the refined seed is *)
(* unsatisfiable.                                                          *)
LEMMA RefinedUnsat ==
    ASSUME CnfTypeOK, IsMus(m1), c1 \in m1, NEW list, NEW n \in Nat, Len(list) = n + 1,
           NEW f \in SUBSET Constraint, c1 \notin f, base \subseteq f, Reasons(list, n, f),
           InSeed(list[n + 1], f), FalseBefore(list, n + 1, ClauseOf(list[n + 1]))
    PROVE  base \subseteq Refined(f, list) /\ ~Sat(Refined(f, list))
<1> DEFINE C == ClauseOf(list[n + 1])
<1>1. /\ NameOf(list[n + 1]) \notin Dropped(list)
      /\ \A d \in base : <<"soft", d>> \notin Dropped(list)
  <2>1. Len(list) \in Nat \ {0}
    OBVIOUS
  <2>2. QED
    BY <2>1, NeverDropped
<1>2. base \subseteq Refined(f, list)
  BY <1>1 DEF Refined
<1>3. ASSUME NEW a \in Models(Refined(f, list)) PROVE FALSE
  <2>1. ~Satisfies(a, clauses[c1])
    <3>1. SUFFICES ASSUME Satisfies(a, clauses[c1]) PROVE FALSE
      OBVIOUS
    <3>2. a \in Models(m1)
      BY <3>1, <1>2, <1>3 DEF Models, base
    <3>3. QED
      BY <3>2 DEF IsMus, Sat
  <2>2. c1 \in Constraint
    BY DEF IsMus
  <2>3. Satisfies(a, C) /\ C \subseteq Lit
    <3>1. CASE list[n + 1][1] = "soft"
      <4>1. /\ list[n + 1][2] \in Refined(f, list) /\ list[n + 1][2] \in Constraint
            /\ C = clauses[list[n + 1][2]]
        BY <3>1, <1>1 DEF InSeed, Refined, NameOf, ClauseOf
      <4>2. QED
        BY <4>1, <1>3 DEF Models, CnfTypeOK
    <3>2. CASE list[n + 1][1] # "soft"
      <4>1. list[n + 1][2] \in hard_clauses /\ C = list[n + 1][2]
        BY <3>2 DEF InSeed, ClauseOf
      <4>2. QED
        BY <4>1, <1>3 DEF Models, CnfTypeOK
    <3>3. QED
      BY <3>1, <3>2
  <2>4. PICK x \in C : x \in Lit /\ LitTrue(a, x)
    BY <2>3 DEF Satisfies
  <2>5. PICK j \in 1..n : list[j][3] = -x
    BY <2>4 DEF FalseBefore
  <2>6. -list[j][3] \in ClauseOf(list[n + 1]) /\ n + 1 \in j + 1 .. n + 1
    BY <2>4, <2>5, NegatedLiteral
  <2>7. Assumed(list[j]) \/ NameOf(list[j]) \notin Dropped(list)
    BY <2>6, <1>1, NeededIsKept
  <2>8. LitTrue(a, list[j][3])
    BY <2>1, <2>2, <2>7, <1>3, KeptLiteralsTrue
  <2>9. QED
    BY <2>8, <2>4, <2>5, NegatedLiteral
<1>4. QED
  BY <1>2, <1>3 DEF Sat

---------------------------------------------------------------------------
(* The invariant of the propagation. *)

Entry == ({"soft"} \X Constraint \X Lit) \cup ({"hard"} \X hard_clauses \X Lit)

UnsetIn(clause, up) == {l \in clause : VarOf(l) \notin up}

FalseIn(list, lits) == \A x \in lits : \E j \in 1..Len(list) : list[j][3] = -x

(* The variables of `left` literals of a clause have no value, every other *)
(* literal is false by some entry.                                         *)
Counted(clause, left, up, list) ==
    /\ Cardinality(UnsetIn(clause, up)) = left
    /\ FalseIn(list, {l \in clause : VarOf(l) \in up})

GivenInv ==
    /\ CnfTypeOK
    /\ IsMus(m1) /\ c1 \in m1 /\ m1 \subseteq within /\ within \subseteq Constraint

ConflictInv ==
    /\ base \subseteq conflict /\ conflict \subseteq within \ {c1}
    /\ \A n \in known : ~(n \subseteq conflict)

ImpliedInv ==
    /\ implied \in Seq(Entry)
    /\ Reasons(implied, Len(implied), conflict)
    /\ toPropagate \in Seq(Lit)
    /\ \A k \in 1..Len(toPropagate) :
          \E i \in 1..Len(implied) : implied[i][3] = toPropagate[k]

(* A clause that waits for its visit is counted down by that visit.        *)
SoftCounts ==
    /\ lits_left \in [Constraint -> Int]
    /\ visit \subseteq (within \ {c1}) \ satisfied
    /\ \A d \in (within \ {c1}) \ satisfied :
          Counted(clauses[d], lits_left[d] - (IF d \in visit THEN 1 ELSE 0), setup, implied)

HardCounts ==
    /\ hard_lits_left \in [hard_clauses -> Int]
    /\ hard_visit \subseteq hard_clauses \ hard_satisfied
    /\ \A h \in hard_clauses \ hard_satisfied :
          Counted(h, hard_lits_left[h] - (IF h \in hard_visit THEN 1 ELSE 0), setup, implied)

(* A clause that implied a literal is not counted down to one again, so it *)
(* will not imply another one.                                             *)
UsedUp ==
    \A i \in 1..Len(implied) :
        /\ implied[i][1] = "soft" /\ implied[i][2] # c1 => lits_left[implied[i][2]] <= 1
        /\ implied[i][1] = "hard" => hard_lits_left[implied[i][2]] <= 1

PropagationInv == ConflictInv /\ ImpliedInv /\ SoftCounts /\ HardCounts /\ UsedUp

SeedInv == GivenInv /\ (phase = "propagate" => PropagationInv) /\ SeedAsPromised

Extended(list, more) ==
    /\ Len(list) \in Nat /\ Len(more) \in Nat /\ Len(list) <= Len(more)
    /\ \A j \in 1..Len(list) : more[j] = list[j]

LEMMA ClausesFinite ==
    /\ IsFiniteSet(Lit)
    /\ \A C \in SUBSET Lit : IsFiniteSet(C) /\ Cardinality(C) \in Nat
<1>1. IsFiniteSet(-vars..vars)
  BY FS_Interval, SizesAssumption
<1>2. Lit \subseteq -vars..vars
  BY SizesAssumption DEF Lit, Var
<1>3. IsFiniteSet(Lit)
  BY <1>1, <1>2, FS_Subset
<1>4. ASSUME NEW C \in SUBSET Lit PROVE IsFiniteSet(C) /\ Cardinality(C) \in Nat
  BY <1>3, FS_Subset, FS_CardinalityType
<1>5. QED
  BY <1>3, <1>4

LEMMA FalseInLonger ==
    ASSUME NEW list, NEW more, Extended(list, more), NEW lits, FalseIn(list, lits)
    PROVE  FalseIn(more, lits)
BY DEF FalseIn, Extended

LEMMA CountedLonger ==
    ASSUME NEW list, NEW more, Extended(list, more), NEW C, NEW k, NEW up,
           Counted(C, k, up, list)
    PROVE  Counted(C, k, up, more)
BY FalseInLonger DEF Counted

LEMMA AppendExtends ==
    ASSUME NEW list \in Seq(Entry), NEW e \in Entry
    PROVE  /\ Append(list, e) \in Seq(Entry)
           /\ Len(Append(list, e)) = Len(list) + 1
           /\ Append(list, e)[Len(list) + 1] = e
           /\ \A j \in 1..Len(list) : Append(list, e)[j] = list[j]
           /\ Extended(list, Append(list, e))
           /\ Len(list) \in Nat
BY DEF Extended

(* A clause with no literal to go is false, one with one to go is unit.    *)
LEMMA CountedToFalse ==
    ASSUME NEW C \in SUBSET Lit, NEW up, NEW list, Counted(C, 0, up, list)
    PROVE  FalseIn(list, C)
<1>1. Cardinality(UnsetIn(C, up)) = 0
  BY DEF Counted
<1>2. UnsetIn(C, up) \in SUBSET Lit
  BY DEF UnsetIn
<1>3. UnsetIn(C, up) = {}
  BY <1>1, <1>2, ClausesFinite, FS_EmptySet
<1>4. C = {l \in C : VarOf(l) \in up}
  BY <1>3 DEF UnsetIn
<1>5. QED
  BY <1>4 DEF Counted

LEMMA CountedToUnit ==
    ASSUME NEW C \in SUBSET Lit, NEW up, NEW list, Counted(C, 1, up, list),
           NEW l \in UnsetIn(C, up)
    PROVE  FalseIn(list, C \ {l})
<1>1. Cardinality(UnsetIn(C, up)) = 1
  BY DEF Counted
<1>2. UnsetIn(C, up) \in SUBSET Lit
  BY DEF UnsetIn
<1>3. UnsetIn(C, up) = {l}
  <2>1. PICK x : UnsetIn(C, up) = {x}
    BY <1>1, <1>2, ClausesFinite, FS_Singleton
  <2>2. QED
    BY <2>1
<1>4. C \ {l} \subseteq {x \in C : VarOf(x) \in up}
  BY <1>3 DEF UnsetIn
<1>5. QED
  BY <1>4 DEF Counted, FalseIn

(* Setting up a literal that a clause does not contain.                    *)
LEMMA CountedSetUp ==
    ASSUME NEW C \in SUBSET Lit, NEW k \in Int, NEW up, NEW list, Counted(C, k, up, list),
           NEW l \in Lit, VarOf(l) \notin up, l \notin C,
           \E j \in 1..Len(list) : list[j][3] = l
    PROVE  Counted(C, k - (IF -l \in C THEN 1 ELSE 0), up \cup {VarOf(l)}, list)
<1>1. \A x \in C : VarOf(x) = VarOf(l) <=> x = -l
  BY SizesAssumption DEF VarOf, Lit, Var
<1>2. UnsetIn(C, up \cup {VarOf(l)}) = UnsetIn(C, up) \ {-l}
  BY <1>1 DEF UnsetIn
<1>3. -l \in C <=> -l \in UnsetIn(C, up)
  BY <1>1 DEF UnsetIn
<1>4. IsFiniteSet(UnsetIn(C, up)) /\ Cardinality(UnsetIn(C, up)) = k
  <2>1. UnsetIn(C, up) \in SUBSET Lit
    BY DEF UnsetIn
  <2>2. QED
    BY <2>1, ClausesFinite DEF Counted
<1>5. Cardinality(UnsetIn(C, up) \ {-l}) = k - (IF -l \in C THEN 1 ELSE 0)
  <2>1. Cardinality(UnsetIn(C, up) \ {-l}) =
           IF -l \in UnsetIn(C, up) THEN Cardinality(UnsetIn(C, up)) - 1
                                    ELSE Cardinality(UnsetIn(C, up))
    BY ONLY <1>4, FS_RemoveElement
  <2>2. QED
    BY ONLY <2>1, <1>3, <1>4, k \in Int
<1>6. -(-l) = l
  BY NegatedLiteral
<1>7. FalseIn(list, {x \in C : VarOf(x) \in up \cup {VarOf(l)}})
  BY <1>1, <1>6 DEF Counted, FalseIn
<1>8. QED
  BY <1>2, <1>5, <1>7 DEF Counted

(* A new entry whose clause implied nothing before.                        *)
LEMMA ReasonsAppend ==
    ASSUME NEW list \in Seq(Entry), NEW f, NEW g, f \subseteq g,
           Reasons(list, Len(list), f), NEW e \in Entry, InSeed(e, g), e[3] \in ClauseOf(e),
           FalseIn(list, ClauseOf(e) \ {e[3]}),
           \A i \in 1..Len(list) : NameOf(list[i]) = NameOf(e) => NameOf(e) = <<"soft", c1>>
    PROVE  Reasons(Append(list, e), Len(list) + 1, g)
<1> DEFINE n == Len(list)
           more == Append(list, e)
<1>1. /\ n \in Nat /\ more[n + 1] = e
      /\ \A j \in 1..n : more[j] = list[j]
  BY AppendExtends
<1> HIDE DEF more, n
<1>2. e[3] \in Lit
  BY DEF Entry
<1>3. ASSUME NEW i \in 1..n + 1
      PROVE  more[i][3] \in Lit /\ (Assumed(more[i]) \/ Forced(more, i, g))
  <2>1. CASE i = n + 1
    <3>1. \A x \in ClauseOf(e) \ {e[3]} : \E j \in 1..n : list[j][3] = -x
      BY DEF FalseIn, n
    <3>2. i - 1 = n
      BY <1>1, <2>1
    <3>3. FalseBefore(more, i, ClauseOf(e) \ {e[3]})
      BY <3>1, <3>2, <1>1 DEF FalseBefore
    <3>4. QED
      BY <3>3, <1>1, <1>2, <2>1 DEF Forced
  <2>2. CASE i # n + 1
    <3>1. i \in 1..n /\ 1..i - 1 \subseteq 1..n /\ more[i] = list[i]
      BY <1>1, <2>2
    <3>2. list[i][3] \in Lit /\ (Assumed(list[i]) \/ Forced(list, i, f))
      BY <3>1 DEF Reasons, n
    <3>3. ASSUME Forced(list, i, f) PROVE Forced(more, i, g)
      <4>1. InSeed(more[i], g)
        BY <3>1, <3>3 DEF Forced, InSeed
      <4>2. FalseBefore(more, i, ClauseOf(list[i]) \ {list[i][3]})
        BY <3>1, <3>3, <1>1 DEF Forced, FalseBefore
      <4>3. QED
        BY <3>1, <3>3, <4>1, <4>2 DEF Forced
    <3>4. QED
      BY <3>1, <3>2, <3>3
  <2>3. QED
    BY <2>1, <2>2
<1>4. ASSUME NEW i \in 1..n + 1, NEW j \in 1..n + 1, NameOf(more[i]) = NameOf(more[j])
      PROVE  i = j \/ NameOf(more[i]) = <<"soft", c1>>
  <2>1. \A k \in 1..n + 1 : k = n + 1 \/ k \in 1..n
    BY <1>1
  <2>2. \A k, m \in 1..n : NameOf(list[k]) = NameOf(list[m]) =>
            k = m \/ NameOf(list[k]) = <<"soft", c1>>
    BY DEF Reasons, n
  <2>3. \A k \in 1..n : NameOf(list[k]) = NameOf(e) => NameOf(e) = <<"soft", c1>>
    BY DEF n
  <2>4. QED
    BY <2>1, <2>2, <2>3, <1>1, <1>4
<1>5. QED
  BY <1>3, <1>4 DEF Reasons, more, n

LEMMA ReasonsLarger ==
    ASSUME NEW list, NEW n, NEW f, NEW g, f \subseteq g, Reasons(list, n, f)
    PROVE  Reasons(list, n, g)
BY DEF Reasons, Forced, InSeed

---------------------------------------------------------------------------
LEMMA InitRotationInv == RotationInit => SeedInv
<1> SUFFICES ASSUME RotationInit PROVE SeedInv
  OBVIOUS
<1>1. CnfTypeOK
  <2>1. PICK in \in Inputs : clauses = in.clauses /\ hard_clauses = in.hard_clauses
    BY DEF RotationInit, Parse
  <2>2. in \in Input
    BY InputsAssumption
  <2>3. QED
    BY <2>1, <2>2 DEF Input, CnfTypeOK
<1>2. GivenInv
  BY <1>1 DEF RotationInit, GivenInv, MusesIn
<1>3. c1 \in Constraint /\ clauses[c1] \in SUBSET Lit
  BY <1>1, <1>2 DEF GivenInv, CnfTypeOK, IsMus
<1>4. ConflictInv
  <2>1. Sat(base)
    BY DEF RotationInit, MusesIn, IsMus, base
  <2>2. ASSUME NEW n \in known, n \subseteq conflict PROVE FALSE
    <3>1. ~Sat(n)
      BY DEF RotationInit, MusesIn, IsMus
    <3>2. n \in SUBSET base
      BY <2>2 DEF RotationInit
    <3>3. QED
      BY ONLY <2>1, <3>1, <3>2, SatMonotone
  <2>3. QED
    BY <2>2, <1>2 DEF RotationInit, ConflictInv, base, GivenInv
<1> DEFINE n == Cardinality(clauses[c1])
<1>5. n \in Nat
  BY <1>3, ClausesFinite
<1>6. toPropagate \in [1..n -> {-l : l \in clauses[c1]}]
  BY DEF RotationInit, NegatedInOrder
<1>7. ASSUME NEW k \in 1..n PROVE toPropagate[k] \in Lit /\ -toPropagate[k] \in clauses[c1]
  <2>1. PICK l \in clauses[c1] : toPropagate[k] = -l
    BY <1>6
  <2>2. QED
    BY <2>1, <1>3, NegatedLiteral
<1>8. toPropagate \in Seq(Lit) /\ Len(toPropagate) = n
  BY <1>5, <1>6, <1>7
<1>9. implied = [i \in 1..n |-> <<"soft", c1, toPropagate[i]>>]
  BY <1>8 DEF RotationInit
<1>10. implied \in Seq(Entry) /\ Len(implied) = n
  <2>1. \A i \in 1..n : implied[i] \in Entry
    BY <1>3, <1>7, <1>9 DEF Entry
  <2>2. QED
    BY <2>1, <1>5, <1>9
<1>11. ImpliedInv
  <2>1. Reasons(implied, n, conflict)
    BY <1>7, <1>9 DEF Reasons, Assumed, NameOf
  <2>2. \A k \in 1..n : implied[k][3] = toPropagate[k]
    BY <1>9
  <2>3. QED
    BY <2>1, <2>2, <1>8, <1>10 DEF ImpliedInv
<1>12. ASSUME NEW C \in SUBSET Lit PROVE Counted(C, Cardinality(C), setup, implied)
  <2>1. UnsetIn(C, setup) = C
    BY DEF RotationInit, UnsetIn
  <2>2. {l \in C : VarOf(l) \in setup} = {}
    BY DEF RotationInit
  <2>3. QED
    BY <2>1, <2>2, ClausesFinite DEF Counted, FalseIn
<1>13. SoftCounts
  <2>1. \A d \in Constraint : clauses[d] \in SUBSET Lit /\ Cardinality(clauses[d]) \in Int
    BY <1>1, ClausesFinite DEF CnfTypeOK
  <2>2. lits_left = [d \in Constraint |-> Cardinality(clauses[d])] /\ visit = {}
    BY DEF RotationInit
  <2>3. within \subseteq Constraint
    BY <1>2 DEF GivenInv
  <2>4. QED
    BY <2>1, <2>2, <2>3, <1>12 DEF SoftCounts
<1>14. HardCounts
  <2>1. \A h \in hard_clauses : h \in SUBSET Lit /\ Cardinality(h) \in Int
    BY <1>1, ClausesFinite DEF CnfTypeOK
  <2>2. hard_lits_left = [h \in hard_clauses |-> Cardinality(h)] /\ hard_visit = {}
    BY DEF RotationInit
  <2>3. QED
    BY <2>1, <2>2, <1>12 DEF HardCounts
<1>15. UsedUp
  BY <1>9, <1>10 DEF UsedUp
<1>16. SeedAsPromised
  BY DEF RotationInit, SeedAsPromised
<1>17. QED
  BY <1>2, <1>4, <1>11, <1>13, <1>14, <1>15, <1>16 DEF SeedInv, PropagationInv

---------------------------------------------------------------------------
(* The steps. *)

LEMMA GivenKept ==
    ASSUME GivenInv, UNCHANGED givenVars
    PROVE  GivenInv' /\ base' = base
BY DEF GivenInv, givenVars, CnfTypeOK, IsMus, Sat, Models, Satisfies, base

LEMMA ConflictKept ==
    ASSUME ConflictInv, UNCHANGED <<givenVars, conflict>>
    PROVE  ConflictInv'
BY DEF ConflictInv, givenVars, base

LEMMA PopStep ==
    ASSUME SeedInv, Pop
    PROVE  SeedInv'
<1> DEFINE l == Head(toPropagate)
<1>1. phase = "propagate" /\ GivenInv /\ PropagationInv
  BY DEF SeedInv, Pop
<1>2. /\ UNCHANGED <<givenVars, phase, conflict, implied, lits_left, hard_lits_left>>
      /\ toPropagate' = Tail(toPropagate) /\ toPropagate # <<>>
      /\ visit = {} /\ hard_visit = {}
  BY DEF Pop, Visiting
<1>3. GivenInv'
  BY <1>1, <1>2, GivenKept
<1>4. ConflictInv'
  BY <1>1, <1>2, ConflictKept DEF PropagationInv
<1>5. l \in Lit /\ \E j \in 1..Len(implied) : implied[j][3] = l
  <2>1. toPropagate \in Seq(Lit)
    BY <1>1 DEF PropagationInv, ImpliedInv
  <2>2. 1 \in 1..Len(toPropagate) /\ l = toPropagate[1] /\ l \in Lit
    BY <2>1, <1>2
  <2>3. QED
    BY <2>2, <1>1 DEF PropagationInv, ImpliedInv
<1>6. ImpliedInv'
  <2>1. toPropagate \in Seq(Lit)
    BY <1>1 DEF PropagationInv, ImpliedInv
  <2>2. /\ toPropagate' \in Seq(Lit)
        /\ \A k \in 1..Len(toPropagate') : k + 1 \in 1..Len(toPropagate)
                                           /\ toPropagate'[k] = toPropagate[k + 1]
    BY <2>1, <1>2
  <2>3. Entry' = Entry /\ clauses' = clauses /\ c1' = c1 /\ hard_clauses' = hard_clauses
    BY <1>2 DEF Entry, givenVars
  <2>4. \A k \in 1..Len(toPropagate') : \E i \in 1..Len(implied) : implied[i][3] = toPropagate'[k]
    BY <2>2, <1>1 DEF PropagationInv, ImpliedInv
  <2>5. Reasons(implied, Len(implied), conflict)'
    BY <2>3, <1>1, <1>2 DEF PropagationInv, ImpliedInv, Reasons, Assumed, Forced, InSeed,
                            ClauseOf, FalseBefore
  <2>6. QED
    BY <2>2, <2>3, <2>4, <2>5, <1>1, <1>2 DEF PropagationInv, ImpliedInv
<1>7. UsedUp'
  BY <1>1, <1>2 DEF PropagationInv, UsedUp, givenVars
<1>8. SeedAsPromised'
  BY <1>1, <1>2 DEF SeedAsPromised
<1>9. CASE VarOf(l) \in setup
  <2>1. UNCHANGED <<setup, satisfied, hard_satisfied, visit, hard_visit>>
    BY <1>9 DEF Pop, NothingSetUp
  <2>2. SoftCounts' /\ HardCounts'
    BY <2>1, <1>1, <1>2 DEF PropagationInv, SoftCounts, HardCounts, givenVars
  <2>3. QED
    BY <2>2, <1>3, <1>4, <1>6, <1>7, <1>8 DEF SeedInv, PropagationInv
<1>10. CASE VarOf(l) \notin setup
  <2>1. /\ setup' = setup \cup {VarOf(l)}
        /\ satisfied' = satisfied \cup {d \in Constraint : l \in clauses[d]}
        /\ hard_satisfied' = hard_satisfied \cup {h \in hard_clauses : l \in h}
        /\ visit' = {d \in within \ {c1} : -l \in clauses[d] /\ d \notin satisfied'}
        /\ hard_visit' = {h \in hard_clauses : -l \in h /\ h \notin hard_satisfied'}
    BY <1>10 DEF Pop, SetUp
  <2>2. SoftCounts'
    <3>1. /\ lits_left' = lits_left /\ clauses' = clauses /\ within' = within /\ c1' = c1
          /\ implied' = implied
      BY <1>2 DEF givenVars
    <3>2. lits_left \in [Constraint -> Int] /\ within \subseteq Constraint
      BY <1>1 DEF PropagationInv, SoftCounts, GivenInv
    <3>3. ASSUME NEW d \in (within \ {c1}) \ satisfied'
          PROVE  Counted(clauses[d], lits_left[d] - (IF d \in visit' THEN 1 ELSE 0), setup', implied)
      <4>1. d \in Constraint /\ d \notin satisfied /\ l \notin clauses[d]
        BY <2>1, <3>2
      <4>2. clauses[d] \in SUBSET Lit /\ lits_left[d] \in Int
        BY <4>1, <3>2, <1>1 DEF GivenInv, CnfTypeOK
      <4>3. Counted(clauses[d], lits_left[d], setup, implied)
        <5>1. Counted(clauses[d], lits_left[d] - (IF d \in visit THEN 1 ELSE 0), setup, implied)
          BY <4>1, <1>1 DEF PropagationInv, SoftCounts
        <5>2. lits_left[d] - (IF d \in visit THEN 1 ELSE 0) = lits_left[d]
          BY <1>2, <4>2
        <5>3. QED
          BY <5>1, <5>2
      <4>4. Counted(clauses[d], lits_left[d] - (IF -l \in clauses[d] THEN 1 ELSE 0), setup', implied)
        BY <4>1, <4>2, <4>3, <1>5, <1>10, <2>1, CountedSetUp
      <4>5. -l \in clauses[d] <=> d \in visit'
        BY <2>1
      <4>6. QED
        BY <4>4, <4>5
    <3>4. visit' \subseteq (within \ {c1}) \ satisfied'
      BY <2>1
    <3>5. QED
      BY <3>1, <3>2, <3>3, <3>4 DEF SoftCounts
  <2>3. HardCounts'
    <3>1. /\ hard_lits_left' = hard_lits_left /\ hard_clauses' = hard_clauses
          /\ implied' = implied
      BY <1>2 DEF givenVars
    <3>2. hard_lits_left \in [hard_clauses -> Int]
      BY <1>1 DEF PropagationInv, HardCounts
    <3>3. ASSUME NEW h \in hard_clauses \ hard_satisfied'
          PROVE  Counted(h, hard_lits_left[h] - (IF h \in hard_visit' THEN 1 ELSE 0), setup', implied)
      <4>1. h \in hard_clauses /\ h \notin hard_satisfied /\ l \notin h
        BY <2>1
      <4>2. h \in SUBSET Lit /\ hard_lits_left[h] \in Int
        BY <4>1, <3>2, <1>1 DEF GivenInv, CnfTypeOK
      <4>3. Counted(h, hard_lits_left[h], setup, implied)
        <5>1. Counted(h, hard_lits_left[h] - (IF h \in hard_visit THEN 1 ELSE 0), setup, implied)
          BY <4>1, <1>1 DEF PropagationInv, HardCounts
        <5>2. hard_lits_left[h] - (IF h \in hard_visit THEN 1 ELSE 0) = hard_lits_left[h]
          BY <1>2, <4>2
        <5>3. QED
          BY <5>1, <5>2
      <4>4. Counted(h, hard_lits_left[h] - (IF -l \in h THEN 1 ELSE 0), setup', implied)
        BY <4>1, <4>2, <4>3, <1>5, <1>10, <2>1, CountedSetUp
      <4>5. -l \in h <=> h \in hard_visit'
        BY <2>1
      <4>6. QED
        BY <4>4, <4>5
    <3>4. hard_visit' \subseteq hard_clauses \ hard_satisfied'
      BY <2>1
    <3>5. QED
      BY <3>1, <3>2, <3>3, <3>4 DEF HardCounts
  <2>4. QED
    BY <2>2, <2>3, <1>2, <1>3, <1>4, <1>6, <1>7, <1>8 DEF SeedInv, PropagationInv
<1>11. QED
  BY <1>9, <1>10

(* The counts when nothing but the list of entries changes.                *)
LEMMA SoftCountsKept ==
    ASSUME SoftCounts, Extended(implied, implied'),
           UNCHANGED <<givenVars, setup, satisfied, lits_left, visit>>
    PROVE  SoftCounts'
<1>1. \A d \in (within \ {c1}) \ satisfied :
          Counted(clauses[d], lits_left[d] - (IF d \in visit THEN 1 ELSE 0), setup, implied')
  BY CountedLonger DEF SoftCounts
<1>2. QED
  BY <1>1 DEF SoftCounts, givenVars

LEMMA HardCountsKept ==
    ASSUME HardCounts, Extended(implied, implied'),
           UNCHANGED <<givenVars, setup, hard_satisfied, hard_lits_left, hard_visit>>
    PROVE  HardCounts'
<1>1. \A h \in hard_clauses \ hard_satisfied :
          Counted(h, hard_lits_left[h] - (IF h \in hard_visit THEN 1 ELSE 0), setup, implied')
  BY CountedLonger DEF HardCounts
<1>2. QED
  BY <1>1 DEF HardCounts, givenVars

(* A constraint that is available completes no known MUS.                  *)
LEMMA AvailableCompletesNone ==
    ASSUME ConflictInv, NEW d \in within \ {c1}, Available(d),
           NEW s \in SUBSET (conflict \cup {d})
    PROVE  \A n \in known : ~(n \subseteq s)
<1> SUFFICES ASSUME NEW n \in known, n \subseteq s PROVE FALSE
  OBVIOUS
<1>1. PICK e \in n : e \notin conflict
  BY DEF ConflictInv
<1>2. e = d
  BY <1>1
<1>3. d \notin m1
  BY <1>1, <1>2 DEF ConflictInv, base
<1>4. QED
  BY <1>1, <1>2, <1>3 DEF Available

(* Nothing is implied; the seed may grow.                                  *)
LEMMA ImpliedKept ==
    ASSUME ImpliedInv, UNCHANGED <<givenVars, implied, toPropagate>>, conflict \subseteq conflict'
    PROVE  ImpliedInv'
<1>1. Reasons(implied, Len(implied), conflict')
  BY ReasonsLarger DEF ImpliedInv
<1>2. Reasons(implied, Len(implied), conflict)'
  BY <1>1 DEF Reasons, Assumed, Forced, InSeed, ClauseOf, FalseBefore, givenVars
<1>3. Entry' = Entry
  BY DEF Entry, givenVars
<1>4. QED
  BY <1>2, <1>3 DEF ImpliedInv

(* An entry is added.                                                      *)
LEMMA ImpliedGrows ==
    ASSUME ImpliedInv, NEW e \in Entry, UNCHANGED givenVars, conflict \subseteq conflict',
           implied' = Append(implied, e), toPropagate' = Append(toPropagate, e[3]),
           InSeed(e, conflict'), e[3] \in ClauseOf(e),
           FalseIn(implied, ClauseOf(e) \ {e[3]}),
           \A i \in 1..Len(implied) : NameOf(implied[i]) = NameOf(e) => NameOf(e) = <<"soft", c1>>
    PROVE  ImpliedInv'
<1> DEFINE n == Len(implied)
<1>1. implied \in Seq(Entry) /\ toPropagate \in Seq(Lit) /\ Reasons(implied, n, conflict)
  BY DEF ImpliedInv
<1>2. /\ implied' \in Seq(Entry) /\ Len(implied') = n + 1 /\ implied'[n + 1] = e
      /\ \A j \in 1..n : implied'[j] = implied[j]
      /\ n \in Nat
  BY <1>1, AppendExtends
<1>3. Reasons(Append(implied, e), n + 1, conflict')
  BY <1>1, ReasonsAppend
<1>4. Reasons(implied', Len(implied'), conflict')
  BY <1>2, <1>3
<1>5. Reasons(implied, Len(implied), conflict)'
  BY <1>4 DEF Reasons, Assumed, Forced, InSeed, ClauseOf, FalseBefore, givenVars
<1>6. e[3] \in Lit
  BY DEF Entry
<1>7. toPropagate' \in Seq(Lit)
  BY <1>1, <1>6
<1>8. ASSUME NEW k \in 1..Len(toPropagate')
      PROVE  \E i \in 1..n + 1 : implied'[i][3] = toPropagate'[k]
  <2>1. \/ k \in 1..Len(toPropagate) /\ toPropagate'[k] = toPropagate[k]
        \/ toPropagate'[k] = e[3]
    BY <1>1, <1>6
  <2>2. ASSUME k \in 1..Len(toPropagate), toPropagate'[k] = toPropagate[k]
        PROVE  \E i \in 1..n + 1 : implied'[i][3] = toPropagate'[k]
    <3>1. PICK i \in 1..n : implied[i][3] = toPropagate[k]
      BY <2>2 DEF ImpliedInv
    <3>2. i \in 1..n + 1
      BY <1>2
    <3>3. QED
      BY <3>1, <3>2, <2>2, <1>2
  <2>3. ASSUME toPropagate'[k] = e[3]
        PROVE  \E i \in 1..n + 1 : implied'[i][3] = toPropagate'[k]
    <3>1. n + 1 \in 1..n + 1
      BY <1>2
    <3>2. QED
      BY <3>1, <2>3, <1>2
  <2>4. QED
    BY <2>1, <2>2, <2>3
<1>9. Entry' = Entry
  BY DEF Entry, givenVars
<1>10. QED
  BY <1>2, <1>5, <1>7, <1>8, <1>9 DEF ImpliedInv

LEMMA SoftVisited ==
    ASSUME GivenInv, SoftCounts, NEW d \in visit, NextSoft(d), visit' = visit \ {d},
           Extended(implied, implied')
    PROVE  SoftCounts'
<1>1. /\ lits_left' = [lits_left EXCEPT ![d] = @ - 1]
      /\ UNCHANGED <<givenVars, setup, satisfied>>
  BY DEF NextSoft
<1>2. /\ lits_left \in [Constraint -> Int] /\ visit \subseteq (within \ {c1}) \ satisfied
      /\ within \subseteq Constraint
  BY DEF SoftCounts, GivenInv
<1>3. lits_left' \in [Constraint -> Int]
  BY <1>1, <1>2
<1>4. ASSUME NEW e \in (within \ {c1}) \ satisfied
      PROVE  Counted(clauses[e], lits_left'[e] - (IF e \in visit' THEN 1 ELSE 0), setup, implied')
  <2>1. Counted(clauses[e], lits_left[e] - (IF e \in visit THEN 1 ELSE 0), setup, implied')
    BY CountedLonger DEF SoftCounts
  <2>2. lits_left'[e] - (IF e \in visit' THEN 1 ELSE 0) = lits_left[e] - (IF e \in visit THEN 1 ELSE 0)
    BY <1>1, <1>2
  <2>3. QED
    BY <2>1, <2>2
<1>5. QED
  BY <1>1, <1>2, <1>3, <1>4 DEF SoftCounts, givenVars

LEMMA HardVisitedCounts ==
    ASSUME HardCounts, NEW d \in hard_visit, NextHard(d), hard_visit' = hard_visit \ {d},
           Extended(implied, implied')
    PROVE  HardCounts'
<1>1. /\ hard_lits_left' = [hard_lits_left EXCEPT ![d] = @ - 1]
      /\ UNCHANGED <<givenVars, setup, hard_satisfied>>
  BY DEF NextHard
<1>2. /\ hard_lits_left \in [hard_clauses -> Int] /\ hard_visit \subseteq hard_clauses \ hard_satisfied
  BY DEF HardCounts
<1>3. hard_lits_left' \in [hard_clauses -> Int]
  BY <1>1, <1>2
<1>4. ASSUME NEW e \in hard_clauses \ hard_satisfied
      PROVE  Counted(e, hard_lits_left'[e] - (IF e \in hard_visit' THEN 1 ELSE 0), setup, implied')
  <2>1. Counted(e, hard_lits_left[e] - (IF e \in hard_visit THEN 1 ELSE 0), setup, implied')
    BY CountedLonger DEF HardCounts
  <2>2. hard_lits_left'[e] - (IF e \in hard_visit' THEN 1 ELSE 0)
           = hard_lits_left[e] - (IF e \in hard_visit THEN 1 ELSE 0)
    BY <1>1, <1>2
  <2>3. QED
    BY <2>1, <2>2
<1>5. QED
  BY <1>1, <1>2, <1>3, <1>4 DEF HardCounts, givenVars

LEMMA SoftToVisit ==
    ASSUME GivenInv, SoftCounts, NEW d \in visit
    PROVE  /\ d \in within \ {c1} /\ d \in Constraint
           /\ clauses[d] \in SUBSET Lit /\ lits_left[d] \in Int
           /\ Counted(clauses[d], lits_left[d] - 1, setup, implied)
<1>1. d \in (within \ {c1}) \ satisfied /\ d \in Constraint
  BY DEF SoftCounts, GivenInv
<1>2. Counted(clauses[d], lits_left[d] - (IF d \in visit THEN 1 ELSE 0), setup, implied)
  BY <1>1 DEF SoftCounts
<1>3. QED
  BY <1>1, <1>2 DEF SoftCounts, GivenInv, CnfTypeOK

LEMMA HardToVisit ==
    ASSUME GivenInv, HardCounts, NEW h \in hard_visit
    PROVE  /\ h \in hard_clauses
           /\ h \in SUBSET Lit /\ hard_lits_left[h] \in Int
           /\ Counted(h, hard_lits_left[h] - 1, setup, implied)
<1>1. h \in hard_clauses \ hard_satisfied
  BY DEF HardCounts
<1>2. Counted(h, hard_lits_left[h] - (IF h \in hard_visit THEN 1 ELSE 0), setup, implied)
  BY <1>1 DEF HardCounts
<1>3. QED
  BY <1>1, <1>2 DEF HardCounts, GivenInv, CnfTypeOK

LEMMA EntryTypes ==
    ASSUME ImpliedInv, NEW i \in 1..Len(implied)
    PROVE  \/ implied[i][1] = "soft" /\ implied[i][2] \in Constraint
           \/ implied[i][1] = "hard" /\ implied[i][2] \in hard_clauses
<1>1. implied[i] \in Entry
  BY DEF ImpliedInv
<1>2. QED
  BY <1>1 DEF Entry

LEMMA UsedUpKept ==
    ASSUME ImpliedInv, UsedUp, UNCHANGED <<givenVars, implied>>,
           \A d \in Constraint : lits_left[d] \in Int /\ lits_left'[d] \in Int
                                 /\ lits_left'[d] <= lits_left[d],
           \A h \in hard_clauses : hard_lits_left[h] \in Int /\ hard_lits_left'[h] \in Int
                                   /\ hard_lits_left'[h] <= hard_lits_left[h]
    PROVE  UsedUp'
<1> SUFFICES ASSUME NEW i \in 1..Len(implied)
             PROVE  /\ implied[i][1] = "soft" /\ implied[i][2] # c1
                          => lits_left'[implied[i][2]] <= 1
                    /\ implied[i][1] = "hard" => hard_lits_left'[implied[i][2]] <= 1
  BY DEF UsedUp, givenVars
<1>1. CASE implied[i][1] = "soft"
  <2>1. implied[i][2] \in Constraint
    BY <1>1, EntryTypes
  <2>2. implied[i][2] # c1 => lits_left[implied[i][2]] <= 1
    BY <1>1 DEF UsedUp
  <2>3. QED
    BY <1>1, <2>1, <2>2
<1>2. CASE implied[i][1] = "hard"
  <2>1. implied[i][2] \in hard_clauses
    BY <1>2, EntryTypes
  <2>2. hard_lits_left[implied[i][2]] <= 1
    BY <1>2 DEF UsedUp
  <2>3. QED
    BY <1>2, <2>1, <2>2
<1>3. QED
  BY <1>1, <1>2

(* The same when an entry is added whose clause has one literal to go.     *)
LEMMA UsedUpGrows ==
    ASSUME ImpliedInv, UsedUp, UNCHANGED givenVars,
           NEW e \in Entry, implied' = Append(implied, e),
           e[1] = "soft" => lits_left'[e[2]] <= 1,
           e[1] = "hard" => hard_lits_left'[e[2]] <= 1,
           \A d \in Constraint : lits_left[d] \in Int /\ lits_left'[d] \in Int
                                 /\ lits_left'[d] <= lits_left[d],
           \A h \in hard_clauses : hard_lits_left[h] \in Int /\ hard_lits_left'[h] \in Int
                                   /\ hard_lits_left'[h] <= hard_lits_left[h]
    PROVE  UsedUp'
<1> DEFINE n == Len(implied)
<1>1. /\ Len(implied') = n + 1 /\ implied'[n + 1] = e /\ n \in Nat
      /\ \A j \in 1..n : implied'[j] = implied[j]
  BY AppendExtends DEF ImpliedInv
<1> SUFFICES ASSUME NEW i \in 1..n + 1
             PROVE  /\ implied'[i][1] = "soft" /\ implied'[i][2] # c1
                          => lits_left'[implied'[i][2]] <= 1
                    /\ implied'[i][1] = "hard" => hard_lits_left'[implied'[i][2]] <= 1
  BY <1>1 DEF UsedUp, givenVars
<1>2. CASE i = n + 1
  BY <1>1, <1>2
<1>3. CASE i # n + 1
  <2>1. i \in 1..n /\ implied'[i] = implied[i]
    BY <1>1, <1>3
  <2>2. CASE implied[i][1] = "soft"
    <3>1. implied[i][2] \in Constraint
      BY <2>1, <2>2, EntryTypes
    <3>2. implied[i][2] # c1 => lits_left[implied[i][2]] <= 1
      BY <2>1, <2>2 DEF UsedUp
    <3>3. QED
      BY <2>1, <2>2, <3>1, <3>2
  <2>3. CASE implied[i][1] = "hard"
    <3>1. implied[i][2] \in hard_clauses
      BY <2>1, <2>3, EntryTypes
    <3>2. hard_lits_left[implied[i][2]] <= 1
      BY <2>1, <2>3 DEF UsedUp
    <3>3. QED
      BY <2>1, <2>3, <3>1, <3>2
  <2>4. QED
    BY <2>1, <2>2, <2>3, EntryTypes
<1>4. QED
  BY <1>2, <1>3

(* How the counters of a step compare with those before.                   *)
LEMMA SoftCountersFall ==
    ASSUME SoftCounts, HardCounts, NEW d \in Constraint, NextSoft(d)
    PROVE  /\ lits_left'[d] = lits_left[d] - 1
           /\ \A e \in Constraint : lits_left[e] \in Int /\ lits_left'[e] \in Int
                                    /\ lits_left'[e] <= lits_left[e]
           /\ \A h \in hard_clauses : hard_lits_left[h] \in Int /\ hard_lits_left'[h] \in Int
                                      /\ hard_lits_left'[h] <= hard_lits_left[h]
BY DEF SoftCounts, HardCounts, NextSoft

LEMMA HardCountersFall ==
    ASSUME SoftCounts, HardCounts, NEW d \in hard_clauses, NextHard(d)
    PROVE  /\ hard_lits_left'[d] = hard_lits_left[d] - 1
           /\ \A e \in Constraint : lits_left[e] \in Int /\ lits_left'[e] \in Int
                                    /\ lits_left'[e] <= lits_left[e]
           /\ \A h \in hard_clauses : hard_lits_left[h] \in Int /\ hard_lits_left'[h] \in Int
                                      /\ hard_lits_left'[h] <= hard_lits_left[h]
BY DEF SoftCounts, HardCounts, NextHard

---------------------------------------------------------------------------
LEMMA SoftPassedStep ==
    ASSUME SeedInv, SoftPassed
    PROVE  SeedInv'
<1>1. phase = "propagate" /\ GivenInv /\ ConflictInv /\ ImpliedInv /\ SoftCounts /\ HardCounts
      /\ UsedUp
  BY DEF SeedInv, PropagationInv, SoftPassed, NextSoft
<1>2. PICK d \in visit : /\ NextSoft(d) /\ visit' = visit \ {d}
                         /\ UNCHANGED <<hard_visit, phase, conflict, toPropagate, implied>>
  BY DEF SoftPassed, NothingImplied
<1>3. UNCHANGED <<givenVars, setup, satisfied, hard_satisfied, hard_lits_left>>
  BY <1>2 DEF NextSoft
<1>4. Extended(implied, implied')
  BY <1>1, <1>2 DEF Extended, ImpliedInv
<1>5. d \in Constraint
  BY <1>1, SoftToVisit
<1>6. GivenInv' /\ ConflictInv' /\ ImpliedInv'
  BY <1>1, <1>2, <1>3, GivenKept, ConflictKept, ImpliedKept
<1>7. SoftCounts' /\ HardCounts'
  BY <1>1, <1>2, <1>3, <1>4, SoftVisited, HardCountsKept
<1>8. UsedUp'
  BY <1>1, <1>2, <1>3, <1>5, SoftCountersFall, UsedUpKept
<1>9. SeedAsPromised'
  BY <1>1, <1>2 DEF SeedAsPromised
<1>10. QED
  BY <1>6, <1>7, <1>8, <1>9 DEF SeedInv, PropagationInv

LEMMA SoftUnitStep ==
    ASSUME SeedInv, SoftUnit
    PROVE  SeedInv'
<1>1. phase = "propagate" /\ GivenInv /\ ConflictInv /\ ImpliedInv /\ SoftCounts /\ HardCounts
      /\ UsedUp
  BY DEF SeedInv, PropagationInv, SoftUnit, NextSoft
<1>2. PICK d \in visit :
        /\ NextSoft(d) /\ lits_left[d] = 2 /\ Available(d)
        /\ conflict' = conflict \cup {d} /\ visit' = visit \ {d}
        /\ UNCHANGED <<hard_visit, phase>>
        /\ \/ NothingImplied
           \/ \E l \in Unset(clauses[d]) : Imply("soft", d, l)
  BY DEF SoftUnit
<1>3. UNCHANGED <<givenVars, setup, satisfied, hard_satisfied, hard_lits_left>>
  BY <1>2 DEF NextSoft
<1>4. d \in within \ {c1} /\ d \in Constraint /\ clauses[d] \in SUBSET Lit
      /\ Counted(clauses[d], 1, setup, implied)
  BY <1>1, <1>2, SoftToVisit
<1>5. GivenInv' /\ base' = base
  BY <1>1, <1>3, GivenKept
<1>6. ConflictInv'
  <2>1. \A n \in known : ~(n \subseteq conflict')
    BY <1>1, <1>2, <1>4, AvailableCompletesNone
  <2>2. base \subseteq conflict' /\ conflict' \subseteq within \ {c1}
    BY <1>1, <1>2, <1>4 DEF ConflictInv
  <2>3. QED
    BY <2>1, <2>2, <1>3, <1>5 DEF ConflictInv, givenVars
<1>7. SeedAsPromised'
  BY <1>1, <1>2 DEF SeedAsPromised
<1>8. conflict \subseteq conflict'
  BY <1>2
<1>9. CASE NothingImplied
  <2>1. UNCHANGED <<implied, toPropagate>>
    BY <1>9 DEF NothingImplied
  <2>2. Extended(implied, implied')
    BY <1>1, <2>1 DEF Extended, ImpliedInv
  <2>3. ImpliedInv'
    BY <1>1, <1>3, <1>8, <2>1, ImpliedKept
  <2>4. SoftCounts' /\ HardCounts'
    BY <1>1, <1>2, <1>3, <2>2, SoftVisited, HardCountsKept
  <2>5. UsedUp'
    BY <1>1, <1>2, <1>3, <1>4, <2>1, SoftCountersFall, UsedUpKept
  <2>6. QED
    BY <1>5, <1>6, <1>7, <2>3, <2>4, <2>5 DEF SeedInv, PropagationInv
<1>10. ASSUME NEW l \in Unset(clauses[d]), Imply("soft", d, l) PROVE SeedInv'
  <2> DEFINE e == <<"soft", d, l>>
  <2>1. l \in UnsetIn(clauses[d], setup) /\ l \in clauses[d] /\ l \in Lit
    BY <1>4 DEF Unset, UnsetIn
  <2>2. e \in Entry /\ ClauseOf(e) = clauses[d] /\ e[3] = l
    BY <1>4, <2>1 DEF Entry, ClauseOf
  <2>3. implied' = Append(implied, e) /\ toPropagate' = Append(toPropagate, e[3])
    BY <1>10 DEF Imply
  <2>4. FalseIn(implied, ClauseOf(e) \ {e[3]})
    BY <2>1, <2>2, <1>4, CountedToUnit
  <2>5. ASSUME NEW i \in 1..Len(implied), NameOf(implied[i]) = NameOf(e) PROVE FALSE
    <3>1. implied[i][1] = "soft" /\ implied[i][2] = d
      BY <2>5 DEF NameOf
    <3>2. lits_left[d] <= 1
      BY <3>1, <1>1, <1>4 DEF UsedUp
    <3>3. QED
      BY <3>2, <1>2
  <2>6. InSeed(e, conflict')
    BY <1>2 DEF InSeed
  <2>7. ImpliedInv'
    BY <1>1, <1>3, <1>8, <2>1, <2>2, <2>3, <2>4, <2>5, <2>6, ImpliedGrows
  <2>8. Extended(implied, implied')
    BY <1>1, <2>2, <2>3, AppendExtends DEF ImpliedInv
  <2>9. SoftCounts' /\ HardCounts'
    BY <1>1, <1>2, <1>3, <2>8, SoftVisited, HardCountsKept
  <2>10. e[1] = "soft" /\ e[2] = d /\ lits_left'[d] <= 1
    BY <1>1, <1>2, <1>4, SoftCountersFall
  <2>11. UsedUp'
    <3>1. /\ \A x \in Constraint : lits_left[x] \in Int /\ lits_left'[x] \in Int
                                   /\ lits_left'[x] <= lits_left[x]
          /\ \A h \in hard_clauses : hard_lits_left[h] \in Int /\ hard_lits_left'[h] \in Int
                                     /\ hard_lits_left'[h] <= hard_lits_left[h]
      BY <1>1, <1>2, <1>4, SoftCountersFall
    <3> HIDE DEF e
    <3>2. (e[1] = "soft" => lits_left'[e[2]] <= 1) /\ (e[1] = "hard" => hard_lits_left'[e[2]] <= 1)
      BY <2>10
    <3>3. UNCHANGED givenVars
      BY <1>3
    <3>4. QED
      BY <1>1, <2>2, <2>3, <3>1, <3>2, <3>3, UsedUpGrows
  <2>12. QED
    BY <1>5, <1>6, <1>7, <2>7, <2>9, <2>11 DEF SeedInv, PropagationInv
<1>11. QED
  BY <1>2, <1>9, <1>10

LEMMA HardVisitedStep ==
    ASSUME SeedInv, HardVisited
    PROVE  SeedInv'
<1>1. phase = "propagate" /\ GivenInv /\ ConflictInv /\ ImpliedInv /\ SoftCounts /\ HardCounts
      /\ UsedUp
  BY DEF SeedInv, PropagationInv, HardVisited, NextHard
<1>2. PICK h \in hard_visit :
        /\ NextHard(h) /\ hard_visit' = hard_visit \ {h}
        /\ UNCHANGED <<visit, phase, conflict>>
        /\ \/ NothingImplied
           \/ hard_lits_left[h] = 2 /\ \E l \in Unset(h) : Imply("hard", h, l)
  BY DEF HardVisited
<1>3. UNCHANGED <<givenVars, setup, satisfied, hard_satisfied, lits_left>>
  BY <1>2 DEF NextHard
<1>4. h \in hard_clauses /\ h \in SUBSET Lit /\ hard_lits_left[h] \in Int
      /\ Counted(h, hard_lits_left[h] - 1, setup, implied)
  BY <1>1, <1>2, HardToVisit
<1>5. GivenInv' /\ ConflictInv'
  BY <1>1, <1>2, <1>3, GivenKept, ConflictKept
<1>6. SeedAsPromised'
  BY <1>1, <1>2 DEF SeedAsPromised
<1>7. /\ hard_lits_left'[h] = hard_lits_left[h] - 1
      /\ \A x \in Constraint : lits_left[x] \in Int /\ lits_left'[x] \in Int
                               /\ lits_left'[x] <= lits_left[x]
      /\ \A x \in hard_clauses : hard_lits_left[x] \in Int /\ hard_lits_left'[x] \in Int
                                 /\ hard_lits_left'[x] <= hard_lits_left[x]
  BY <1>1, <1>2, <1>4, HardCountersFall
<1>8. CASE NothingImplied
  <2>1. UNCHANGED <<implied, toPropagate>>
    BY <1>8 DEF NothingImplied
  <2>2. Extended(implied, implied')
    BY <1>1, <2>1 DEF Extended, ImpliedInv
  <2>3. ImpliedInv'
    BY <1>1, <1>2, <1>3, <2>1, ImpliedKept
  <2>4. SoftCounts' /\ HardCounts'
    BY <1>1, <1>2, <1>3, <2>2, HardVisitedCounts, SoftCountsKept
  <2>5. UsedUp'
    BY <1>1, <1>3, <1>7, <2>1, UsedUpKept
  <2>6. QED
    BY <1>5, <1>6, <2>3, <2>4, <2>5 DEF SeedInv, PropagationInv
<1>9. ASSUME hard_lits_left[h] = 2, NEW l \in Unset(h), Imply("hard", h, l) PROVE SeedInv'
  <2> DEFINE e == <<"hard", h, l>>
  <2>1. l \in UnsetIn(h, setup) /\ l \in h /\ l \in Lit
    BY <1>4 DEF Unset, UnsetIn
  <2>2. e \in Entry /\ ClauseOf(e) = h /\ e[3] = l
    BY <1>4, <2>1 DEF Entry, ClauseOf
  <2>3. implied' = Append(implied, e) /\ toPropagate' = Append(toPropagate, e[3])
    BY <1>9 DEF Imply
  <2>4. FalseIn(implied, ClauseOf(e) \ {e[3]})
    BY <2>1, <2>2, <1>4, <1>9, CountedToUnit
  <2>5. ASSUME NEW i \in 1..Len(implied), NameOf(implied[i]) = NameOf(e) PROVE FALSE
    <3>1. implied[i][1] = "hard" /\ implied[i][2] = h
      BY <2>5 DEF NameOf
    <3>2. hard_lits_left[h] <= 1
      BY <3>1, <1>1 DEF UsedUp
    <3>3. QED
      BY <3>2, <1>9
  <2>6. InSeed(e, conflict')
    BY <1>4 DEF InSeed
  <2>7. ImpliedInv'
    BY <1>1, <1>2, <1>3, <2>1, <2>2, <2>3, <2>4, <2>5, <2>6, ImpliedGrows
  <2>8. Extended(implied, implied')
    BY <1>1, <2>2, <2>3, AppendExtends DEF ImpliedInv
  <2>9. SoftCounts' /\ HardCounts'
    BY <1>1, <1>2, <1>3, <2>8, HardVisitedCounts, SoftCountsKept
  <2>10. e[1] = "hard" /\ e[2] = h /\ hard_lits_left'[h] <= 1
    BY <1>7, <1>9
  <2>11. UsedUp'
    <3> HIDE DEF e
    <3>1. (e[1] = "soft" => lits_left'[e[2]] <= 1) /\ (e[1] = "hard" => hard_lits_left'[e[2]] <= 1)
      BY <2>10
    <3>2. UNCHANGED givenVars
      BY <1>3
    <3>3. QED
      BY <1>1, <1>7, <2>2, <2>3, <3>1, <3>2, UsedUpGrows
  <2>12. QED
    BY <1>5, <1>6, <2>7, <2>9, <2>11 DEF SeedInv, PropagationInv
<1>10. QED
  BY <1>2, <1>8, <1>9

(* The entry that ends a propagation: its clause is false.                 *)
LEMMA ConflictRefined ==
    ASSUME GivenInv, ConflictInv, ImpliedInv, NEW f \in SUBSET (within \ {c1}), conflict \subseteq f,
           NEW e, InSeed(e, f), FalseIn(implied, ClauseOf(e)),
           NEW more, more = Append(implied, e), \A n \in known : ~(n \subseteq f)
    PROVE  Refined(f, more) \in RotationSeeds(m1, c1, within, known)
<1> DEFINE n == Len(implied)
<1>1. n \in Nat /\ Len(more) = n + 1 /\ more[n + 1] = e /\ \A j \in 1..n : more[j] = implied[j]
  <2>1. implied \in Seq(Entry \cup {e})
    BY DEF ImpliedInv
  <2>2. QED
    BY <2>1
<1> HIDE DEF n
<1>2. Reasons(more, n, f)
  <2>1. Reasons(implied, n, f)
    BY ReasonsLarger DEF ImpliedInv, n
  <2>2. \A i \in 1..n : 1..i - 1 \subseteq 1..n
    BY <1>1
  <2>3. ASSUME NEW i \in 1..n PROVE more[i][3] \in Lit /\ (Assumed(more[i]) \/ Forced(more, i, f))
    <3>1. more[i] = implied[i] /\ \A j \in 1..i - 1 : more[j] = implied[j]
      BY <1>1, <2>2
    <3>2. implied[i][3] \in Lit /\ (Assumed(implied[i]) \/ Forced(implied, i, f))
      BY <2>1 DEF Reasons
    <3>3. QED
      BY <3>1, <3>2 DEF Forced, FalseBefore
  <2>4. QED
    BY <2>1, <2>3, <1>1 DEF Reasons
<1>3. FalseBefore(more, n + 1, ClauseOf(more[n + 1]))
  <2>1. (n + 1) - 1 = n
    BY <1>1
  <2>2. QED
    BY <2>1, <1>1 DEF FalseBefore, FalseIn, n
<1>4. f \in SUBSET Constraint /\ c1 \notin f /\ base \subseteq f
  BY DEF GivenInv, ConflictInv
<1>5. base \subseteq Refined(f, more) /\ ~Sat(Refined(f, more))
  BY <1>1, <1>2, <1>3, <1>4, RefinedUnsat DEF GivenInv
<1>6. Refined(f, more) \subseteq f
  BY DEF Refined
<1>7. QED
  BY <1>5, <1>6 DEF RotationSeeds, base

(* The seed is the refined one, in terms of the next state.                *)
LEMMA SeedFound ==
    ASSUME GivenInv, UNCHANGED givenVars, phase' = "seed",
           conflict' \in RotationSeeds(m1, c1, within, known)
    PROVE  SeedInv'
<1>1. GivenInv'
  BY GivenKept
<1>2. conflict' \in RotationSeeds(m1, c1, within, known)'
  BY DEF givenVars, RotationSeeds, Sat, Models, Satisfies
<1>3. SeedAsPromised'
  BY <1>2 DEF SeedAsPromised, RotationSeeds, Sat, Models, Satisfies
<1>4. QED
  BY <1>1, <1>3 DEF SeedInv

LEMMA SoftFalsifiedStep ==
    ASSUME SeedInv, SoftFalsified
    PROVE  SeedInv'
<1>1. GivenInv /\ ConflictInv /\ ImpliedInv /\ SoftCounts
  BY DEF SeedInv, PropagationInv, SoftFalsified, NextSoft
<1>2. PICK d \in visit : /\ NextSoft(d) /\ lits_left[d] = 1 /\ Available(d)
                         /\ Conflict("soft", d, conflict \cup {d})
  BY DEF SoftFalsified
<1> DEFINE f == conflict \cup {d}
           e == <<"soft", d, 0>>
<1>3. d \in within \ {c1} /\ clauses[d] \in SUBSET Lit /\ Counted(clauses[d], 0, setup, implied)
  BY <1>1, <1>2, SoftToVisit
<1>4. FalseIn(implied, ClauseOf(e)) /\ InSeed(e, f)
  BY <1>3, CountedToFalse DEF ClauseOf, InSeed
<1>5. f \in SUBSET (within \ {c1}) /\ conflict \subseteq f
  BY <1>1, <1>3 DEF ConflictInv
<1>6. \A n \in known : ~(n \subseteq f)
  BY <1>1, <1>2, <1>3, AvailableCompletesNone
<1>7. implied' = Append(implied, e) /\ conflict' = Refined(f, implied') /\ phase' = "seed"
  BY <1>2 DEF Conflict
<1> HIDE DEF e, f
<1>8. conflict' \in RotationSeeds(m1, c1, within, known)
  BY <1>1, <1>4, <1>5, <1>6, <1>7, ConflictRefined
<1>9. UNCHANGED givenVars
  BY <1>2 DEF NextSoft
<1>10. QED
  BY <1>1, <1>7, <1>8, <1>9, SeedFound

LEMMA HardFalsifiedStep ==
    ASSUME SeedInv, HardFalsified
    PROVE  SeedInv'
<1>1. GivenInv /\ ConflictInv /\ ImpliedInv /\ HardCounts
  BY DEF SeedInv, PropagationInv, HardFalsified, NextHard
<1>2. PICK h \in hard_visit : /\ NextHard(h) /\ hard_lits_left[h] = 1
                              /\ Conflict("hard", h, conflict)
  BY DEF HardFalsified
<1> DEFINE e == <<"hard", h, 0>>
<1>3. h \in hard_clauses /\ h \in SUBSET Lit /\ Counted(h, 0, setup, implied)
  BY <1>1, <1>2, HardToVisit
<1>4. FalseIn(implied, ClauseOf(e)) /\ InSeed(e, conflict)
  BY <1>3, CountedToFalse DEF ClauseOf, InSeed
<1>5. conflict \in SUBSET (within \ {c1}) /\ \A n \in known : ~(n \subseteq conflict)
  BY <1>1 DEF ConflictInv
<1>6. implied' = Append(implied, e) /\ conflict' = Refined(conflict, implied') /\ phase' = "seed"
  BY <1>2 DEF Conflict
<1> HIDE DEF e
<1>7. conflict' \in RotationSeeds(m1, c1, within, known)
  BY <1>1, <1>4, <1>5, <1>6, ConflictRefined
<1>8. UNCHANGED givenVars
  BY <1>2 DEF NextHard
<1>9. QED
  BY <1>1, <1>6, <1>7, <1>8, SeedFound

LEMMA RotationUnchanged ==
    ASSUME SeedInv, UNCHANGED propagateVars
    PROVE  SeedInv'
<1>1. phase' = phase
  BY DEF propagateVars
<1>2. GivenInv'
  BY GivenKept DEF SeedInv, propagateVars
<1>3. ASSUME PropagationInv PROVE PropagationInv'
  <2>1. ConflictInv' /\ ImpliedInv'
    BY <1>3, ConflictKept, ImpliedKept DEF PropagationInv, propagateVars
  <2>2. SoftCounts' /\ HardCounts' /\ UsedUp'
    BY <1>3 DEF PropagationInv, SoftCounts, HardCounts, UsedUp, propagateVars, givenVars
  <2>3. QED
    BY <2>1, <2>2 DEF PropagationInv
<1>4. SeedAsPromised'
  BY DEF SeedInv, SeedAsPromised, RotationSeeds, Sat, Models, Satisfies,
         propagateVars, givenVars
<1>5. QED
  BY <1>1, <1>2, <1>3, <1>4 DEF SeedInv

LEMMA GiveUpStep ==
    ASSUME SeedInv, GiveUp
    PROVE  SeedInv'
<1>1. phase' = "none" /\ UNCHANGED givenVars
  BY DEF GiveUp
<1>2. GivenInv'
  BY <1>1, GivenKept DEF SeedInv
<1>3. QED
  BY <1>1, <1>2 DEF SeedInv, SeedAsPromised

(* Whatever seed a rotation of UNIMUS returns, for every formula, also one *)
(* with hard clauses, every unsatisfiable cover and every set of known     *)
(* MUSes: it extends the MUS without the constraint inside the cover, is   *)
(* unsatisfiable after unimusRec_propagateRefine took constraints out, and *)
(* contains no known MUS.                                                  *)
THEOREM SeedCorrect == RotationSpec => []SeedAsPromised
<1>1. RotationInit => SeedInv
  BY InitRotationInv
<1>2. SeedInv /\ [RotationNext]_propagateVars => SeedInv'
  <2> SUFFICES ASSUME SeedInv, [RotationNext]_propagateVars PROVE SeedInv'
    OBVIOUS
  <2>1. CASE Pop
    BY <2>1, PopStep
  <2>2. CASE HardFalsified
    BY <2>2, HardFalsifiedStep
  <2>3. CASE HardVisited
    BY <2>3, HardVisitedStep
  <2>4. CASE SoftFalsified
    BY <2>4, SoftFalsifiedStep
  <2>5. CASE SoftUnit
    BY <2>5, SoftUnitStep
  <2>6. CASE SoftPassed
    BY <2>6, SoftPassedStep
  <2>7. CASE GiveUp
    BY <2>7, GiveUpStep
  <2>8. CASE Returned \/ UNCHANGED propagateVars
    BY <2>8, RotationUnchanged DEF Returned
  <2>9. QED
    BY <2>1, <2>2, <2>3, <2>4, <2>5, <2>6, <2>7, <2>8 DEF RotationNext
<1>3. SeedInv => SeedAsPromised
  BY DEF SeedInv
<1>4. QED
  BY <1>1, <1>2, <1>3, PTL DEF RotationSpec
===========================================================================
