------------------------------- MODULE Unimus ------------------------------
(***************************************************************************)
(* UNIMUS (Master::unimusRecMain), the default algorithm.  It alternates a *)
(* refinement, which finds one MUS of the whole input, with a recursion    *)
(* into the union of the MUSes found so far.  Every MUS is rotated: one of *)
(* its constraints is replaced, by unit propagation inside the seed the    *)
(* MUS came from (the cover), to obtain the seed of another MUS, which is  *)
(* shrunk and rotated in turn.  Only the MUSes of the rotation under way   *)
(* are consulted to keep a new seed from containing an old MUS.            *)
(***************************************************************************)
EXTENDS Master

CONSTANTS
    mssLimit,        \* satisfiable seeds in one refinement (50 in the code)
    streakLimit,     \* satisfiable seeds in a row in the recursion (5)
    rotationStreak,  \* fruitless rotations in a row before giving up (5)
    rotationLimit    \* constraints of a MUS that are tried (500)

ASSUME UnimusAssumption ==
    /\ mssLimit \in Nat \ {0} /\ streakLimit \in Nat
    /\ rotationStreak \in Nat \ {0} /\ rotationLimit \in Nat

VARIABLES
    foundMUS, foundMSS,     \* locals of unimusRecRefine
    frames,                 \* calls of unimusRec under way, the innermost last
    cover,                  \* the seed in which MUSes are rotated
    localMuses,             \* indices in muses of the MUSes found in the cover
    unimus_rotation_stack,  \* those still to be rotated, the next one last
    rot_streak,             \* streak of unimusRec_mark_mus
    mid, before,            \* the MUS being rotated, muses.size() before it
    untried, iter           \* its constraints still to be visited, those tried

refineVars == <<foundMUS, foundMSS>>
rotationVars == <<cover, localMuses, unimus_rotation_stack, rot_streak,
                  mid, before, untried, iter>>
unimusVars == <<cnfVars, explorerVars, masterVars, refineVars, frames, rotationVars>>

NewFrame(subset, cr) ==
    [subset |-> subset, crits |-> cr, processed |-> {}, streak |-> 0, first |-> TRUE,
     unsatFound |-> FALSE, crit_all |-> {}, todo |-> {}]

Frame == [subset : SUBSET Constraint, crits : SUBSET Constraint,
          processed : SUBSET Constraint, streak : Nat, first : BOOLEAN,
          unsatFound : BOOLEAN, crit_all : SUBSET Constraint, todo : SUBSET Constraint]

frame == frames[Len(frames)]
callers == SubSeq(frames, 1, Len(frames) - 1)
WithFrame(f) == Append(callers, f)

Init ==
    /\ Parse /\ ExplorerInit /\ MasterInit
    /\ foundMUS = 0 /\ foundMSS = 0 /\ frames = <<>>
    /\ cover = {} /\ localMuses = {} /\ unimus_rotation_stack = <<>>
    /\ rot_streak = 0 /\ mid = 0 /\ before = 0 /\ untried = {} /\ iter = 0

Start == Enumerate /\ UNCHANGED <<refineVars, frames, rotationVars>>

Shrinking == ShrinkFormula /\ UNCHANGED <<refineVars, frames, rotationVars>>

---------------------------------------------------------------------------
(* unimusRecMain and unimusRecRefine: "loop" without a call of unimusRec. *)

Refining == pc = "loop" /\ frames = <<>>

(* A seed is fetched before the loop is left, so an empty map is noticed.  *)
RefineExhausted ==
    /\ Refining
    /\ TopUnexplored(Constraint) = {}
    /\ pc' = "done"
    /\ UNCHANGED <<seed, crits, mus, muses, uni, limit, cnfVars, explorerVars>>
    /\ UNCHANGED <<refineVars, frames, rotationVars>>

RefineEnds ==
    /\ Refining
    /\ TopUnexplored(Constraint) # {}
    /\ foundMUS >= 1 \/ foundMSS >= mssLimit
    /\ foundMUS' = 0 /\ foundMSS' = 0
    /\ frames' = <<NewFrame(uni, {})>>
    /\ UNCHANGED <<masterVars, cnfVars, explorerVars, rotationVars>>

RefineUnsatisfiable ==
    /\ Refining
    /\ foundMUS < 1 /\ foundMSS < mssLimit
    /\ \E top \in TopUnexplored(Constraint) :
          /\ \E core \in Cores(top) : CallShrinkFormula(core, critical)
          /\ cover' = top
    /\ UNCHANGED <<cnfVars, explorerVars, refineVars, frames, localMuses>>
    /\ UNCHANGED <<unimus_rotation_stack, rot_streak, mid, before, untried, iter>>

(* The seed is blocked down without growing. *)
RefineSatisfiable ==
    /\ Refining
    /\ foundMUS < 1 /\ foundMSS < mssLimit
    /\ \E top \in TopUnexplored(Constraint) : Sat(top) /\ BlockDown(top)
    /\ foundMSS' = foundMSS + 1
    /\ UNCHANGED <<masterVars, testedForCriticality, cnfVars, foundMUS, frames, rotationVars>>

---------------------------------------------------------------------------
(* unimusRec *)

AskingForSeed == pc = "loop" /\ frames # <<>> /\ frame.todo = {}

RecReturns ==
    /\ AskingForSeed
    /\ TopUnexplored(frame.subset) = {}
    /\ frames' = callers
    /\ UNCHANGED <<masterVars, cnfVars, explorerVars, refineVars, rotationVars>>

RecUnsatisfiable ==
    /\ AskingForSeed
    /\ \E top \in TopUnexplored(frame.subset) :
          /\ \E core \in Cores(top) : CallShrinkFormula(core, frame.crits)
          /\ cover' = top
    /\ frames' = WithFrame([frame EXCEPT !.unsatFound = TRUE, !.streak = 0, !.first = FALSE])
    /\ UNCHANGED <<cnfVars, explorerVars, refineVars, localMuses>>
    /\ UNCHANGED <<unimus_rotation_stack, rot_streak, mid, before, untried, iter>>

(* Mutant: whatever an MSS misses is taken to be critical.                 *)
AfterMssAllCritical(top) ==
    WithFrame([frame EXCEPT !.streak = @ + 1, !.first = FALSE,
                            !.crits = @ \cup (frame.subset \ top)])

(* After an MSS of the subset: give up when the first seed was one or too  *)
(* many came in a row; otherwise the one constraint it misses is critical, *)
(* or each of several is tried, once a MUS was found here.                 *)
AfterMss(top) ==
    LET missing == frame.subset \ top
        next == [frame EXCEPT !.streak = @ + 1, !.first = FALSE]
    IN  IF frame.first \/ next.streak > streakLimit THEN callers
        ELSE IF Cardinality(missing) = 1
             THEN WithFrame([next EXCEPT !.crits = @ \cup missing])
        ELSE IF ~frame.unsatFound THEN WithFrame(next)
        ELSE WithFrame([next EXCEPT !.crit_all = missing, !.todo = missing])

RecSatisfiable ==
    /\ AskingForSeed
    /\ \E top \in TopUnexplored(frame.subset) :
          /\ Sat(top)
          /\ \E grown \in Extensions(top) : BlockDown(grown)
          /\ frames' = AfterMss(top)
    /\ UNCHANGED <<masterVars, testedForCriticality, cnfVars, refineVars, rotationVars>>

(* lit_occurences: every literal of c occurs in another constraint of the  *)
(* subset or in a hard clause.                                             *)
LitOccurrences(subset, c) ==
    \A l \in clauses[c] : \/ \E d \in subset \ {c} : l \in clauses[d]
                          \/ \E h \in hard_clauses : l \in h

(* One turn of the for loop over crit_all. *)
RecForEach ==
    /\ pc = "loop" /\ frames # <<>> /\ frame.todo # {}
    /\ \E c \in frame.todo :
          /\ \A d \in frame.todo : c <= d
          /\ LET left == frame.todo \ {c}
                 rest == WithFrame([frame EXCEPT
                            !.processed = @ \cup {c}, !.todo = left,
                            !.crit_all = IF left = {} THEN {} ELSE @])
             IN  frames' =
                    IF c \notin frame.processed /\ LitOccurrences(frame.subset, c)
                       THEN Append(rest, NewFrame((frame.subset \ frame.crit_all) \cup {c},
                                                  frame.crits))
                       ELSE rest
    /\ UNCHANGED <<masterVars, cnfVars, explorerVars, refineVars, rotationVars>>

---------------------------------------------------------------------------
(* unimusRec_mark_mus and unimusRec_rotate_mus *)

(* The MUS of a seed of refinement or recursion is the first local one.    *)
MarkAndRotate ==
    /\ mid = 0
    /\ MarkMus("stack")
    /\ localMuses' = {Len(muses)}
    /\ unimus_rotation_stack' = <<Len(muses)>>
    /\ rot_streak' = 0
    /\ UNCHANGED <<refineVars, frames, cover, mid, before, untried, iter>>

PopMus ==
    /\ pc = "stack" /\ unimus_rotation_stack # <<>>
    /\ LET n == Len(unimus_rotation_stack)
       IN  /\ mid' = unimus_rotation_stack[n]
           /\ unimus_rotation_stack' = SubSeq(unimus_rotation_stack, 1, n - 1)
    /\ before' = Len(muses)
    /\ untried' = muses[mid']
    /\ iter' = 0
    /\ pc' = "rotate"
    /\ UNCHANGED <<seed, crits, mus, muses, uni, limit, cnfVars, explorerVars>>
    /\ UNCHANGED <<refineVars, frames, cover, localMuses, rot_streak>>

(* Constraints come in order, or shuffled when there are more than can be  *)
(* tried.                                                                  *)
NextTried(c) ==
    /\ c \in untried
    /\ Cardinality(muses[mid]) <= rotationLimit => \A d \in untried : c <= d

(* unimusRec_propagateToUnsat, whose steps are those of module Rotation. *)
Seeds(c) == RotationSeeds(muses[mid], c, cover, {muses[i] : i \in localMuses})

Rotating(c) == pc = "rotate" /\ NextTried(c)

SkipCritical ==
    /\ \E c \in untried :
          /\ Rotating(c)
          /\ IsCritical(c, cover)
          /\ untried' = untried \ {c}
    /\ UNCHANGED <<masterVars, cnfVars, explorerVars, refineVars, frames, cover, localMuses>>
    /\ UNCHANGED <<unimus_rotation_stack, rot_streak, mid, before, iter>>

(* Propagation ends without a conflict. *)
RotationFails ==
    /\ \E c \in untried :
          /\ Rotating(c)
          /\ ~IsCritical(c, cover) /\ iter + 1 <= rotationLimit
          /\ untried' = untried \ {c}
    /\ iter' = iter + 1
    /\ UNCHANGED <<masterVars, cnfVars, explorerVars, refineVars, frames, cover, localMuses>>
    /\ UNCHANGED <<unimus_rotation_stack, rot_streak, mid, before>>

RotationSucceeds ==
    /\ \E c \in untried :
          /\ Rotating(c)
          /\ ~IsCritical(c, cover) /\ iter + 1 <= rotationLimit
          /\ \E s \in Seeds(c) : CallShrinkFormula(s, critical)
          /\ untried' = untried \ {c}
    /\ iter' = iter + 1
    /\ UNCHANGED <<cnfVars, explorerVars, refineVars, frames, cover, localMuses>>
    /\ UNCHANGED <<unimus_rotation_stack, rot_streak, mid, before>>

(* Mutant: the new MUS is not recorded as one of this cover.               *)
MarkRotatedForgotten ==
    /\ mid # 0
    /\ MarkMus("rotate")
    /\ unimus_rotation_stack' = Append(unimus_rotation_stack, Len(muses))
    /\ UNCHANGED <<localMuses, refineVars, frames, cover, rot_streak, mid, before, untried, iter>>

MarkRotated ==
    /\ mid # 0
    /\ MarkMus("rotate")
    /\ localMuses' = localMuses \cup {Len(muses)}
    /\ unimus_rotation_stack' = Append(unimus_rotation_stack, Len(muses))
    /\ UNCHANGED <<refineVars, frames, cover, rot_streak, mid, before, untried, iter>>

(* unimusRec_rotate_mus is over: all constraints visited, or enough tried. *)
RotateReturns ==
    /\ pc = "rotate"
    /\ \/ untried = {}
       \/ \E c \in untried : NextTried(c) /\ ~IsCritical(c, cover) /\ iter + 1 > rotationLimit
    /\ LET fruitless == IF Len(muses) = before THEN rot_streak + 1 ELSE 0
       IN  /\ rot_streak' = fruitless
           /\ unimus_rotation_stack' =
                 IF fruitless = rotationStreak THEN <<>> ELSE unimus_rotation_stack
    /\ mid' = 0 /\ before' = 0 /\ untried' = {} /\ iter' = 0
    /\ pc' = "stack"
    /\ UNCHANGED <<seed, crits, mus, muses, uni, limit, cnfVars, explorerVars>>
    /\ UNCHANGED <<refineVars, frames, cover, localMuses>>

(* unimusRec_mark_mus is over, and the refinement or recursion goes on.    *)
RotationEnds ==
    /\ pc = "stack" /\ unimus_rotation_stack = <<>>
    /\ pc' = "loop"
    /\ foundMUS' = IF frames = <<>> THEN foundMUS + 1 ELSE foundMUS
    /\ cover' = {} /\ localMuses' = {} /\ rot_streak' = 0
    /\ UNCHANGED <<seed, crits, mus, muses, uni, limit, cnfVars, explorerVars>>
    /\ UNCHANGED <<foundMSS, frames, unimus_rotation_stack, mid, before, untried, iter>>

Ended == pc \in {"done", "exit"} /\ UNCHANGED unimusVars

Next ==
    \/ Start \/ RefineExhausted \/ RefineEnds \/ RefineUnsatisfiable \/ RefineSatisfiable
    \/ RecReturns \/ RecUnsatisfiable \/ RecSatisfiable \/ RecForEach
    \/ Shrinking \/ MarkAndRotate \/ PopMus \/ SkipCritical \/ RotationFails
    \/ RotationSucceeds \/ MarkRotated \/ RotateReturns \/ RotationEnds
    \/ Ended

Spec == Init /\ [][Next]_unimusVars

(* One thread, and every solver call returns: the program keeps running. *)
FairSpec == Spec /\ WF_unimusVars(Next)

---------------------------------------------------------------------------
(* Every variable has its type. *)
TypeOK ==
    /\ CnfTypeOK /\ ExplorerTypeOK /\ MasterTypeOK
    /\ foundMUS \in Nat /\ foundMSS \in Nat
    /\ frames \in Seq(Frame)
    /\ cover \in SUBSET Constraint
    /\ localMuses \in SUBSET (1..Len(muses))
    /\ unimus_rotation_stack \in Seq(1..Len(muses))
    /\ rot_streak \in Nat /\ iter \in Nat /\ before \in Nat
    /\ mid \in 0..Len(muses)
    /\ untried \in SUBSET Constraint
    /\ pc \in {"start", "loop", "collect", "shrink", "mine", "mark", "stack", "rotate",
               "done", "exit"}

(* Only the MUSes of the rotation under way are checked against a new      *)
(* seed; that is enough, because no other reported MUS lies inside the     *)
(* cover (the code tests it when DBG is compiled in).                      *)
CoverHoldsLocalMusesOnly ==
    pc \in {"stack", "rotate"} =>
        \A i \in 1..Len(muses) : muses[i] \subseteq cover <=> i \in localMuses

(* "top is necessarily an MSS of subset" (comment in the code), for every  *)
(* call of unimusRec under way, although the map holds what rotations and  *)
(* refinements blocked, and block_up leaves constraints out.               *)
TopIsMssOfSubset ==
    pc = "loop" /\ frames # <<>> =>
        \A top \in TopUnexplored(frame.subset) :
            Sat(top) => \A c \in frame.subset \ top : ~Sat(top \cup {c})

(* The criticals a call was given, or found, are critical for its subset.  *)
InheritedCritsAreCritical ==
    \A i \in 1..Len(frames) : \A c \in frames[i].crits : Sat(frames[i].subset \ {c})

(* The enumeration ends.                                                   *)
Termination == <>(pc \in {"done", "exit"})
===========================================================================
