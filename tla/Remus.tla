------------------------------ MODULE Remus -------------------------------
(***************************************************************************)
(* ReMUS (Master::find_all_muses_duality_based_remus): MARCO on a subset   *)
(* of the constraints, calling itself on smaller subsets: after a MUS, on  *)
(* a part of the seed around it; after an MSS of the subset, on the MSS    *)
(* and one more constraint, for each of those missing from it.  A call     *)
(* inherits the constraints known to be critical for its subset, and gives *)
(* up after a streak of satisfiable seeds.                                 *)
(***************************************************************************)
EXTENDS Master

CONSTANTS
    depthMUS,       \* --max-recursion-depth
    dim_reduction,  \* --dimension-reduction-coefficient, in percent
    streakLimit     \* satisfiable seeds in a row a call accepts (10 in the code)

ASSUME RemusAssumption ==
    depthMUS \in Nat /\ dim_reduction \in 0..100 /\ streakLimit \in Nat

VARIABLE frames     \* the calls under way, the innermost last

remusVars == <<cnfVars, explorerVars, masterVars, frames>>

(* The locals of a call; crit_all holds the constraints the for loop has   *)
(* still to visit.                                                         *)
NewFrame(subset, cr) ==
    [subset |-> subset, crits |-> cr, streak |-> 0, origin_top |-> {}, crit_all |-> {}]

Frame == [subset : SUBSET Constraint, crits : SUBSET Constraint, streak : Nat,
          origin_top : SUBSET Constraint, crit_all : SUBSET Constraint]

depth == Len(frames) - 1
frame == frames[Len(frames)]
callers == SubSeq(frames, 1, Len(frames) - 1)
WithFrame(f) == Append(callers, f)

Init == Parse /\ ExplorerInit /\ MasterInit /\ frames = <<>>

Start ==
    /\ Enumerate
    /\ frames' = IF pc' = "loop" THEN <<NewFrame(Constraint, {})>> ELSE <<>>

Return ==
    /\ frames' = callers
    /\ pc' = IF depth = 0 THEN "done" ELSE "loop"
    /\ UNCHANGED <<seed, crits, mus, muses, uni, limit>>

AskingForSeed == pc = "loop" /\ frame.crit_all = {}

SubsetExhausted ==
    /\ AskingForSeed
    /\ TopUnexplored(frame.subset) = {}
    /\ Return
    /\ UNCHANGED <<cnfVars, explorerVars>>

SeedUnsatisfiable ==
    /\ AskingForSeed
    /\ \E top \in TopUnexplored(frame.subset) :
          /\ \E core \in Cores(top) : CallShrinkFormula(core, frame.crits)
          /\ frames' = WithFrame([frame EXCEPT !.streak = 0, !.origin_top = top])
    /\ UNCHANGED <<cnfVars, explorerVars>>

Shrinking == ShrinkFormula /\ UNCHANGED frames

(* extend_mus: the first constraints of top are added, one at least, until *)
(* the given share of top is reached.                                      *)
ExtendMus(top, m) ==
    LET missing == (Cardinality(top) * dim_reduction + 99) \div 100 - Cardinality(m)
    IN  m \cup FirstOf(top \ m, IF missing > 1 THEN missing ELSE 1)

(* The MUS is blocked, and the call recurses around it. *)
MarkAndRecurse ==
    /\ MarkMus("loop")
    /\ LET rest == WithFrame([frame EXCEPT !.origin_top = {}])
       IN  frames' = IF depth > depthMUS
                        THEN rest
                        ELSE Append(rest, NewFrame(ExtendMus(frame.origin_top, mus), frame.crits))

(* A small subset in which only satisfiable seeds are left is abandoned.   *)
StreakEnds ==
    /\ AskingForSeed
    /\ \E top \in TopUnexplored(frame.subset) : Sat(top)
    /\ frame.streak + 1 > streakLimit /\ depth > 0
    /\ Return
    /\ UNCHANGED <<cnfVars, explorerVars>>

(* Mutant: whatever an MSS misses is taken to be critical.                 *)
AfterMssAllCritical(top) ==
    [frame EXCEPT !.streak = @ + 1, !.crits = @ \cup (frame.subset \ top)]

(* The seed is an MSS of the subset; the one constraint it misses is       *)
(* critical, or each of several is tried in a call of its own.             *)
AfterMss(top) ==
    LET missing == frame.subset \ top
        next == [frame EXCEPT !.streak = @ + 1]
    IN  IF Cardinality(missing) = 1 THEN [next EXCEPT !.crits = @ \cup missing]
        ELSE IF depth > depthMUS \/ missing = {} THEN next
        ELSE [next EXCEPT !.origin_top = top, !.crit_all = missing]

SeedSatisfiable ==
    /\ AskingForSeed
    /\ ~(frame.streak + 1 > streakLimit /\ depth > 0)
    /\ \E top \in TopUnexplored(frame.subset) :
          /\ Sat(top)
          /\ \E grown \in Extensions(top) : BlockDown(grown)
          /\ frames' = WithFrame(AfterMss(top))
    /\ UNCHANGED <<masterVars, testedForCriticality, cnfVars>>

(* Mutant: the for loop does not go on to the next constraint.             *)
RecurseOnMssAgain ==
    /\ pc = "loop" /\ frame.crit_all # {}
    /\ \E c \in frame.crit_all :
          frames' = Append(frames, NewFrame(frame.origin_top \cup {c}, frame.crits \cup {c}))
    /\ UNCHANGED <<masterVars, cnfVars, explorerVars>>

(* One turn of the for loop over crit_all. *)
RecurseOnMss ==
    /\ pc = "loop" /\ frame.crit_all # {}
    /\ \E c \in frame.crit_all :
          /\ \A d \in frame.crit_all : c <= d
          /\ LET left == frame.crit_all \ {c}
                 rest == [frame EXCEPT !.crit_all = left,
                                       !.origin_top = IF left = {} THEN {} ELSE @]
             IN  frames' = Append(WithFrame(rest),
                                  NewFrame(frame.origin_top \cup {c}, frame.crits \cup {c}))
    /\ UNCHANGED <<masterVars, cnfVars, explorerVars>>

Ended == pc \in {"done", "exit"} /\ UNCHANGED remusVars

Next ==
    \/ Start \/ SubsetExhausted \/ SeedUnsatisfiable \/ Shrinking \/ MarkAndRecurse
    \/ StreakEnds \/ SeedSatisfiable \/ RecurseOnMss
    \/ Ended

Spec == Init /\ [][Next]_remusVars

(* One thread, and every solver call returns: the program keeps running. *)
FairSpec == Spec /\ WF_remusVars(Next)

---------------------------------------------------------------------------
(* Every variable has its type. *)
TypeOK ==
    /\ CnfTypeOK /\ ExplorerTypeOK /\ MasterTypeOK
    /\ frames \in Seq(Frame)
    /\ pc \in {"start", "loop", "collect", "shrink", "mine", "mark", "done", "exit"}

(* "top is necessarily an MSS of subset" (comment in the code): true for   *)
(* every call under way, though the map holds what other calls blocked and *)
(* what block_up left out.  The recursion and the new criticals rest on it.*)
TopIsMssOfSubset ==
    pc = "loop" =>
        \A top \in TopUnexplored(frame.subset) :
            Sat(top) => \A c \in frame.subset \ top : ~Sat(top \cup {c})

(* The criticals a call was given, or found, are critical for its subset   *)
(* as long as the call is under way.                                       *)
InheritedCritsAreCritical ==
    \A i \in 1..Len(frames) : \A c \in frames[i].crits : Sat(frames[i].subset \ {c})

(* The enumeration ends.                                                   *)
Termination == <>(pc \in {"done", "exit"})
===========================================================================
