------------------------------- MODULE Marco ------------------------------
(***************************************************************************)
(* MARCO (Master::marco_base): take a maximal unexplored subset; if it is  *)
(* satisfiable block it down, grown by the model, otherwise shrink it to a *)
(* MUS and block that up; until the map is empty.                          *)
(***************************************************************************)
EXTENDS Master

marcoVars == <<cnfVars, explorerVars, masterVars>>

Init == Parse /\ ExplorerInit /\ MasterInit

SeedSatisfiable ==
    /\ pc = "loop"
    /\ \E top \in TopUnexplored(Constraint) :
          /\ Sat(top)
          /\ \E grown \in Extensions(top) : BlockDown(grown)
    /\ UNCHANGED <<masterVars, testedForCriticality, cnfVars>>

SeedUnsatisfiable ==
    /\ pc = "loop"
    /\ \E top \in TopUnexplored(Constraint) :
          \E core \in Cores(top) : CallShrinkFormula(core, critical)
    /\ UNCHANGED <<cnfVars, explorerVars>>

MapExhausted ==
    /\ pc = "loop"
    /\ TopUnexplored(Constraint) = {}
    /\ pc' = "done"
    /\ UNCHANGED <<seed, crits, mus, muses, uni, limit, cnfVars, explorerVars>>

(* The process has ended. *)
Ended == pc \in {"done", "exit"} /\ UNCHANGED marcoVars

Next ==
    \/ Enumerate
    \/ SeedSatisfiable
    \/ SeedUnsatisfiable
    \/ MapExhausted
    \/ ShrinkFormula
    \/ MarkMus("loop")
    \/ Ended

Spec == Init /\ [][Next]_marcoVars

(* One thread, and every solver call returns: the program keeps running. *)
FairSpec == Spec /\ WF_marcoVars(Next)

---------------------------------------------------------------------------
(* Every variable has its type. *)
TypeOK ==
    /\ CnfTypeOK /\ ExplorerTypeOK /\ MasterTypeOK
    /\ pc \in {"start", "loop", "collect", "shrink", "mine", "mark", "done", "exit"}

(* What MARCO and its mining block down is maximal satisfiable, although   *)
(* block_up forgets the constraints known to be critical: so `mcses` holds *)
(* minimal correction sets only.                                           *)
BlockedDownAreMss == mcses \subseteq AllMcses

(* When the map is exhausted, MARCO has found every minimal correction set *)
(* too.                                                                    *)
AllMcsesFound == pc = "done" => mcses = AllMcses

RoundEnds == pc \in {"loop", "mark"} /\ pc' = "loop"

RoundExplores ==
    RoundEnds => UnexploredSets' \subseteq UnexploredSets /\ UnexploredSets' # UnexploredSets

(* Each turn of the loop rules out some set that was unexplored, the       *)
(* reason why the loop of marco_base ends.                                 *)
RoundsExplore == [][RoundExplores]_marcoVars

(* The enumeration ends.                                                   *)
Termination == <>(pc \in {"done", "exit"})
===========================================================================
