------------------------------- MODULE Tome -------------------------------
(***************************************************************************)
(* TOME (Master::find_all_muses_tome): take a minimal unexplored subset    *)
(* and a maximal one above it; when the lower one is satisfiable and the   *)
(* upper one is not, search between them for two neighbours of which only  *)
(* the larger is unsatisfiable (local_mus), shrink that and block down the *)
(* other.  The lower one, if unsatisfiable, is taken for a MUS as it is.   *)
(***************************************************************************)
EXTENDS Master

VARIABLES
    bot,   \* bot and, once local_mus returned, mss
    top,   \* top and, once local_mus returned, fmus
    diff   \* parameter diff of local_mus

searchVars == <<bot, top, diff>>
tomeVars == <<cnfVars, explorerVars, masterVars, searchVars>>

Init ==
    /\ Parse /\ ExplorerInit /\ MasterInit
    /\ bot = {} /\ top = {} /\ diff = 0

Start == Enumerate /\ UNCHANGED searchVars

MapExhausted ==
    /\ pc = "loop"
    /\ BotUnexplored = {}
    /\ pc' = "done"
    /\ UNCHANGED <<seed, crits, mus, muses, uni, limit, cnfVars, explorerVars, searchVars>>

(* A satisfiable top is blocked down as it is, without growing. *)
TopSatisfiable ==
    /\ pc = "loop"
    /\ \E b \in BotUnexplored : \E t \in TopAbove(b) : Sat(t) /\ BlockDown(t)
    /\ UNCHANGED <<masterVars, testedForCriticality, cnfVars, searchVars>>

(* An unsatisfiable bot is pushed and marked without a shrink. *)
BotUnsatisfiable ==
    /\ pc = "loop"
    /\ \E b \in BotUnexplored : \E t \in TopAbove(b) :
          /\ ~Sat(t) /\ ~Sat(b)
          /\ muses' = Append(muses, b)
          /\ uni' = uni \cup b
          /\ BlockUp(b)
    /\ UNCHANGED <<pc, seed, crits, mus, limit, testedForCriticality, cnfVars, searchVars>>

StartSearch ==
    /\ pc = "loop"
    /\ \E b \in BotUnexplored : \E t \in TopAbove(b) :
          /\ ~Sat(t) /\ Sat(b)
          /\ bot' = b /\ top' = t
          /\ diff' = Cardinality(t) - Cardinality(b)
    /\ pc' = "search"
    /\ UNCHANGED <<seed, crits, mus, muses, uni, limit, cnfVars, explorerVars>>

---------------------------------------------------------------------------
(* local_mus *)

(* How many constraints the loop adds before it breaks: at least one, and  *)
(* half of diff when there are that many.                                  *)
Ones == IF diff \div 2 > 1 THEN diff \div 2 ELSE 1

Pivot == bot \cup FirstOf(top \ bot, Ones)

SearchUp ==
    /\ pc = "search" /\ diff # 1
    /\ Sat(Pivot)
    /\ bot' = Pivot
    /\ diff' = diff - Ones
    /\ UNCHANGED <<top, masterVars, cnfVars, explorerVars>>

(* Mutant: diff is halved instead of set to the number of added ones.      *)
SearchDownHalf ==
    /\ pc = "search" /\ diff # 1
    /\ ~Sat(Pivot)
    /\ top' = Pivot
    /\ diff' = (diff + 1) \div 2
    /\ UNCHANGED <<bot, masterVars, cnfVars, explorerVars>>

SearchDown ==
    /\ pc = "search" /\ diff # 1
    /\ ~Sat(Pivot)
    /\ top' = Pivot
    /\ diff' = Ones
    /\ UNCHANGED <<bot, masterVars, cnfVars, explorerVars>>

SearchFound ==
    /\ pc = "search" /\ diff = 1
    /\ \E core \in Cores(top) : CallShrinkFormula(core, critical)
    /\ UNCHANGED <<searchVars, cnfVars, explorerVars>>

Shrinking == ShrinkFormula /\ UNCHANGED searchVars

Mark == MarkMus("mss") /\ UNCHANGED searchVars

BlockDownMss ==
    /\ pc = "mss"
    /\ BlockDown(bot)
    /\ pc' = "loop"
    /\ bot' = {} /\ top' = {} /\ diff' = 0
    /\ UNCHANGED <<seed, crits, mus, muses, uni, limit, testedForCriticality, cnfVars>>

Ended == pc \in {"done", "exit"} /\ UNCHANGED tomeVars

Next ==
    \/ Start \/ MapExhausted \/ TopSatisfiable \/ BotUnsatisfiable \/ StartSearch
    \/ SearchUp \/ SearchDown \/ SearchFound
    \/ Shrinking \/ Mark \/ BlockDownMss
    \/ Ended

Spec == Init /\ [][Next]_tomeVars

(* One thread, and every solver call returns: the program keeps running. *)
FairSpec == Spec /\ WF_tomeVars(Next)

---------------------------------------------------------------------------
(* Every variable has its type. *)
TypeOK ==
    /\ CnfTypeOK /\ ExplorerTypeOK /\ MasterTypeOK
    /\ bot \in SUBSET Constraint /\ top \in SUBSET Constraint /\ diff \in Int
    /\ pc \in {"start", "loop", "search", "collect", "shrink", "mine", "mark", "mss",
               "done", "exit"}

(* During local_mus the answer stays bracketed: bot is satisfiable and top *)
(* is not, both are unexplored though top came from the solver that lacks  *)
(* the clauses of block_down, and diff is exactly the distance, so the     *)
(* search stops at neighbours.                                             *)
SearchBrackets ==
    pc = "search" =>
        /\ bot \subseteq top /\ Sat(bot) /\ ~Sat(top)
        /\ Unexplored(bot) /\ Unexplored(top)
        /\ diff = Cardinality(top \ bot)

(* A satisfiable top that is blocked down without growing is an MSS        *)
(* although the solver it came from lacks the clauses of block_down.       *)
TopIsMss ==
    pc = "loop" =>
        \A b \in BotUnexplored : \A t \in TopAbove(b) : Sat(t) => IsMss(t)

(* The enumeration ends.                                                   *)
Termination == <>(pc \in {"done", "exit"})
===========================================================================
