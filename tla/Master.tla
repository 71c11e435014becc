------------------------------ MODULE Master ------------------------------
(***************************************************************************)
(* Master: what the four enumeration algorithms share.  shrink_formula     *)
(* turns an unsatisfiable seed into a MUS and pushes it on `muses`;        *)
(* mark_MUS reports it and blocks it in the map.  One call is a walk       *)
(*    "collect" -> "shrink" -> "mine" -> "mark"                            *)
(* of the program counter, with the early returns of the code going from   *)
(* "collect" straight to "mark".  The algorithm that called goes on at the *)
(* control point it passes to MarkMus.                                     *)
(***************************************************************************)
EXTENDS Explorer, Sequences

CONSTANTS
    get_implies,         \* --get-implied: use criticals known from the map
    criticals_rotation   \* --criticals-rotation

ASSUME FlagsAssumption == get_implies \in BOOLEAN /\ criticals_rotation \in BOOLEAN

(* The k constraints of f that come first. *)
FirstOf(f, k) == {c \in f : Cardinality({d \in f : d < c}) < k}

VARIABLES
    pc,      \* control point of the single thread
    seed,    \* parameter f of shrink_formula
    crits,   \* parameter and local crits of shrink_formula
    mus,     \* the MUS found by the current call
    muses,   \* Master::muses, every MUS found so far
    uni,     \* union of the marked MUSes
    limit    \* local limit of the mining loop

masterVars == <<pc, seed, crits, mus, muses, uni, limit>>

MasterTypeOK ==
    /\ seed \in SUBSET Constraint
    /\ crits \in SUBSET Constraint
    /\ mus \in SUBSET Constraint
    /\ muses \in Seq(SUBSET Constraint)
    /\ uni \in SUBSET Constraint
    /\ limit \in Int

MasterInit ==
    /\ pc = "start"
    /\ seed = {}
    /\ crits = {}
    /\ mus = {}
    /\ muses = <<>>
    /\ uni = {}
    /\ limit = 0

(* Master::enumerate: a satisfiable input ends the run through print_err. *)
Enumerate ==
    /\ pc = "start"
    /\ pc' = IF Sat(Constraint) THEN "exit" ELSE "loop"
    /\ UNCHANGED <<seed, crits, mus, muses, uni, limit>>
    /\ UNCHANGED <<cnfVars, explorerVars>>

---------------------------------------------------------------------------
(* shrink_formula *)

(* The call: pc goes to "collect" with f and the criticals of the caller. *)
CallShrinkFormula(f, knownCrits) ==
    /\ pc' = "collect"
    /\ seed' = f
    /\ crits' = knownCrits
    /\ UNCHANGED <<mus, muses, uni, limit>>

KnownCrits ==
    LET implied == Implied(crits, seed)
        rotated == IF criticals_rotation THEN CriticalsRotation(implied, seed)
                                         ELSE implied
    IN  IF get_implies THEN CriticalExtension(rotated, seed) ELSE crits

Push(m) == mus' = m /\ muses' = Append(muses, m)

(* Every constraint of the seed is critical, so the seed is a MUS. *)
EachIsCritical(known) == get_implies /\ Cardinality(known) = Cardinality(seed)

(* All but at most two constraints are critical, and those are enough. *)
CritsSuffice(known) ==
    /\ get_implies
    /\ Cardinality(known) # Cardinality(seed)
    /\ Cardinality(seed) - Cardinality(known) < 3
    /\ ~Sat(known)

CollectCrits ==
    /\ pc = "collect"
    /\ \E known \in {KnownCrits} :
          /\ crits' = known
          /\ \/ EachIsCritical(known) /\ Push(seed) /\ pc' = "mark"
             \/ CritsSuffice(known) /\ Push(known) /\ pc' = "mark"
             \/ /\ ~EachIsCritical(known) /\ ~CritsSuffice(known)
                /\ pc' = "shrink"
                /\ UNCHANGED <<mus, muses>>
    /\ UNCHANGED <<seed, uni, limit>>
    /\ UNCHANGED <<cnfVars, explorerVars>>

MiningQuota == Cardinality(mus_intersection) \div 10

(* The mining loop runs when at least three MUSes are known and the        *)
(* measured cost of a satisfiable check is low: any boolean.               *)
Shrink ==
    /\ pc = "shrink"
    /\ \E m \in ShrinkResults(seed, crits) : Push(m)
    /\ \E cheap_sat_checks \in BOOLEAN :
          IF Len(muses') > 2 /\ cheap_sat_checks
             THEN pc' = "mine" /\ limit' = MiningQuota
             ELSE pc' = "mark" /\ UNCHANGED limit
    /\ UNCHANGED <<seed, crits, uni>>
    /\ UNCHANGED <<cnfVars, explorerVars>>

MiningCandidates ==
    {c \in mus \cap mus_intersection : c \notin testedForCriticality \cup critical}

(* One candidate c, lowest index first: the set of all constraints but c   *)
(* is blocked down if it is satisfiable.                                   *)
Mine ==
    /\ pc = "mine"
    /\ \E c \in MiningCandidates :
          /\ \A d \in MiningCandidates : c <= d
          /\ IF Sat(Constraint \ {c})
                THEN BlockDown(Constraint \ {c})
                ELSE UNCHANGED <<mcses, critical, blocked_muses, mus_intersection,
                                 solver, topSolver, botSolver>>
          /\ testedForCriticality' = testedForCriticality \cup {c}
    /\ limit' = limit - 1
    /\ pc' = IF limit < 0 THEN "mark" ELSE "mine"
    /\ UNCHANGED <<seed, crits, mus, muses, uni, cnfVars>>

MineEnd ==
    /\ pc = "mine"
    /\ MiningCandidates = {}
    /\ pc' = "mark"
    /\ UNCHANGED <<seed, crits, mus, muses, uni, limit>>
    /\ UNCHANGED <<cnfVars, explorerVars>>

ShrinkFormula == CollectCrits \/ Shrink \/ Mine \/ MineEnd

---------------------------------------------------------------------------
(* mark_MUS, and the return to control point next of the algorithm; the    *)
(* locals of shrink_formula are gone.                                      *)
MarkMus(next) ==
    /\ pc = "mark"
    /\ uni' = uni \cup mus
    /\ BlockUp(mus)
    /\ pc' = next
    /\ seed' = {} /\ crits' = {} /\ mus' = {} /\ limit' = 0
    /\ UNCHANGED <<muses, testedForCriticality, cnfVars>>

---------------------------------------------------------------------------
(* The tool is an online enumeration of the MUSes: what shrink_formula     *)
(* pushes on `muses` is always a MUS, never one pushed before, and main    *)
(* ends only when every MUS of the input has been pushed.                  *)
Abstract == INSTANCE MusEnumeration
                WITH reported <- muses, complete <- pc \in {"done", "exit"}

EnumeratesMuses == Abstract!EnumSpec

(* When the shrinker is called, every constraint it is told to be critical *)
(* (from the map, by extension or by rotation) really is: without it the   *)
(* seed is satisfiable.  The shrinkers never test those constraints, so a  *)
(* wrong one ends up in a MUS that is not minimal.                         *)
CritsAreCritical == pc = "shrink" => \A c \in crits : Sat(seed \ {c})

(* No work is repeated: shrink_formula is only asked about a seed that the *)
(* map has not ruled out (the check of Master.cpp that DBG compiles in),   *)
(* and the MUS it pushes is unexplored until mark_MUS blocks it up,        *)
(* whatever the mining loop blocks down in between.                        *)
WorkIsNew ==
    /\ pc \in {"collect", "shrink"} => Unexplored(seed)
    /\ pc \in {"mine", "mark"} => Unexplored(mus)
===========================================================================
