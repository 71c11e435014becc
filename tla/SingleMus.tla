----------------------------- MODULE SingleMus -----------------------------
(***************************************************************************)
(* One call of BooleanSolver::shrink with every value of --shrink.  The    *)
(* default one runs mcsmus (module Mcsmus) inside a try block and turns to *)
(* muser2 (module Shrink) whatever exception comes out of it: "mcsmus      *)
(* sometimes fails so we use muser instead".                               *)
(***************************************************************************)
EXTENDS Shrink, Sequences

CONSTANT McsesBound   \* how many correction sets Explorer may have found

ASSUME McsesBoundAssumption == McsesBound \in Nat

VARIABLES
    blockDowns, step, conflict, found, cs, blocks, mcs_witness, toTry, fixed,
    rotated, stack        \* mcsmus while it runs: see Mcsmus

Mc == INSTANCE Mcsmus WITH phase <- step, crits <- found

localVars == <<blockDowns, step, conflict, found, cs, blocks, mcs_witness, toTry,
               fixed, rotated, stack>>
callVars == <<shrinkVars, localVars>>

---------------------------------------------------------------------------
(* No mcsmus solver exists. *)
NoSolver ==
    /\ step = "none"
    /\ blockDowns = {} /\ conflict = {} /\ found = {} /\ cs = {} /\ blocks = {}
    /\ mcs_witness = {} /\ toTry = {} /\ fixed = {} /\ rotated = {} /\ stack = <<>>

CallInit ==
    \/ Init /\ NoSolver
    \/ Mc!Init /\ shrink_alg = "default" /\ phase = "mcsmus" /\ s = f /\ i = 1 /\ crits = given

Discard ==
    /\ step' = "none"
    /\ blockDowns' = {} /\ conflict' = {} /\ found' = {} /\ cs' = {} /\ blocks' = {}
    /\ mcs_witness' = {} /\ toTry' = {} /\ fixed' = {} /\ rotated' = {} /\ stack' = <<>>

(* --shrink is not "default", or mcsmus has thrown. *)
OtherAlgorithm == Next /\ phase # "returned" /\ UNCHANGED localVars

Mcsmus ==
    /\ phase = "mcsmus" /\ step # "returned"
    /\ Mc!Next
    /\ UNCHANGED <<shrink_alg, phase, s, i, crits>>

McsmusReturns ==
    /\ phase = "mcsmus" /\ step = "returned"
    /\ s' = Mc!mus
    /\ phase' = "returned"
    /\ Discard
    /\ UNCHANGED <<cnfVars, shrink_alg, f, given, i, crits>>

(* An exception, at any point: from here on the call is one with muser2.   *)
McsmusThrows ==
    /\ phase = "mcsmus" /\ step # "returned"
    /\ shrink_alg' = "muser" /\ phase' = "loop"
    /\ Discard
    /\ UNCHANGED <<cnfVars, f, given, s, i, crits>>

CallReturned == Returned /\ UNCHANGED localVars

CallNext == OtherAlgorithm \/ Mcsmus \/ McsmusReturns \/ McsmusThrows \/ CallReturned

CallSpec == CallInit /\ [][CallNext]_callVars

(* One thread; the solvers return, and so does muser2. *)
FairCallSpec == CallSpec /\ WF_callVars(CallNext)

---------------------------------------------------------------------------
(* Neither of the exceptions is thrown for which shrink falls back to      *)
(* muser2: no correction set is empty, and what is left after a minimal    *)
(* correction set has been dropped is unsatisfiable.                       *)
NeverFails == Mc!NeverFails

(* The blocks stay in the solver of mcsmus for good, where they could make *)
(* a later check unsatisfiable that is not; each has a critical, so it     *)
(* never does.                                                             *)
BlocksAreHarmless == Mc!BlocksAreHarmless

(* Every algorithm is an extraction: what is left only shrinks, it stays   *)
(* unsatisfiable, and what is taken for critical is critical from then on, *)
(* although the evidence is a core, a rotated model, a set of another      *)
(* search or a file.  Only an exception makes it start over.               *)
left == IF phase = "mcsmus" THEN Mc!mus ELSE s

needed ==
    CASE phase = "mcsmus" -> given \cup found
      [] phase = "loop" -> {c \in s : c < i} \cup crits
      [] phase \in {"file", "returned"} -> s

E == INSTANCE Extraction WITH rest <- left

ImplementsExtraction == E!Init /\ [][E!Next \/ McsmusThrows]_(E!extractionVars)
===========================================================================
