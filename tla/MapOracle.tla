----------------------------- MODULE MapOracle -----------------------------
(***************************************************************************)
(* What Explorer takes a solver of its map to be: clauses can be added,    *)
(* and a query under assumptions is answered with a model, which a         *)
(* polarity makes a maximal or a minimal one, or with "no model".          *)
(***************************************************************************)
EXTENDS Integers

CONSTANT dimension

Constraint == 1..dimension
MapLit == Constraint \cup {-c : c \in Constraint}

(* A subset of the constraints satisfies a literal, a clause. *)
Holds(f, l) == IF l > 0 THEN l \in f ELSE -l \notin f
HoldsAny(f, clause) == \E l \in clause : Holds(f, l)

(* The models of the clauses that agree with the assumptions. *)
ModelsOf(map, assumed) ==
    {f \in SUBSET Constraint : /\ \A cl \in map : HoldsAny(f, cl)
                               /\ \A l \in assumed : Holds(f, l)}

Maximal(family) == {f \in family : \A g \in family : f \subseteq g => g = f}
Minimal(family) == {f \in family : \A g \in family : g \subseteq f => g = f}

(* setPolarity: decisions set to true, to false, or to either. *)
Preferred(family, polarity) ==
    CASE polarity = "true" -> Maximal(family)
      [] polarity = "false" -> Minimal(family)
      [] polarity = "any" -> family

---------------------------------------------------------------------------
VARIABLES
    map,       \* the clauses added
    call,      \* the call under way
    answer     \* the answer to the last one

oracleVars == <<map, call, answer>>

NoCall == [op |-> "none"]
Reply(r) == call' = NoCall /\ answer' = r

Init == map = {} /\ call = NoCall /\ answer = [kind |-> "none"]

CallAdd(clause) ==
    /\ call = NoCall
    /\ map' = map \cup {clause}
    /\ call' = [op |-> "add"]
    /\ UNCHANGED answer

CallSolve(assumed, polarity) ==
    /\ call = NoCall
    /\ call' = [op |-> "solve", assumed |-> assumed, polarity |-> polarity]
    /\ UNCHANGED <<map, answer>>

(* addClause may report that there is no model left, but need not notice. *)
ReplyAdd ==
    /\ call.op = "add"
    /\ \/ Reply([kind |-> "added"])
       \/ ModelsOf(map, {}) = {} /\ Reply([kind |-> "inconsistent"])
    /\ UNCHANGED map

ReplySolve ==
    /\ call.op = "solve"
    /\ LET family == ModelsOf(map, call.assumed)
       IN  \/ family = {} /\ Reply([kind |-> "no model"])
           \/ \E f \in Preferred(family, call.polarity) :
                 Reply([kind |-> "model", model |-> f])
    /\ UNCHANGED map

Next ==
    \/ \E clause \in SUBSET MapLit : CallAdd(clause)
    \/ \E assumed \in SUBSET MapLit : \E polarity \in {"true", "false", "any"} :
          CallSolve(assumed, polarity)
    \/ ReplyAdd
    \/ ReplySolve

Spec == Init /\ [][Next]_oracleVars
===========================================================================
