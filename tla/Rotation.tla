----------------------------- MODULE Rotation -----------------------------
(***************************************************************************)
(* One rotation of UNIMUS (unimusRec_propagateToUnsat and                  *)
(* unimusRec_propagateRefine): the literals of constraint c1 of the MUS m1 *)
(* are assumed false, and unit propagation over m1 and further constraints *)
(* of the cover runs until a clause is falsified or the queue is empty.    *)
(* The constraints used are collected in `conflict`; the superfluous ones  *)
(* among them are taken out again at the end.                              *)
(*                                                                         *)
(* The order of the hard clauses is that of the input file, which Cnf      *)
(* abstracts from: any order is possible.                                  *)
(***************************************************************************)
EXTENDS Cnf, Sequences

VARIABLES
    m1, c1,           \* the MUS and the constraint taken out of it
    within,            \* constraints that may be used
    known,            \* the local MUSes
    phase,            \* "propagate", "seed" (found) or "none"
    conflict,         \* the seed under construction
    toPropagate,      \* queue of literals
    implied,          \* <<kind, clause, literal>> in order of implication
    setup,            \* variables that have a value
    satisfied,        \* soft and hard clauses seen to be satisfied
    hard_satisfied,
    lits_left,        \* literals not yet falsified
    hard_lits_left,
    visit,            \* constraints and hard clauses the literal just taken
    hard_visit        \*   from the queue falsifies a literal of, to be visited

givenVars == <<clauses, hard_clauses, m1, c1, within, known>>
propagateVars == <<givenVars, phase, conflict, toPropagate, implied, setup, satisfied,
                  hard_satisfied, lits_left, hard_lits_left, visit, hard_visit>>

base == m1 \ {c1}

MusesIn(f) == {n \in SUBSET f : IsMus(n)}

(* The negated literals of a clause, in the order of the (sorted) clause.  *)
NegatedInOrder(clause) ==
    {q \in [1..Cardinality(clause) -> {-l : l \in clause}] :
        \A j \in DOMAIN q : \A i \in 1..j - 1 : q[i] > q[j]}

(* The rotation is called for a MUS in an unsatisfiable cover, when some   *)
(* of the MUSes in there, this one included, are known.                    *)
RotationInit ==
    /\ Parse
    /\ within \in {f \in SUBSET Constraint : ~Sat(f)}
    /\ m1 \in MusesIn(within) /\ c1 \in m1
    /\ known \in {k \in SUBSET MusesIn(within) : m1 \in k}
    /\ phase = "propagate"
    /\ conflict = base
    /\ toPropagate \in NegatedInOrder(clauses[c1])
    /\ implied = [i \in 1..Len(toPropagate) |-> <<"soft", c1, toPropagate[i]>>]
    /\ setup = {} /\ satisfied = {} /\ hard_satisfied = {}
    /\ lits_left = [d \in Constraint |-> Cardinality(clauses[d])]
    /\ hard_lits_left = [h \in hard_clauses |-> Cardinality(h)]
    /\ visit = {} /\ hard_visit = {}

VarOf(l) == IF l > 0 THEN l ELSE -l

(* Mutant: d itself counts as a member that is still missing.              *)
AvailableCountingItself(d) ==
    \A n \in known : d \in n \ m1 => \E e \in n \ m1 : e \notin conflict

(* unimusRec_add_block, unimusRec_isAvailable: adding d completes no known *)
(* MUS; what they have in common with m1 is not looked at.                 *)
Available(d) ==
    \A n \in known : d \in n \ m1 => \E e \in n \ m1 : e # d /\ e \notin conflict

Visiting == visit # {} \/ hard_visit # {}

SetUp(l) ==
    /\ setup' = setup \cup {VarOf(l)}
    /\ satisfied' = satisfied \cup {d \in Constraint : l \in clauses[d]}
    /\ hard_satisfied' = hard_satisfied \cup {h \in hard_clauses : l \in h}
    /\ visit' = {d \in within \ {c1} : -l \in clauses[d] /\ d \notin satisfied'}
    /\ hard_visit' = {h \in hard_clauses : -l \in h /\ h \notin hard_satisfied'}

NothingSetUp == UNCHANGED <<setup, satisfied, hard_satisfied, visit, hard_visit>>

(* Mutant: `continue` comes before the literal is taken from the queue.    *)
PopOnlyFresh ==
    /\ phase = "propagate" /\ ~Visiting /\ toPropagate # <<>>
    /\ IF VarOf(Head(toPropagate)) \in setup
          THEN NothingSetUp /\ UNCHANGED toPropagate
          ELSE SetUp(Head(toPropagate)) /\ toPropagate' = Tail(toPropagate)
    /\ UNCHANGED <<givenVars, phase, conflict, implied, lits_left, hard_lits_left>>

(* Take a literal from the queue, unless its variable has a value.         *)
Pop ==
    /\ phase = "propagate" /\ ~Visiting /\ toPropagate # <<>>
    /\ IF VarOf(Head(toPropagate)) \in setup THEN NothingSetUp ELSE SetUp(Head(toPropagate))
    /\ toPropagate' = Tail(toPropagate)
    /\ UNCHANGED <<givenVars, phase, conflict, implied, lits_left, hard_lits_left>>

Unset(clause) == {l \in clause : VarOf(l) \notin setup}

Imply(kind, d, l) ==
    /\ toPropagate' = Append(toPropagate, l)
    /\ implied' = Append(implied, <<kind, d, l>>)

NothingImplied == UNCHANGED <<toPropagate, implied>>

---------------------------------------------------------------------------
(* unimusRec_propagateRefine *)

ClauseOf(entry) == IF entry[1] = "soft" THEN clauses[entry[2]] ELSE entry[2]

NameOf(entry) == <<entry[1], entry[2]>>

(* Some later entry that was kept contains the negated literal of entry i. *)
Needed(list, i, dropped) ==
    \E j \in i + 1 .. Len(list) :
        NameOf(list[j]) \notin dropped /\ -list[i][3] \in ClauseOf(list[j])

Stays(list, i, dropped) ==
    \/ Needed(list, i, dropped)
    \/ NameOf(list[i]) = NameOf(list[Len(list)])
    \/ list[i][1] = "soft" /\ list[i][2] \in base

(* The clauses dropped once the entries from the last down to i were seen. *)
DroppedFrom(list) ==
    LET down[i \in 1..Len(list)] ==
            IF i = Len(list) THEN {}
            ELSE down[i + 1] \cup (IF Stays(list, i, down[i + 1]) THEN {} ELSE {NameOf(list[i])})
    IN  down

Dropped(list) == DroppedFrom(list)[1]

Refined(f, list) == {d \in f : <<"soft", d>> \notin Dropped(list)}

Conflict(kind, d, f) ==
    /\ implied' = Append(implied, <<kind, d, 0>>)
    /\ conflict' = Refined(f, implied')
    /\ phase' = "seed"
    /\ toPropagate' = <<>> /\ visit' = {} /\ hard_visit' = {}

---------------------------------------------------------------------------
(* The clauses in which the literal just set up is false, hard ones first, *)
(* constraints in order: each has one literal less to go.                  *)

NextHard(h) ==
    /\ phase = "propagate" /\ h \in hard_visit
    /\ hard_lits_left' = [hard_lits_left EXCEPT ![h] = @ - 1]
    /\ UNCHANGED <<givenVars, setup, satisfied, hard_satisfied, lits_left>>

HardFalsified ==
    \E h \in hard_visit : NextHard(h) /\ hard_lits_left[h] = 1 /\ Conflict("hard", h, conflict)

HardVisited ==
    \E h \in hard_visit :
        /\ NextHard(h) /\ hard_lits_left[h] # 1
        /\ IF hard_lits_left[h] = 2 THEN \E l \in Unset(h) : Imply("hard", h, l)
                                    ELSE NothingImplied
        /\ hard_visit' = hard_visit \ {h}
        /\ UNCHANGED <<visit, phase, conflict>>

NextSoft(d) ==
    /\ phase = "propagate" /\ hard_visit = {}
    /\ d \in visit /\ \A e \in visit : d <= e
    /\ lits_left' = [lits_left EXCEPT ![d] = @ - 1]
    /\ UNCHANGED <<givenVars, setup, satisfied, hard_satisfied, hard_lits_left>>

SoftFalsified ==
    \E d \in visit :
        NextSoft(d) /\ lits_left[d] = 1 /\ Available(d) /\ Conflict("soft", d, conflict \cup {d})

(* The loop that looks for the literal of a unit clause stops at what it   *)
(* takes for the activation literal, any lit >= vars: the positive literal *)
(* of the last variable, which sorting puts right before the activation    *)
(* literal, is never found.  The constraint joins the seed all the same.   *)
SoftUnit ==
    \E d \in visit :
        /\ NextSoft(d) /\ lits_left[d] = 2 /\ Available(d)
        /\ conflict' = conflict \cup {d}
        /\ IF Unset(clauses[d]) = {vars}
              THEN NothingImplied
              ELSE \E l \in Unset(clauses[d]) : Imply("soft", d, l)
        /\ visit' = visit \ {d}
        /\ UNCHANGED <<hard_visit, phase>>

SoftPassed ==
    \E d \in visit :
        /\ NextSoft(d) /\ (lits_left[d] > 2 \/ ~Available(d))
        /\ visit' = visit \ {d}
        /\ UNCHANGED <<hard_visit, phase, conflict>> /\ NothingImplied

(* The queue is empty: no seed. *)
GiveUp ==
    /\ phase = "propagate" /\ ~Visiting /\ toPropagate = <<>>
    /\ phase' = "none"
    /\ UNCHANGED <<givenVars, conflict, toPropagate, implied, setup, satisfied>>
    /\ UNCHANGED <<hard_satisfied, lits_left, hard_lits_left, visit, hard_visit>>

Returned == phase # "propagate" /\ UNCHANGED propagateVars

RotationNext ==
    \/ Pop \/ HardFalsified \/ HardVisited \/ SoftFalsified \/ SoftUnit \/ SoftPassed
    \/ GiveUp \/ Returned

RotationSpec == RotationInit /\ [][RotationNext]_propagateVars

(* The function is a loop of one thread. *)
FairRotation == RotationSpec /\ WF_propagateVars(RotationNext)

---------------------------------------------------------------------------
(* A seed that is returned is what UNIMUS may rely on: it extends the rest *)
(* of m1 inside the cover, is unsatisfiable even after the refinement took *)
(* constraints out again, and contains no MUS known in the cover.          *)
SeedAsPromised == phase = "seed" => conflict \in RotationSeeds(m1, c1, within, known)

(* Constraints enter the seed because they imply a literal or are          *)
(* falsified: the code records each in `implied`, where the refinement     *)
(* finds it ("the activation literal", says the comment on the only break).*)
EachHasAReason == \A d \in conflict \ base : \E i \in DOMAIN implied :
                      implied[i][1] = "soft" /\ implied[i][2] = d

(* The propagation ends. *)
PropagationEnds == <>(phase # "propagate")
===========================================================================
