---------------------------- MODULE GlucoseHandle --------------------------
(***************************************************************************)
(* The solver of --sat-solver glucose, from the file to the answers:       *)
(* BooleanSolver::parse reads the lines, the constructor of GlucoseHandle  *)
(* gives SimpSolver every constraint together with a control variable,     *)
(* solve assumes the control variables and reads model or final conflict.  *)
(***************************************************************************)
EXTENDS Cnf, SequencesExt

CONSTANTS
    Files,         \* the files: sequences of lines [group, text]
    Checks,        \* the calls of solve: [f, core, grow]
    CheckBound,    \* how many of them
    growth,
    clause_lim

ASSUME BoundsAssumption == CheckBound \in Nat /\ growth \in Nat /\ clause_lim \in Nat
ASSUME ChecksAssumption == Checks \subseteq [f : SUBSET Constraint, core : BOOLEAN, grow : BOOLEAN]

(* The soft lines of a file that repeat no text: dimension of them. *)
NewSoft(text) == {n \in DOMAIN text : /\ text[n].group # 0
                                     /\ \A k \in 1..n - 1 : text[k].text # text[n].text}

ASSUME FilesAssumption ==
    \A text \in Files : /\ text \in Seq([group : Int, text : Seq(Lit)])
                        /\ Cardinality(NewSoft(text)) = dimension

VARIABLES
    file,                  \* what is being read
    lines,                 \* lines not read yet
    clauses_str,           \* the soft clauses, as text
    hard_clauses_str,      \* the hard ones
    clauses_unique_map,    \* texts seen
    encoded,               \* how many clauses the solver has been given
    checks,                \* calls of solve so far
    query, answer,         \* what the caller sees, see SatOracle
    ok, db, learnts, trail, swept, touched, queue, heap, frozen, elimclauses, elim,
    assumptions, model, conflict, step      \* see SimpSolver

S == INSTANCE SimpSolver WITH nVars <- vars + dimension
O == INSTANCE SatOracle

fileVars == <<file, lines, clauses_str, hard_clauses_str, clauses_unique_map>>
solverVars == <<ok, db, learnts, trail, swept, touched, queue, heap, frozen, elimclauses,
                elim, assumptions, model, conflict, step>>
handleVars == <<cnfVars, fileVars, encoded, checks, query, answer, solverVars>>

---------------------------------------------------------------------------
(* parse.  The text of a line is the sequence of its literals, group -1    *)
(* stands for a line without one.                                          *)
Reading == query.kind = "parse"

Init ==
    /\ file \in Files /\ lines = file
    /\ clauses_str = <<>> /\ hard_clauses_str = <<>> /\ clauses_unique_map = {}
    /\ clauses = <<>> /\ hard_clauses = {}
    /\ encoded = 0 /\ checks = 0
    /\ query = [kind |-> "parse"] /\ answer = [kind |-> "none"]
    /\ S!Init

Line == Head(lines)
Seen == Line.text \in clauses_unique_map

(* Mutant: what has been seen is skipped, whatever it is. *)
KeptHardOnce(text) == IF Seen THEN hard_clauses_str ELSE Append(hard_clauses_str, text)

(* A group {0} line is kept, also when its text has been seen. *)
KeptHard(text) == Append(hard_clauses_str, text)

ReadHard ==
    /\ Reading /\ lines # <<>> /\ Line.group = 0
    /\ hard_clauses_str' = KeptHard(Line.text)
    /\ clauses_unique_map' = clauses_unique_map \cup {Line.text}
    /\ lines' = Tail(lines)
    /\ UNCHANGED <<file, clauses_str, cnfVars, encoded, checks, query, answer, solverVars>>

(* Any other line becomes a constraint of its own, unless the text has     *)
(* been seen, in a soft line or in a hard one.                             *)
ReadSoft ==
    /\ Reading /\ lines # <<>> /\ Line.group # 0
    /\ clauses_str' = IF Seen THEN clauses_str ELSE Append(clauses_str, Line.text)
    /\ clauses_unique_map' = clauses_unique_map \cup {Line.text}
    /\ lines' = Tail(lines)
    /\ UNCHANGED <<file, hard_clauses_str, cnfVars, encoded, checks, query, answer, solverVars>>

ParseEnds ==
    /\ Reading /\ lines = <<>>
    /\ clauses' = [c \in 1..Len(clauses_str) |-> ToSet(clauses_str[c])]
    /\ hard_clauses' = {ToSet(hard_clauses_str[h]) : h \in DOMAIN hard_clauses_str}
    /\ query' = O!NoQuery
    /\ UNCHANGED <<fileVars, encoded, checks, answer, solverVars>>

---------------------------------------------------------------------------
Control(c) == vars + c

(* The clauses in the order in which the constructor adds them. *)
Encoding ==
    [c \in DOMAIN clauses |-> clauses[c] \cup {Control(c)}]
        \o [h \in DOMAIN hard_clauses_str |-> ToSet(hard_clauses_str[h])]

Constructed == ~Reading /\ encoded = Len(Encoding)

(* The result of addClause is ignored; ok FALSE stays. *)
Encode ==
    /\ ~Reading /\ ~Constructed
    /\ IF ok THEN S!AddClause(Encoding[encoded + 1])
       ELSE UNCHANGED <<ok, db, trail, queue, touched>>
    /\ encoded' = encoded + 1
    /\ UNCHANGED <<cnfVars, fileVars, checks, query, answer, learnts, swept, heap, frozen,
                   elimclauses, elim, assumptions, model, conflict, step>>

(* solve: a constraint outside f is switched off, one in f is not. *)
Solve ==
    /\ Constructed /\ query.kind = "none" /\ checks < CheckBound
    /\ \E check \in Checks :
          /\ query' = O!Check(check.f, check.core, check.grow)
          /\ S!Solve({-Control(c) : c \in check.f}
                        \cup {Control(c) : c \in Constraint \ check.f})
    /\ checks' = checks + 1
    /\ UNCHANGED <<cnfVars, fileVars, encoded, answer>>

SolverWorks ==
    /\ S!Work
    /\ UNCHANGED <<cnfVars, fileVars, encoded, checks, query, answer>>

SolveSat ==
    /\ step = "sat"
    /\ answer' = [kind |-> "sat",
                  f |-> IF query.grow
                        THEN query.f \cup {c \in Constraint : S!Satisfies(model, clauses[c])}
                        ELSE query.f]
    /\ query' = O!NoQuery
    /\ S!Thaw
    /\ UNCHANGED <<cnfVars, fileVars, encoded, checks>>

SolveUnsat ==
    /\ step = "unsat"
    /\ answer' = [kind |-> "unsat",
                  f |-> IF query.core THEN {S!VarOf(l) - vars : l \in conflict} ELSE query.f]
    /\ query' = O!NoQuery
    /\ S!Thaw
    /\ UNCHANGED <<cnfVars, fileVars, encoded, checks>>

Finished == Constructed /\ query.kind = "none" /\ checks = CheckBound /\ UNCHANGED handleVars

Next ==
    \/ ReadHard \/ ReadSoft \/ ParseEnds \/ Encode
    \/ Solve \/ SolverWorks \/ SolveSat \/ SolveUnsat
    \/ Finished

Spec == Init /\ [][Next]_handleVars

(* One thread; a caller may stop asking, a call under way goes on. *)
FairSpec == Spec /\ WF_handleVars(query.kind # "none" /\ Next)

---------------------------------------------------------------------------
(* The MUSes of the file, as sets of clauses: a subset of its soft lines   *)
(* is checked together with all its hard lines.                            *)
SoftLines == {n \in DOMAIN file : file[n].group # 0}
HardLines == DOMAIN file \ SoftLines
ClausesAt(g) == {ToSet(file[n].text) : n \in g}

MusesOfFile ==
    LET Unsat(g) == \A a \in SUBSET Var :
                       \E c \in ClausesAt(g \cup HardLines) : ~Satisfies(a, c)
    IN  {ClausesAt(g) : g \in {h \in SUBSET SoftLines :
                                  Unsat(h) /\ \A n \in h : ~Unsat(h \ {n})}}

(* Lines that repeat a text are dropped, whether the first was soft or     *)
(* hard, but no MUS is lost or made up by that.                            *)
MusesKept ==
    ~Reading => MusesOfFile = {{clauses[c] : c \in g} : g \in AllMuses}

(* The solver answers as the algorithms assume, although it forgets        *)
(* variables and clauses on the way and never gets them back: every answer *)
(* is right for its own subset, a model satisfies what it is said to, a    *)
(* core lies inside the subset and is unsatisfiable.                       *)
ImplementsOracle == O!Spec

Given == ToSet(SubSeq(Encoding, 1, encoded))

(* Simplification is reversible at any moment: every model of the clauses  *)
(* left is turned into one of the clauses given by extendModel, and        *)
(* nothing that is left, learnt clauses with eliminated variables          *)
(* included, excludes a model of those.                                    *)
EliminationReversible ==
    LET given == S!ModelsOf(Given)
    IN  /\ ok => \A a \in S!ModelsOf(db \cup {{l} : l \in trail}) : S!Extended(a) \in given
        /\ \A a \in given : ok /\ \A c \in S!Facts : S!Satisfies(a, c)

(* Variables come back to the heap when their clauses change, yet every    *)
(* call of solve returns.                                                  *)
Termination == []<>(query.kind = "none")
===========================================================================
