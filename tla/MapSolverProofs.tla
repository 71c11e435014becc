-------------------------- MODULE MapSolverProofs --------------------------
(***************************************************************************)
(* The solver of Explorer's map is proved to answer like MapOracle, for    *)
(* every list of clauses, every list of assumptions and every choice of    *)
(* the search: what it learns is implied, no unit clause is missed, what   *)
(* simplification removes was not needed.                                  *)
(***************************************************************************)
EXTENDS MapSolver, FiniteSetTheorems, SequenceTheorems, WellFoundedInduction, TLAPS

ControlPoints ==
    {"idle", "added", "inconsistent", "propagate", "conflict", "search",
     "reduceDB", "decide", "model", "no model"}

(* The control points of a query that stand between two propagations. *)
Settled == {"search", "reduceDB", "decide", "model"}

Polarity == {"true", "false", "any"}

Step == [lit : MapLit, reason : SUBSET MapLit]

TypeOK ==
    /\ map \in SUBSET MapClause
    /\ toAdd \in Seq(MapClause)
    /\ solves \in Nat
    /\ ok \in BOOLEAN
    /\ learnts \subseteq DOMAIN watches
    /\ trail \in Seq(Step)
    /\ trail_lim \in Seq(Nat)
    /\ qhead \in 0 .. Len(trail)
    /\ visit \subseteq DOMAIN watches
    /\ pc \in ControlPoints
    /\ confl \in SUBSET MapLit
    /\ conflict \in SUBSET MapLit
    /\ conflictC \in Nat /\ curr_restarts \in Nat /\ max_learnts \in Nat
    /\ assumptions \in Seq(MapLit)

---------------------------------------------------------------------------
(* What holds of a trail tr with the levels lim, for the clauses cls, the  *)
(* assumptions assumed and the call cl.                                    *)

LevelIn(lim, i) == Cardinality({k \in DOMAIN lim : lim[k] < i})

(* Levels are opened one after the other. *)
LevelsOrdered(tr, lim) ==
    /\ \A k \in DOMAIN lim : lim[k] <= Len(tr)
    /\ \A k, n \in DOMAIN lim : k <= n => lim[k] <= lim[n]

(* No variable is assigned twice. *)
AssignedOnce(tr) ==
    \A i, j \in DOMAIN tr :
        i # j => tr[i].lit # tr[j].lit /\ tr[i].lit # -tr[j].lit

(* A reason is implied by the clauses, and made its literal follow. *)
ReasonsSound(tr, cls) ==
    \A i \in DOMAIN tr :
        tr[i].reason # NoReason =>
            /\ tr[i].lit \in tr[i].reason
            /\ Entails(cls, tr[i].reason)
            /\ \A q \in tr[i].reason \ {tr[i].lit} :
                  \E j \in DOMAIN tr : j < i /\ tr[j].lit = -q

(* Literals of level 0 are implied. *)
Level0Implied(tr, lim, cls) ==
    \A i \in DOMAIN tr : LevelIn(lim, i) = 0 => Entails(cls, {tr[i].lit})

(* The first literal of level n: an assumption or, after those, a decision *)
(* of the polarity asked for.                                              *)
MayOpen(l, n, assumed, cl) ==
    IF n <= Len(assumed) THEN l = assumed[n]
                    ELSE /\ cl.polarity = "true" => l \in Constraint
                         /\ cl.polarity = "false" => -l \in Constraint

(* Above level 0 only the first literal of a level has no reason.          *)
DecisionsFirst(tr, lim, assumed, cl) ==
    \A i \in DOMAIN tr : \A n \in DOMAIN lim :
        tr[i].reason = NoReason /\ LevelIn(lim, i) = n =>
            i = lim[n] + 1 /\ MayOpen(tr[i].lit, n, assumed, cl)

(* An assumption is true from its own level on. *)
AssumptionsTrue(tr, lim, assumed) ==
    \A n \in DOMAIN lim \cap DOMAIN assumed :
        \E i \in DOMAIN tr : tr[i].lit = assumed[n] /\ LevelIn(lim, i) <= n

TrailSound(tr, lim, cls, assumed, cl) ==
    /\ tr \in Seq(Step) /\ lim \in Seq(Nat)
    /\ LevelsOrdered(tr, lim)
    /\ AssignedOnce(tr)
    /\ ReasonsSound(tr, cls)
    /\ Level0Implied(tr, lim, cls)
    /\ DecisionsFirst(tr, lim, assumed, cl)
    /\ AssumptionsTrue(tr, lim, assumed)

---------------------------------------------------------------------------
(* What is yet to be propagated is of the current level. *)
QueueOfLastLevel ==
    /\ pc # "propagate" => qhead = Len(trail) /\ visit = {}
    /\ visit # {} => qhead > 0
    /\ \A c \in visit : -trail[qhead].lit \in watches[c]
    /\ \A i \in DOMAIN trail :
          (i > qhead \/ (i = qhead /\ visit # {})) => LevelAt(i) = decisionLevel

(* The clauses of the solver follow from those added, and each watches two *)
(* of its literals.                                                        *)
ClausesSound(w, cls) ==
    \A c \in DOMAIN w :
        /\ c \in MapClause
        /\ Entails(cls, c)
        /\ \E a, b \in c : a # b /\ w[c] = {a, b}

(* The clause c has been visited for the literal at i of the trail. *)
Visited(c, i) ==
    IF pc = "conflict" THEN LevelAt(i) < decisionLevel
                       ELSE i < qhead \/ (i = qhead /\ c \notin visit)

(* The invariant of the two watches: a watch is false only where another   *)
(* literal has been true from the same level or an earlier one on, so that *)
(* going back to a lower level never leaves it alone.                      *)
WatchesSound ==
    \A c \in DOMAIN watches : \A l \in watches[c] : \A i \in DOMAIN trail :
        trail[i].lit = -l /\ Visited(c, i) =>
            \E j \in DOMAIN trail : trail[j].lit \in c /\ LevelAt(j) <= LevelAt(i)

(* What simplification, and addClause before it, leave of a clause: it is  *)
(* satisfied at level 0 or contains a clause that is not a learnt one.     *)
NothingLost ==
    \A cl \in map :
        \/ \E i \in DOMAIN trail : LevelAt(i) = 0 /\ trail[i].lit \in cl
        \/ \E c \in Clauses : c \subseteq cl

ConflictFalse ==
    pc = "conflict" =>
        /\ confl \in DOMAIN watches
        /\ \A l \in confl : \E i \in DOMAIN trail : trail[i].lit = -l
        /\ \E l \in confl : \E i \in DOMAIN trail :
              trail[i].lit = -l /\ LevelAt(i) = decisionLevel

CallInProgress ==
    /\ pc = "idle" => call = O!NoCall
    /\ pc \in {"added", "inconsistent"} => call.op = "add"
    /\ pc \in Settled \cup {"no model"} => call.op = "solve"
    /\ pc \in {"propagate", "conflict"} => call.op \in {"add", "solve"}
    /\ call.op # "solve" => trail_lim = <<>>
    /\ call.op = "solve" =>
          /\ call.assumed = ToSet(assumptions)
          /\ call.polarity \in Polarity

(* What the solver knows when it is about to answer. *)
AnswerKnown ==
    /\ ~ok => /\ pc \in {"idle", "inconsistent", "no model"}
              /\ O!ModelsOf(map, {}) = {}
    /\ pc = "inconsistent" => ~ok
    /\ pc = "no model" /\ ok =>
          /\ conflict # {}
          /\ conflict \subseteq {-a : a \in ToSet(assumptions)}
          /\ Entails(map, conflict)
    /\ pc = "model" => /\ Len(assumptions) <= decisionLevel
                       /\ \A c \in Constraint : IsTrue(c) \/ IsFalse(c)

(* The inductive invariant. *)
Inv ==
    /\ TypeOK
    /\ TrailSound(trail, trail_lim, map, assumptions, call)
    /\ QueueOfLastLevel
    /\ ClausesSound(watches, map)
    /\ ok => WatchesSound
    /\ ok => NothingLost
    /\ ConflictFalse
    /\ CallInProgress
    /\ AnswerKnown

---------------------------------------------------------------------------
(* The least of a set of numbers. *)
LEMMA LeastNat ==
    ASSUME NEW S \in SUBSET Nat, S # {}
    PROVE  \E n \in S : \A m \in S : n <= m
<1>1. PICK n \in S : \A m \in S : ~(<<m, n>> \in OpToRel(<, Nat))
  BY NatLessThanWellFounded, WFMin
<1>2. ASSUME NEW m \in S PROVE n <= m
  <2>1. n \in Nat /\ m \in Nat
    OBVIOUS
  <2>2. ~(m < n)
    BY <1>1, <2>1 DEF OpToRel
  <2>3. QED
    BY <2>1, <2>2
<1>3. QED
  BY <1>2

---------------------------------------------------------------------------
(* Literals and models. *)

Models == {f \in SUBSET Constraint : \A cl \in map : O!HoldsAny(f, cl)}

LEMMA LitFacts ==
    ASSUME NEW l \in MapLit
    PROVE  /\ l \in Int /\ l # 0 /\ -l \in MapLit /\ -(-l) = l /\ -l # l
           /\ VarOf(l) \in Constraint /\ (l \in Constraint \/ -l \in Constraint)
           /\ ~(l \in Constraint /\ -l \in Constraint)
BY MapSolverAssumption DEF MapLit, Constraint, VarOf

LEMMA NegHolds ==
    ASSUME NEW l \in MapLit, NEW f
    PROVE  O!Holds(f, -l) <=> ~O!Holds(f, l)
BY LitFacts, MapSolverAssumption DEF O!Holds, MapLit, Constraint

LEMMA ClauseFacts ==
    ASSUME NEW c \in MapClause
    PROVE  c \subseteq MapLit /\ \A l \in c : l \in MapLit /\ -l \notin c
BY DEF MapClause

LEMMA EntailsUse ==
    ASSUME NEW cls, NEW c, Entails(cls, c), NEW f \in SUBSET Constraint,
           \A cl \in cls : O!HoldsAny(f, cl)
    PROVE  \E l \in c : O!Holds(f, l)
BY DEF Entails, O!HoldsAny

LEMMA EntailsUnit ==
    ASSUME NEW cls, NEW l, Entails(cls, {l}), NEW f \in SUBSET Constraint,
           \A cl \in cls : O!HoldsAny(f, cl)
    PROVE  O!Holds(f, l)
BY EntailsUse

LEMMA EntailsMore ==
    ASSUME NEW cls, NEW more, cls \subseteq more, NEW c, Entails(cls, c)
    PROVE  Entails(more, c)
BY DEF Entails

LEMMA EntailsMember ==
    ASSUME NEW cls, NEW c \in cls
    PROVE  Entails(cls, c)
BY DEF Entails

---------------------------------------------------------------------------
(* Levels. *)

Rising(lim) == \A k, n \in DOMAIN lim : k <= n => lim[k] <= lim[n]

(* The levels opened before a position are the first ones. *)
LEMMA LevelMeaning ==
    ASSUME NEW lim \in Seq(Nat), Rising(lim), NEW i \in Nat
    PROVE  /\ LevelIn(lim, i) \in 0 .. Len(lim)
           /\ \A k \in DOMAIN lim : lim[k] < i <=> k <= LevelIn(lim, i)
<1> DEFINE S == {k \in DOMAIN lim : lim[k] < i}
           P(n) == n = Len(lim) + 1 \/ (n \in DOMAIN lim /\ lim[n] >= i)
           Q == {n \in Nat : n > 0 /\ P(n)}
<1>1. Len(lim) \in Nat /\ DOMAIN lim = 1 .. Len(lim) /\ \A k \in DOMAIN lim : lim[k] \in Nat
  OBVIOUS
<1>2. PICK n \in Q : \A m \in Q : n <= m
  <2>1. Len(lim) + 1 \in Q
    BY <1>1
  <2>2. QED
    BY <2>1, LeastNat
<1>3. S = 1 .. (n - 1)
  <2>1. n \in 1 .. (Len(lim) + 1)
    <3>1. CASE n = Len(lim) + 1
      BY <3>1, <1>1
    <3>2. CASE n \in DOMAIN lim
      BY <3>2, <1>1
    <3>3. QED
      BY <3>1, <3>2
  <2>2. ASSUME NEW k \in 1 .. (n - 1) PROVE k \in S
    <3>1. k \in DOMAIN lim /\ k \in Nat /\ k > 0
      BY <2>1, <1>1
    <3>2. lim[k] \in Nat /\ k \notin Q
      BY <1>1, <1>2, <3>1, <2>1
    <3>3. QED
      BY <3>1, <3>2
  <2>3. ASSUME NEW k \in S PROVE k \in 1 .. (n - 1)
    <3>1. k \in DOMAIN lim /\ k \in 1 .. Len(lim) /\ lim[k] < i /\ lim[k] \in Nat
      BY <1>1
    <3>2. ASSUME k >= n PROVE FALSE
      <4>1. n \in DOMAIN lim /\ lim[n] >= i
        BY <1>1, <2>1, <3>1, <3>2
      <4>2. lim[n] <= lim[k] /\ lim[n] \in Nat
        BY <1>1, <3>1, <3>2, <4>1 DEF Rising
      <4>3. QED
        BY <3>1, <4>1, <4>2
    <3>3. QED
      BY <3>1, <3>2, <2>1
  <2>4. QED
    BY <2>2, <2>3
<1>4. n - 1 \in 0 .. Len(lim) /\ Cardinality(1 .. (n - 1)) = n - 1
  <2>1. n - 1 \in 0 .. Len(lim)
    <3>1. CASE n = Len(lim) + 1
      BY <3>1, <1>1
    <3>2. CASE n \in DOMAIN lim
      BY <3>2, <1>1
    <3>3. QED
      BY <3>1, <3>2
  <2>2. QED
    BY <2>1, FS_Interval
<1>5. LevelIn(lim, i) = n - 1
  BY <1>3, <1>4 DEF LevelIn
<1>6. ASSUME NEW k \in DOMAIN lim PROVE lim[k] < i <=> k <= n - 1
  BY <1>1, <1>3, <1>4
<1>7. QED
  BY <1>4, <1>5, <1>6

LEMMA LevelIs ==
    ASSUME NEW lim \in Seq(Nat), Rising(lim), NEW i \in Nat, NEW n \in 0 .. Len(lim),
           \A k \in DOMAIN lim : lim[k] < i <=> k <= n
    PROVE  LevelIn(lim, i) = n
<1> DEFINE m == LevelIn(lim, i)
<1>1. m \in 0 .. Len(lim) /\ \A k \in DOMAIN lim : k <= n <=> k <= m
  BY LevelMeaning
<1>2. DOMAIN lim = 1 .. Len(lim) /\ Len(lim) \in Nat
  OBVIOUS
<1> HIDE DEF m
<1>3. ~(n < m) /\ ~(m < n)
  BY <1>1, <1>2
<1>4. m = n
  BY <1>1, <1>3
<1>5. QED
  BY <1>4 DEF m

LEMMA LevelMonotone ==
    ASSUME NEW lim \in Seq(Nat), Rising(lim), NEW i \in Nat, NEW j \in Nat, i <= j
    PROVE  LevelIn(lim, i) <= LevelIn(lim, j)
<1> DEFINE m == LevelIn(lim, i)
           n == LevelIn(lim, j)
<1>1. /\ m \in 0 .. Len(lim) /\ n \in 0 .. Len(lim)
      /\ \A k \in DOMAIN lim : (lim[k] < i <=> k <= m) /\ (lim[k] < j <=> k <= n)
  BY LevelMeaning
<1>2. DOMAIN lim = 1 .. Len(lim) /\ Len(lim) \in Nat /\ \A k \in DOMAIN lim : lim[k] \in Nat
  OBVIOUS
<1> HIDE DEF m, n
<1>3. ~(n < m)
  BY <1>1, <1>2
<1>4. m <= n
  BY <1>1, <1>3
<1>5. QED
  BY <1>4 DEF m, n

LEMMA LevelAppend ==
    ASSUME NEW lim \in Seq(Nat), Rising(lim), NEW x \in Nat, \A k \in DOMAIN lim : lim[k] <= x
    PROVE  /\ Append(lim, x) \in Seq(Nat) /\ Rising(Append(lim, x))
           /\ Len(Append(lim, x)) = Len(lim) + 1
           /\ \A i \in Nat : i <= x => LevelIn(Append(lim, x), i) = LevelIn(lim, i)
           /\ \A i \in Nat : i > x => LevelIn(Append(lim, x), i) = Len(lim) + 1
<1> DEFINE new == Append(lim, x)
<1>1. /\ new \in Seq(Nat) /\ Len(new) = Len(lim) + 1 /\ Len(lim) \in Nat
      /\ DOMAIN lim = 1 .. Len(lim) /\ DOMAIN new = 1 .. Len(lim) + 1
      /\ \A k \in 1 .. Len(lim) : new[k] = lim[k] /\ lim[k] \in Nat
      /\ new[Len(lim) + 1] = x
  OBVIOUS
<1> HIDE DEF new
<1>2. Rising(new)
  <2> SUFFICES ASSUME NEW k \in 1 .. Len(lim) + 1, NEW n \in 1 .. Len(lim) + 1, k <= n
               PROVE  new[k] <= new[n]
    BY <1>1 DEF Rising
  <2>1. CASE n = Len(lim) + 1 /\ k = n
    BY <2>1, <1>1
  <2>2. CASE n = Len(lim) + 1 /\ k # n
    <3>1. k \in 1 .. Len(lim)
      BY <2>2, <1>1
    <3>2. QED
      BY <3>1, <2>2, <1>1
  <2>3. CASE n # Len(lim) + 1
    <3>1. k \in 1 .. Len(lim) /\ n \in 1 .. Len(lim)
      BY <2>3, <1>1
    <3>2. QED
      BY <3>1, <1>1 DEF Rising
  <2>4. QED
    BY <2>1, <2>2, <2>3
<1>3. ASSUME NEW i \in Nat, i <= x PROVE LevelIn(new, i) = LevelIn(lim, i)
  <2> DEFINE n == LevelIn(lim, i)
  <2>1. n \in 0 .. Len(lim) /\ \A k \in DOMAIN lim : lim[k] < i <=> k <= n
    BY LevelMeaning
  <2> HIDE DEF n
  <2>2. ASSUME NEW k \in DOMAIN new PROVE new[k] < i <=> k <= n
    <3>1. CASE k = Len(lim) + 1
      BY <3>1, <1>1, <1>3, <2>1
    <3>2. CASE k \in 1 .. Len(lim)
      BY <3>2, <1>1, <2>1
    <3>3. QED
      BY <3>1, <3>2, <1>1
  <2>3. LevelIn(new, i) = n
    <3>1. n \in 0 .. Len(new)
      BY <1>1, <2>1
    <3>2. QED
      BY <1>1, <1>2, <2>2, <3>1, LevelIs
  <2>4. QED
    BY <2>3 DEF n
<1>4. ASSUME NEW i \in Nat, i > x PROVE LevelIn(new, i) = Len(lim) + 1
  <2>1. ASSUME NEW k \in DOMAIN new PROVE new[k] < i <=> k <= Len(lim) + 1
    <3>1. CASE k = Len(lim) + 1
      BY <3>1, <1>1, <1>4
    <3>2. CASE k \in 1 .. Len(lim)
      BY <3>2, <1>1, <1>4
    <3>3. QED
      BY <3>1, <3>2, <1>1
  <2>2. Len(lim) + 1 \in 0 .. Len(new)
    BY <1>1
  <2>3. QED
    BY <1>1, <1>2, <2>1, <2>2, LevelIs
<1>5. QED
  BY <1>1, <1>2, <1>3, <1>4 DEF new

LEMMA LevelCut ==
    ASSUME NEW lim \in Seq(Nat), Rising(lim), NEW n \in 0 .. Len(lim) - 1
    PROVE  /\ SubSeq(lim, 1, n) \in Seq(Nat) /\ Rising(SubSeq(lim, 1, n))
           /\ Len(SubSeq(lim, 1, n)) = n
           /\ \A k \in DOMAIN SubSeq(lim, 1, n) :
                 k \in DOMAIN lim /\ SubSeq(lim, 1, n)[k] = lim[k] /\ lim[k] <= lim[n + 1]
           /\ \A i \in Nat : i <= lim[n + 1] =>
                 /\ LevelIn(SubSeq(lim, 1, n), i) = LevelIn(lim, i)
                 /\ LevelIn(lim, i) <= n
           /\ \A i \in Nat : i > lim[n + 1] =>
                 /\ LevelIn(SubSeq(lim, 1, n), i) = n
                 /\ LevelIn(lim, i) > n
<1> DEFINE new == SubSeq(lim, 1, n)
<1>1. /\ new \in Seq(Nat) /\ Len(new) = n /\ Len(lim) \in Nat /\ n \in Nat
      /\ n + 1 \in 1 .. Len(lim) /\ lim[n + 1] \in Nat
      /\ DOMAIN lim = 1 .. Len(lim) /\ DOMAIN new = 1 .. n
      /\ \A k \in 1 .. n : new[k] = lim[k] /\ lim[k] \in Nat
  OBVIOUS
<1> HIDE DEF new
<1>a. 1 .. n \subseteq 1 .. Len(lim)
  BY <1>1
<1>2. Rising(new)
  BY <1>1, <1>a DEF Rising
<1>3. ASSUME NEW k \in 1 .. n PROVE k \in DOMAIN lim /\ lim[k] <= lim[n + 1]
  BY <1>1, <1>a DEF Rising
<1>4. ASSUME NEW i \in Nat, i <= lim[n + 1] PROVE LevelIn(new, i) = LevelIn(lim, i) /\ LevelIn(lim, i) <= n
  <2> DEFINE m == LevelIn(lim, i)
  <2>1. m \in 0 .. Len(lim) /\ \A k \in DOMAIN lim : lim[k] < i <=> k <= m
    BY LevelMeaning
  <2> HIDE DEF m
  <2>2. m \in 0 .. n
    <3>1. ~(n + 1 <= m)
      BY <1>1, <1>4, <2>1
    <3>2. QED
      BY <3>1, <1>1, <2>1
  <2>3. ASSUME NEW k \in DOMAIN new PROVE new[k] < i <=> k <= m
    BY <1>1, <1>a, <2>1
  <2>4. LevelIn(new, i) = m
    BY <1>1, <1>2, <2>2, <2>3, LevelIs
  <2>5. QED
    BY <2>2, <2>4 DEF m
<1>5. ASSUME NEW i \in Nat, i > lim[n + 1] PROVE LevelIn(new, i) = n /\ LevelIn(lim, i) > n
  <2> DEFINE m == LevelIn(lim, i)
  <2>1. m \in 0 .. Len(lim) /\ \A k \in DOMAIN lim : lim[k] < i <=> k <= m
    BY LevelMeaning
  <2> HIDE DEF m
  <2>2. m > n
    BY <1>1, <1>5, <2>1
  <2>3. ASSUME NEW k \in DOMAIN new PROVE new[k] < i <=> k <= n
    BY <1>1, <1>3, <1>5
  <2>4. LevelIn(new, i) = n
    <3>1. n \in 0 .. Len(new)
      BY <1>1
    <3>2. QED
      BY <1>1, <1>2, <2>3, <3>1, LevelIs
  <2>5. QED
    BY <2>2, <2>4 DEF m
<1>6. QED
  BY <1>1, <1>2, <1>3, <1>4, <1>5 DEF new

---------------------------------------------------------------------------
(* What the operations on the trail preserve. *)

LEMMA TrailFacts ==
    ASSUME NEW tr \in Seq(Step)
    PROVE  /\ Len(tr) \in Nat /\ DOMAIN tr = 1 .. Len(tr)
           /\ \A i \in DOMAIN tr : tr[i].lit \in MapLit /\ tr[i].reason \in SUBSET MapLit
<1>1. \A i \in 1 .. Len(tr) : tr[i] \in Step
  OBVIOUS
<1>2. QED
  BY <1>1 DEF Step

LEMMA SeqFacts ==
    ASSUME NEW S, NEW s \in Seq(S)
    PROVE  Len(s) \in Nat /\ DOMAIN s = 1 .. Len(s)
OBVIOUS

LEMMA PushFacts ==
    ASSUME NEW tr \in Seq(Step), NEW e \in Step
    PROVE  /\ Append(tr, e) \in Seq(Step) /\ Len(Append(tr, e)) = Len(tr) + 1
           /\ DOMAIN Append(tr, e) = 1 .. Len(tr) + 1
           /\ \A i \in DOMAIN tr : Append(tr, e)[i] = tr[i] /\ i \in 1 .. Len(tr) + 1
           /\ Append(tr, e)[Len(tr) + 1] = e
OBVIOUS

LEMMA SeparateFacts ==
    ASSUME NEW tr \in Seq(Step), NEW l \in MapLit,
           \A i \in DOMAIN tr : tr[i].lit # l /\ tr[i].lit # -l,
           NEW i \in DOMAIN tr
    PROVE  l # tr[i].lit /\ l # -tr[i].lit
<1>1. tr[i].lit \in MapLit
  BY TrailFacts
<1>2. QED
  BY <1>1, LitFacts

(* An undefined literal is appended, with or without a new level. *)
LEMMA AppendKeeps ==
    ASSUME NEW tr \in Seq(Step), NEW e \in Step, AssignedOnce(tr),
           \A i \in DOMAIN tr : tr[i].lit # e.lit /\ tr[i].lit # -e.lit,
           NEW cls, ReasonsSound(tr, cls),
           e.reason # NoReason =>
               /\ e.lit \in e.reason
               /\ Entails(cls, e.reason)
               /\ \A q \in e.reason \ {e.lit} : \E j \in DOMAIN tr : tr[j].lit = -q
    PROVE  AssignedOnce(Append(tr, e)) /\ ReasonsSound(Append(tr, e), cls)
<1> DEFINE new == Append(tr, e)
           n == Len(tr) + 1
<1>1. /\ new \in Seq(Step) /\ n \in Nat /\ DOMAIN new = 1 .. n /\ new[n] = e
      /\ \A i \in DOMAIN tr : new[i] = tr[i] /\ i \in 1 .. n /\ i < n
      /\ \A i \in 1 .. n : i = n \/ i \in DOMAIN tr
      /\ e.lit \in MapLit
  BY PushFacts, TrailFacts DEF Step
<1>a. \A i \in DOMAIN tr : e.lit # tr[i].lit /\ e.lit # -tr[i].lit
  BY <1>1, SeparateFacts
<1> HIDE DEF new, n
<1>2. AssignedOnce(new)
  <2> SUFFICES ASSUME NEW i \in DOMAIN new, NEW j \in DOMAIN new, i # j
               PROVE  new[i].lit # new[j].lit /\ new[i].lit # -new[j].lit
    BY DEF AssignedOnce
  <2>1. CASE i = n
    BY <2>1, <1>1, <1>a
  <2>2. CASE j = n
    BY <2>2, <1>1
  <2>3. CASE i # n /\ j # n
    BY <2>3, <1>1 DEF AssignedOnce
  <2>4. QED
    BY <2>1, <2>2, <2>3
<1>3. ReasonsSound(new, cls)
  <2> SUFFICES ASSUME NEW i \in DOMAIN new, new[i].reason # NoReason
               PROVE  /\ new[i].lit \in new[i].reason /\ Entails(cls, new[i].reason)
                      /\ \A q \in new[i].reason \ {new[i].lit} :
                            \E j \in DOMAIN new : j < i /\ new[j].lit = -q
    BY DEF ReasonsSound
  <2>1. CASE i = n
    BY <2>1, <1>1
  <2>2. CASE i # n
    <3>1. /\ tr[i].lit \in tr[i].reason /\ Entails(cls, tr[i].reason)
          /\ \A q \in tr[i].reason \ {tr[i].lit} : \E j \in DOMAIN tr : j < i /\ tr[j].lit = -q
      BY <2>2, <1>1 DEF ReasonsSound
    <3>2. QED
      BY <2>2, <3>1, <1>1
  <2>3. QED
    BY <2>1, <2>2
<1>4. QED
  BY <1>2, <1>3 DEF new

(* A propagated literal, or one that a learnt clause asserts. *)
LEMMA PushSound ==
    ASSUME NEW tr, NEW lim, NEW cls, NEW assumed, NEW cl, TrailSound(tr, lim, cls, assumed, cl),
           NEW e \in Step,
           \A i \in DOMAIN tr : tr[i].lit # e.lit /\ tr[i].lit # -e.lit,
           e.reason # NoReason =>
               /\ e.lit \in e.reason
               /\ Entails(cls, e.reason)
               /\ \A q \in e.reason \ {e.lit} : \E j \in DOMAIN tr : tr[j].lit = -q,
           Len(lim) = 0 => Entails(cls, {e.lit}),
           Len(lim) > 0 => e.reason # NoReason
    PROVE  TrailSound(Append(tr, e), lim, cls, assumed, cl)
<1> DEFINE new == Append(tr, e)
           n == Len(tr) + 1
<1>a. tr \in Seq(Step) /\ lim \in Seq(Nat)
  BY DEF TrailSound
<1>1. /\ new \in Seq(Step) /\ n \in Nat /\ DOMAIN new = 1 .. n /\ new[n] = e
      /\ \A i \in DOMAIN tr : new[i] = tr[i] /\ i \in 1 .. n /\ i < n
      /\ \A i \in 1 .. n : i = n \/ i \in DOMAIN tr
      /\ e.lit \in MapLit /\ Len(new) = n /\ Len(tr) < n /\ Len(tr) \in Nat
      /\ DOMAIN lim = 1 .. Len(lim) /\ Len(lim) \in Nat /\ \A k \in DOMAIN lim : lim[k] \in Nat
  BY <1>a, PushFacts, TrailFacts DEF Step
<1>2. AssignedOnce(new) /\ ReasonsSound(new, cls)
  BY <1>a, AppendKeeps DEF TrailSound
<1> HIDE DEF new, n
<1>3. LevelsOrdered(new, lim)
  <2>1. \A k \in DOMAIN lim : lim[k] <= Len(tr)
    BY DEF TrailSound, LevelsOrdered
  <2>2. \A k \in DOMAIN lim : lim[k] <= Len(new)
    BY <2>1, <1>1
  <2>3. QED
    BY <2>2 DEF TrailSound, LevelsOrdered
<1>4. LevelIn(lim, n) = Len(lim)
  <2>1. Rising(lim) /\ \A k \in DOMAIN lim : lim[k] <= Len(tr)
    BY DEF TrailSound, LevelsOrdered, Rising
  <2>2. \A k \in DOMAIN lim : lim[k] < n <=> k <= Len(lim)
    BY <2>1, <1>1
  <2>3. Len(lim) \in 0 .. Len(lim)
    BY <1>1
  <2>4. QED
    BY <2>1, <2>2, <2>3, <1>1, <1>a, LevelIs
<1>5. Level0Implied(new, lim, cls)
  <2> SUFFICES ASSUME NEW i \in DOMAIN new, LevelIn(lim, i) = 0 PROVE Entails(cls, {new[i].lit})
    BY DEF Level0Implied
  <2>1. CASE i = n
    BY <2>1, <1>1, <1>4
  <2>2. CASE i # n
    BY <2>2, <1>1 DEF TrailSound, Level0Implied
  <2>3. QED
    BY <2>1, <2>2
<1>6. DecisionsFirst(new, lim, assumed, cl)
  <2> SUFFICES ASSUME NEW i \in DOMAIN new, NEW k \in DOMAIN lim,
                      new[i].reason = NoReason, LevelIn(lim, i) = k
               PROVE  i = lim[k] + 1 /\ MayOpen(new[i].lit, k, assumed, cl)
    BY DEF DecisionsFirst
  <2>1. i # n
    BY <1>1, <1>4
  <2>2. i \in DOMAIN tr /\ new[i] = tr[i]
    BY <2>1, <1>1
  <2>3. QED
    BY <2>2 DEF TrailSound, DecisionsFirst
<1>7. AssumptionsTrue(new, lim, assumed)
  <2> SUFFICES ASSUME NEW k \in DOMAIN lim \cap DOMAIN assumed
               PROVE  \E i \in DOMAIN new : new[i].lit = assumed[k] /\ LevelIn(lim, i) <= k
    BY DEF AssumptionsTrue
  <2>1. PICK i \in DOMAIN tr : tr[i].lit = assumed[k] /\ LevelIn(lim, i) <= k
    BY DEF TrailSound, AssumptionsTrue
  <2>2. QED
    BY <2>1, <1>1
<1>8. QED
  BY <1>a, <1>1, <1>2, <1>3, <1>5, <1>6, <1>7 DEF TrailSound, new

LEMMA OpenFacts ==
    ASSUME NEW tr, NEW lim, NEW cls, NEW assumed, NEW cl, TrailSound(tr, lim, cls, assumed, cl)
    PROVE  LET new == Append(lim, Len(tr))
           IN  /\ new \in Seq(Nat) /\ Len(new) = Len(lim) + 1 /\ Len(lim) \in Nat
               /\ DOMAIN lim = 1 .. Len(lim) /\ DOMAIN new = 1 .. Len(lim) + 1
               /\ \A k \in DOMAIN lim : new[k] = lim[k] /\ k \in DOMAIN new
               /\ new[Len(lim) + 1] = Len(tr)
               /\ LevelsOrdered(tr, new)
               /\ \A i \in DOMAIN tr :
                     LevelIn(new, i) = LevelIn(lim, i) /\ LevelIn(lim, i) \in 0 .. Len(lim)
               /\ LevelIn(new, Len(tr) + 1) = Len(lim) + 1
<1> DEFINE new == Append(lim, Len(tr))
<1>1. tr \in Seq(Step) /\ lim \in Seq(Nat) /\ Len(tr) \in Nat /\ Rising(lim)
      /\ \A k \in DOMAIN lim : lim[k] <= Len(tr)
  BY TrailFacts DEF TrailSound, LevelsOrdered, Rising
<1>2. /\ new \in Seq(Nat) /\ Rising(new) /\ Len(new) = Len(lim) + 1
      /\ \A i \in Nat : i <= Len(tr) => LevelIn(new, i) = LevelIn(lim, i)
      /\ \A i \in Nat : i > Len(tr) => LevelIn(new, i) = Len(lim) + 1
  BY <1>1, LevelAppend
<1>3. /\ Len(lim) \in Nat /\ DOMAIN lim = 1 .. Len(lim) /\ DOMAIN new = 1 .. Len(lim) + 1
      /\ \A k \in DOMAIN lim : new[k] = lim[k] /\ k \in DOMAIN new
      /\ new[Len(lim) + 1] = Len(tr)
  BY <1>1
<1> HIDE DEF new
<1>4. LevelsOrdered(tr, new)
  <2>1. ASSUME NEW k \in DOMAIN new PROVE new[k] <= Len(tr)
    <3>1. CASE k = Len(lim) + 1
      BY <3>1, <1>1, <1>3
    <3>2. CASE k \in DOMAIN lim
      BY <3>2, <1>1, <1>3
    <3>3. QED
      BY <3>1, <3>2, <1>3
  <2>2. QED
    BY <2>1, <1>2 DEF LevelsOrdered, Rising
<1>5. \A i \in DOMAIN tr : LevelIn(new, i) = LevelIn(lim, i) /\ LevelIn(lim, i) \in 0 .. Len(lim)
  <2>1. \A i \in DOMAIN tr : i \in Nat /\ i <= Len(tr)
    BY <1>1, TrailFacts
  <2>2. QED
    BY <2>1, <1>1, <1>2, LevelMeaning
<1>6. LevelIn(new, Len(tr) + 1) = Len(lim) + 1
  BY <1>1, <1>2
<1>7. QED
  BY <1>2, <1>3, <1>4, <1>5, <1>6 DEF new

(* A level without a literal of its own: its assumption is true already. *)
LEMMA OpenSound ==
    ASSUME NEW tr, NEW lim, NEW cls, NEW assumed \in Seq(MapLit), NEW cl,
           TrailSound(tr, lim, cls, assumed, cl),
           Len(lim) < Len(assumed), NEW at \in DOMAIN tr, tr[at].lit = assumed[Len(lim) + 1]
    PROVE  TrailSound(tr, Append(lim, Len(tr)), cls, assumed, cl)
<1> DEFINE new == Append(lim, Len(tr))
<1>1. /\ new \in Seq(Nat) /\ Len(new) = Len(lim) + 1 /\ Len(lim) \in Nat
      /\ DOMAIN lim = 1 .. Len(lim) /\ DOMAIN new = 1 .. Len(lim) + 1
      /\ \A k \in DOMAIN lim : new[k] = lim[k] /\ k \in DOMAIN new
      /\ LevelsOrdered(tr, new)
      /\ \A i \in DOMAIN tr : LevelIn(new, i) = LevelIn(lim, i) /\ LevelIn(lim, i) \in 0 .. Len(lim)
  BY OpenFacts
<1> HIDE DEF new
<1>2. Level0Implied(tr, new, cls)
  BY <1>1 DEF TrailSound, Level0Implied
<1>3. DecisionsFirst(tr, new, assumed, cl)
  <2> SUFFICES ASSUME NEW i \in DOMAIN tr, NEW k \in DOMAIN new,
                      tr[i].reason = NoReason, LevelIn(new, i) = k
               PROVE  i = new[k] + 1 /\ MayOpen(tr[i].lit, k, assumed, cl)
    BY DEF DecisionsFirst
  <2>1. k \in DOMAIN lim /\ LevelIn(lim, i) = k
    BY <1>1
  <2>2. QED
    BY <2>1, <1>1 DEF TrailSound, DecisionsFirst
<1>4. AssumptionsTrue(tr, new, assumed)
  <2> SUFFICES ASSUME NEW k \in DOMAIN new \cap DOMAIN assumed
               PROVE  \E i \in DOMAIN tr : tr[i].lit = assumed[k] /\ LevelIn(new, i) <= k
    BY DEF AssumptionsTrue
  <2>a. k \in 1 .. Len(lim) + 1 /\ DOMAIN lim = 1 .. Len(lim) /\ Len(lim) \in Nat
    BY <1>1
  <2>b. k = Len(lim) + 1 \/ k \in DOMAIN lim
    BY ONLY <2>a
  <2>1. CASE k = Len(lim) + 1
    <3>1. LevelIn(new, at) <= k
      BY <2>1, <1>1
    <3>2. QED
      BY <3>1, <2>1
  <2>2. CASE k \in DOMAIN lim
    <3>1. PICK i \in DOMAIN tr : tr[i].lit = assumed[k] /\ LevelIn(lim, i) <= k
      BY <2>2 DEF TrailSound, AssumptionsTrue
    <3>2. QED
      BY <3>1, <1>1
  <2>3. QED
    BY ONLY <2>1, <2>2, <2>b
<1>5. QED
  BY <1>1, <1>2, <1>3, <1>4 DEF TrailSound, new

(* A level with a literal of its own, an assumption or a decision. *)
LEMMA NewLevelSound ==
    ASSUME NEW tr, NEW lim, NEW cls, NEW assumed \in Seq(MapLit), NEW cl,
           TrailSound(tr, lim, cls, assumed, cl), NEW l \in MapLit,
           \A i \in DOMAIN tr : tr[i].lit # l /\ tr[i].lit # -l,
           MayOpen(l, Len(lim) + 1, assumed, cl), Len(lim) < Len(assumed) => l = assumed[Len(lim) + 1]
    PROVE  TrailSound(Append(tr, Entry(l, NoReason)), Append(lim, Len(tr)), cls, assumed, cl)
<1> DEFINE e == Entry(l, NoReason)
           seq == Append(tr, e)
           n == Len(tr) + 1
           new == Append(lim, Len(tr))
<1>a. tr \in Seq(Step) /\ e \in Step /\ e.lit = l /\ e.reason = NoReason
  <2>1. e = [lit |-> l, reason |-> {}] /\ {} \in SUBSET MapLit
    BY DEF Entry, NoReason
  <2>2. QED
    BY <2>1 DEF TrailSound, Step, NoReason
<1>c. Len(assumed) \in Nat /\ DOMAIN assumed = 1 .. Len(assumed)
  BY SeqFacts
<1>b. AssignedOnce(seq) /\ ReasonsSound(seq, cls)
  BY <1>a, AppendKeeps DEF TrailSound
<1>1. /\ new \in Seq(Nat) /\ Len(new) = Len(lim) + 1 /\ Len(lim) \in Nat
      /\ DOMAIN lim = 1 .. Len(lim) /\ DOMAIN new = 1 .. Len(lim) + 1
      /\ \A k \in DOMAIN lim : new[k] = lim[k] /\ k \in DOMAIN new
      /\ new[Len(lim) + 1] = Len(tr)
      /\ LevelsOrdered(tr, new)
      /\ \A i \in DOMAIN tr : LevelIn(new, i) = LevelIn(lim, i) /\ LevelIn(lim, i) \in 0 .. Len(lim)
      /\ LevelIn(new, n) = Len(lim) + 1
  BY OpenFacts
<1>2. /\ seq \in Seq(Step) /\ n \in Nat /\ DOMAIN seq = 1 .. n /\ seq[n] = e
      /\ \A i \in DOMAIN tr : seq[i] = tr[i] /\ i \in DOMAIN seq
      /\ \A i \in 1 .. n : i = n \/ i \in DOMAIN tr
      /\ Len(seq) = n /\ Len(tr) < n /\ Len(tr) \in Nat /\ n = Len(tr) + 1 /\ n \in 1 .. n
      /\ \A k \in DOMAIN new : new[k] \in Nat
  BY <1>a, <1>1, PushFacts, TrailFacts
<1> HIDE DEF new, seq, e, n
<1>3. LevelsOrdered(seq, new)
  <2>1. \A k \in DOMAIN new : new[k] <= Len(seq)
    BY <1>1, <1>2 DEF LevelsOrdered
  <2>2. QED
    BY <2>1, <1>1 DEF LevelsOrdered
<1>4. Level0Implied(seq, new, cls)
  <2> SUFFICES ASSUME NEW i \in DOMAIN seq, LevelIn(new, i) = 0 PROVE Entails(cls, {seq[i].lit})
    BY DEF Level0Implied
  <2>1. i # n
    BY <1>1, <1>2
  <2>2. QED
    BY <2>1, <1>1, <1>2 DEF TrailSound, Level0Implied
<1>5. DecisionsFirst(seq, new, assumed, cl)
  <2> SUFFICES ASSUME NEW i \in DOMAIN seq, NEW k \in DOMAIN new,
                      seq[i].reason = NoReason, LevelIn(new, i) = k
               PROVE  i = new[k] + 1 /\ MayOpen(seq[i].lit, k, assumed, cl)
    BY DEF DecisionsFirst
  <2>1. CASE i = n
    <3>1. k = Len(lim) + 1 /\ seq[i].lit = l /\ new[k] = Len(tr)
      BY <2>1, <1>1, <1>2, <1>a
    <3>2. QED
      BY <2>1, <3>1, <1>2
  <2>2. CASE i # n
    <3>1. i \in DOMAIN tr /\ seq[i] = tr[i] /\ k \in DOMAIN lim /\ LevelIn(lim, i) = k /\ new[k] = lim[k]
      BY <2>2, <1>1, <1>2
    <3>2. QED
      BY <3>1 DEF TrailSound, DecisionsFirst
  <2>3. QED
    BY <2>1, <2>2
<1>6. AssumptionsTrue(seq, new, assumed)
  <2> SUFFICES ASSUME NEW k \in DOMAIN new \cap DOMAIN assumed
               PROVE  \E i \in DOMAIN seq : seq[i].lit = assumed[k] /\ LevelIn(new, i) <= k
    BY DEF AssumptionsTrue
  <2>a. k \in 1 .. Len(lim) + 1 /\ DOMAIN lim = 1 .. Len(lim) /\ Len(lim) \in Nat
    BY <1>1
  <2>b. k = Len(lim) + 1 \/ k \in DOMAIN lim
    BY ONLY <2>a
  <2>1. CASE k = Len(lim) + 1
    <3>1. LevelIn(new, n) <= k /\ n \in DOMAIN seq
      BY <2>1, <1>1, <1>2
    <3>2. seq[n].lit = assumed[k]
      <4>a. k \in DOMAIN assumed
        OBVIOUS
      <4>b. k \in 1 .. Len(assumed)
        BY <4>a, <1>c
      <4>c. k = Len(lim) + 1 /\ Len(lim) \in Nat
        BY <2>1, <1>1
      <4>1. Len(lim) < Len(assumed)
        BY ONLY <4>b, <4>c, <1>c
      <4>2. QED
        BY <4>1, <2>1, <1>2, <1>a
    <3>3. QED
      BY <3>1, <3>2
  <2>2. CASE k \in DOMAIN lim
    <3>1. PICK i \in DOMAIN tr : tr[i].lit = assumed[k] /\ LevelIn(lim, i) <= k
      BY <2>2 DEF TrailSound, AssumptionsTrue
    <3>2. QED
      BY <3>1, <1>1, <1>2
  <2>3. QED
    BY ONLY <2>1, <2>2, <2>b
<1>7. QED
  BY <1>1, <1>2, <1>b, <1>3, <1>4, <1>5, <1>6 DEF TrailSound, new, seq, e

(* Going back to a lower level. *)
LEMMA CutSound ==
    ASSUME NEW tr, NEW lim, NEW cls, NEW assumed, NEW cl,
           TrailSound(tr, lim, cls, assumed, cl), NEW n \in 0 .. Len(lim) - 1
    PROVE  LET cut == SubSeq(tr, 1, lim[n + 1])
               low == SubSeq(lim, 1, n)
           IN  /\ TrailSound(cut, low, cls, assumed, cl)
               /\ Len(low) = n /\ Len(cut) = lim[n + 1] /\ lim[n + 1] \in 0 .. Len(tr)
               /\ \A i \in DOMAIN cut :
                     /\ i \in DOMAIN tr /\ cut[i] = tr[i]
                     /\ LevelIn(low, i) = LevelIn(lim, i) /\ LevelIn(lim, i) <= n
               /\ \A i \in DOMAIN tr \ DOMAIN cut : LevelIn(lim, i) > n
<1> DEFINE m == lim[n + 1]
           cut == SubSeq(tr, 1, m)
           low == SubSeq(lim, 1, n)
<1>a. tr \in Seq(Step) /\ lim \in Seq(Nat) /\ Rising(lim) /\ \A k \in DOMAIN lim : lim[k] <= Len(tr)
  BY DEF TrailSound, LevelsOrdered, Rising
<1>b. /\ low \in Seq(Nat) /\ Rising(low) /\ Len(low) = n
      /\ \A k \in DOMAIN low : k \in DOMAIN lim /\ low[k] = lim[k] /\ lim[k] <= m
      /\ \A i \in Nat : i <= m => LevelIn(low, i) = LevelIn(lim, i) /\ LevelIn(lim, i) <= n
      /\ \A i \in Nat : i > m => LevelIn(low, i) = n /\ LevelIn(lim, i) > n
  BY <1>a, LevelCut
<1>c. n + 1 \in DOMAIN lim /\ m \in Nat /\ Len(tr) \in Nat /\ DOMAIN tr = 1 .. Len(tr) /\ n \in Nat
  BY <1>a
<1>d. m \in 0 .. Len(tr)
  BY <1>a, <1>c
<1>e. /\ cut \in Seq(Step) /\ Len(cut) = m /\ DOMAIN cut = 1 .. m
      /\ \A i \in 1 .. m : cut[i] = tr[i] /\ i \in DOMAIN tr
  BY <1>a, <1>c, <1>d
<1>f. DOMAIN low = 1 .. n
  BY <1>b, SeqFacts
<1> HIDE DEF m, cut, low
<1>1. ASSUME NEW i \in DOMAIN cut
      PROVE  /\ i \in DOMAIN tr /\ cut[i] = tr[i] /\ i \in 1 .. m
             /\ LevelIn(low, i) = LevelIn(lim, i) /\ LevelIn(lim, i) <= n
  <2>1. i \in Nat /\ i <= m
    BY <1>e, <1>c
  <2>2. QED
    BY <2>1, <1>b, <1>e
<1>2. ASSUME NEW i \in DOMAIN tr \ DOMAIN cut PROVE LevelIn(lim, i) > n
  <2>1. i \in Nat /\ i > m
    BY <1>c, <1>e
  <2>2. QED
    BY <2>1, <1>b
<1>3. LevelsOrdered(cut, low)
  BY <1>b, <1>e DEF LevelsOrdered, Rising
<1>4. AssignedOnce(cut)
  BY <1>1 DEF TrailSound, AssignedOnce
<1>5. ReasonsSound(cut, cls)
  <2> SUFFICES ASSUME NEW i \in DOMAIN cut, cut[i].reason # NoReason
               PROVE  /\ cut[i].lit \in cut[i].reason /\ Entails(cls, cut[i].reason)
                      /\ \A q \in cut[i].reason \ {cut[i].lit} :
                            \E j \in DOMAIN cut : j < i /\ cut[j].lit = -q
    BY DEF ReasonsSound
  <2>1. /\ tr[i].lit \in tr[i].reason /\ Entails(cls, tr[i].reason)
        /\ \A q \in tr[i].reason \ {tr[i].lit} : \E j \in DOMAIN tr : j < i /\ tr[j].lit = -q
    BY <1>1 DEF TrailSound, ReasonsSound
  <2>2. ASSUME NEW j \in DOMAIN tr, j < i PROVE j \in DOMAIN cut /\ cut[j] = tr[j]
    <3>1. j \in 1 .. m
      BY <2>2, <1>1, <1>c
    <3>2. QED
      BY <3>1, <1>e
  <2>3. ASSUME NEW q \in cut[i].reason \ {cut[i].lit}
        PROVE  \E j \in DOMAIN cut : j < i /\ cut[j].lit = -q
    <3>1. PICK j \in DOMAIN tr : j < i /\ tr[j].lit = -q
      BY <2>1, <1>1
    <3>2. QED
      BY <3>1, <2>2
  <2>4. QED
    BY <2>1, <2>3, <1>1
<1>6. Level0Implied(cut, low, cls)
  BY <1>1 DEF TrailSound, Level0Implied
<1>7. DecisionsFirst(cut, low, assumed, cl)
  <2> SUFFICES ASSUME NEW i \in DOMAIN cut, NEW k \in DOMAIN low,
                      cut[i].reason = NoReason, LevelIn(low, i) = k
               PROVE  i = low[k] + 1 /\ MayOpen(cut[i].lit, k, assumed, cl)
    BY DEF DecisionsFirst
  <2>1. i \in DOMAIN tr /\ cut[i] = tr[i] /\ k \in DOMAIN lim /\ LevelIn(lim, i) = k /\ low[k] = lim[k]
    BY <1>1, <1>b
  <2>2. QED
    BY <2>1 DEF TrailSound, DecisionsFirst
<1>8. AssumptionsTrue(cut, low, assumed)
  <2> SUFFICES ASSUME NEW k \in DOMAIN low \cap DOMAIN assumed
               PROVE  \E i \in DOMAIN cut : cut[i].lit = assumed[k] /\ LevelIn(low, i) <= k
    BY DEF AssumptionsTrue
  <2>1. k \in DOMAIN lim /\ k \in DOMAIN assumed
    BY <1>b
  <2>2. PICK i \in DOMAIN tr : tr[i].lit = assumed[k] /\ LevelIn(lim, i) <= k
    BY <2>1 DEF TrailSound, AssumptionsTrue
  <2>3. i \in DOMAIN cut
    <3>1. k <= n /\ k \in Nat
      BY <1>f, <1>c
    <3>2. LevelIn(lim, i) \in Nat
      <4>1. i \in Nat
        BY <1>c
      <4>2. QED
        BY <4>1, <1>a, LevelMeaning, SeqFacts
    <3>3. ~(LevelIn(lim, i) > n)
      BY <3>1, <3>2, <2>2, <1>c
    <3>4. QED
      BY <3>3, <1>2
  <2>4. QED
    BY <2>2, <2>3, <1>1
<1>9. QED
  BY <1>b, <1>d, <1>e, <1>1, <1>2, <1>3, <1>4, <1>5, <1>6, <1>7, <1>8 DEF TrailSound, m, cut, low

(* simplify forgets the reasons of level 0, nothing else is there. *)
LEMMA ForgetSound ==
    ASSUME NEW tr, NEW cls, NEW assumed, NEW cl, TrailSound(tr, <<>>, cls, assumed, cl)
    PROVE  TrailSound([i \in DOMAIN tr |-> Entry(tr[i].lit, NoReason)], <<>>, cls, assumed, cl)
<1> DEFINE new == [i \in DOMAIN tr |-> Entry(tr[i].lit, NoReason)]
<1>1. tr \in Seq(Step) /\ Len(tr) \in Nat /\ DOMAIN tr = 1 .. Len(tr)
  BY TrailFacts DEF TrailSound
<1>2. ASSUME NEW i \in DOMAIN tr PROVE new[i].lit = tr[i].lit /\ new[i].reason = NoReason /\ new[i] \in Step
  <2>1. new[i] = [lit |-> tr[i].lit, reason |-> {}]
    BY DEF Entry, NoReason
  <2>2. tr[i].lit \in MapLit
    BY <1>1, TrailFacts
  <2>3. QED
    BY <2>1, <2>2 DEF NoReason, Step
<1>3. DOMAIN new = DOMAIN tr
  OBVIOUS
<1>4. new \in [1 .. Len(tr) -> Step]
  BY <1>1, <1>2
<1> HIDE DEF new
<1>5. new \in Seq(Step) /\ Len(new) = Len(tr)
  BY <1>1, <1>3, <1>4, SeqFacts
<1>6. QED
  BY <1>1, <1>2, <1>3, <1>5
  DEF TrailSound, LevelsOrdered, AssignedOnce, ReasonsSound, Level0Implied, DecisionsFirst,
      AssumptionsTrue, new

(* Clauses are only added, and a query starts at level 0. *)
LEMMA MoreClauses ==
    ASSUME NEW tr, NEW lim, NEW cls, NEW assumed, NEW cl,
           TrailSound(tr, lim, cls, assumed, cl), NEW more, cls \subseteq more
    PROVE  TrailSound(tr, lim, more, assumed, cl)
BY EntailsMore DEF TrailSound, ReasonsSound, Level0Implied

LEMMA OtherQuery ==
    ASSUME NEW tr, NEW cls, NEW assumed, NEW cl, TrailSound(tr, <<>>, cls, assumed, cl),
           NEW other, NEW cl2
    PROVE  TrailSound(tr, <<>>, cls, other, cl2)
BY DEF TrailSound, DecisionsFirst, AssumptionsTrue

---------------------------------------------------------------------------
(* Functions defined down and up the trail exist. *)

Down(g, n, S, base, step) ==
    /\ g \in [1 .. n + 1 -> S] /\ g[n + 1] = base
    /\ \A i \in 1 .. n : g[i] = step[<<i, g[i + 1]>>]

Up(g, n, S, base, step) ==
    /\ g \in [0 .. n -> S] /\ g[0] = base
    /\ \A i \in 1 .. n : g[i] = step[<<i, g[i - 1]>>]

LEMMA DownFunction ==
    ASSUME NEW n \in Nat, NEW S, NEW base \in S, NEW step \in [(1 .. n) \X S -> S]
    PROVE  \E g : Down(g, n, S, base, step)
<1> DEFINE Good(k, g) == /\ g \in [k .. n + 1 -> S] /\ g[n + 1] = base
                         /\ \A i \in k .. n : g[i] = step[<<i, g[i + 1]>>]
           T == {k \in 1 .. n + 1 : \E g : Good(k, g)}
<1>1. n + 1 \in T
  <2> DEFINE g == [i \in n + 1 .. n + 1 |-> base]
  <2>1. Good(n + 1, g)
    OBVIOUS
  <2>2. QED
    BY <2>1
<1>2. PICK k \in T : \A m \in T : k <= m
  <2>1. T \in SUBSET Nat
    OBVIOUS
  <2>2. T # {}
    BY <1>1
  <2>3. QED
    BY ONLY <2>1, <2>2, LeastNat
<1>3. k \in 1 .. n + 1 /\ \E g : Good(k, g)
  BY <1>2
<1>4. PICK g : Good(k, g)
  BY <1>3
<1>5. ASSUME k # 1 PROVE FALSE
  <2> DEFINE m == k - 1
             h == [i \in m .. n + 1 |-> IF i = m THEN step[<<m, g[k]>>] ELSE g[i]]
  <2>1. m \in 1 .. n /\ m + 1 = k /\ k \in k .. n + 1 /\ m \in Nat /\ ~(k <= m)
    BY <1>3, <1>5
  <2>2. g[k] \in S /\ step[<<m, g[k]>>] \in S
    BY <1>4, <2>1
  <2>3. h \in [m .. n + 1 -> S]
    <3>1. ASSUME NEW i \in m .. n + 1, i # m PROVE g[i] \in S
      <4>1. i \in k .. n + 1
        BY <2>1, <3>1, <1>3
      <4>2. QED
        BY <4>1, <1>4
    <3>2. QED
      BY <3>1, <2>2
  <2>4. h[n + 1] = base
    BY <1>4, <2>1
  <2>5. ASSUME NEW i \in m .. n PROVE h[i] = step[<<i, h[i + 1]>>]
    <3>1. i + 1 \in m .. n + 1 /\ i + 1 # m /\ i \in m .. n + 1
      BY <2>1
    <3>2. h[i + 1] = g[i + 1]
      BY <3>1
    <3>3. CASE i = m
      BY <3>1, <3>2, <3>3, <2>1
    <3>4. CASE i # m
      <4>1. i \in k .. n
        BY <3>4, <2>1, <1>3
      <4>2. QED
        BY <4>1, <3>1, <3>2, <3>4, <1>4
    <3>5. QED
      BY <3>3, <3>4
  <2>6. Good(m, h)
    BY <2>3, <2>4, <2>5
  <2>7. m \in T
    <3>1. m \in 1 .. n + 1
      BY <2>1
    <3>2. QED
      BY <3>1, <2>6
  <2>8. QED
    BY <2>7, <2>1, <1>2
<1>6. Good(1, g)
  BY <1>4, <1>5
<1>7. QED
  BY <1>6 DEF Down

LEMMA UpFunction ==
    ASSUME NEW n \in Nat, NEW S, NEW base \in S, NEW step \in [(1 .. n) \X S -> S]
    PROVE  \E g : Up(g, n, S, base, step)
<1> DEFINE turned == [p \in (1 .. n) \X S |-> step[<<n + 1 - p[1], p[2]>>]]
<1>1. \A i \in 1 .. n : n + 1 - i \in 1 .. n
  OBVIOUS
<1>2. turned \in [(1 .. n) \X S -> S]
  <2> SUFFICES ASSUME NEW i \in 1 .. n, NEW x \in S PROVE step[<<n + 1 - i, x>>] \in S
    OBVIOUS
  <2>1. <<n + 1 - i, x>> \in (1 .. n) \X S
    BY <1>1
  <2>2. QED
    BY <2>1
<1>3. PICK g : Down(g, n, S, base, turned)
  <2> HIDE DEF turned
  <2>1. QED
    BY <1>2, DownFunction
<1>a. /\ g \in [1 .. n + 1 -> S] /\ g[n + 1] = base
      /\ \A i \in 1 .. n : g[i] = turned[<<i, g[i + 1]>>]
  BY <1>3 DEF Down
<1> DEFINE h == [i \in 0 .. n |-> g[n + 1 - i]]
<1>4. h \in [0 .. n -> S] /\ h[0] = base
  <2>1. \A i \in 0 .. n : n + 1 - i \in 1 .. n + 1
    OBVIOUS
  <2>2. QED
    BY <2>1, <1>a
<1>5. ASSUME NEW i \in 1 .. n PROVE h[i] = step[<<i, h[i - 1]>>]
  <2> DEFINE j == n + 1 - i
  <2>1. j \in 1 .. n /\ j + 1 \in 1 .. n + 1 /\ n + 1 - (i - 1) = j + 1 /\ n + 1 - j = i
        /\ i \in 0 .. n /\ i - 1 \in 0 .. n
    OBVIOUS
  <2>2. h[i] = g[j] /\ h[i - 1] = g[j + 1]
    BY <2>1
  <2>3. g[j] = turned[<<j, g[j + 1]>>] /\ g[j + 1] \in S
    BY <2>1, <1>a
  <2>4. turned[<<j, g[j + 1]>>] = step[<<i, g[j + 1]>>]
    BY <2>1, <2>3
  <2>5. QED
    BY <2>2, <2>3, <2>4
<1>6. Up(h, n, S, base, step)
  BY <1>4, <1>5 DEF Up
<1>7. QED
  BY <1>6

---------------------------------------------------------------------------
(* Reading the trail. *)

Sound == TrailSound(trail, trail_lim, map, assumptions, call)

FalseLit(l) ==
    l \in MapLit /\ Position(l) \in DOMAIN trail /\ trail[Position(l)].lit = -l

LEMMA SoundFacts ==
    ASSUME Sound
    PROVE  /\ trail \in Seq(Step) /\ trail_lim \in Seq(Nat) /\ Rising(trail_lim)
           /\ Len(trail) \in Nat /\ DOMAIN trail = 1 .. Len(trail)
           /\ Len(trail_lim) \in Nat /\ DOMAIN trail_lim = 1 .. Len(trail_lim)
           /\ \A k \in DOMAIN trail_lim : trail_lim[k] \in Nat /\ trail_lim[k] <= Len(trail)
           /\ \A i \in DOMAIN trail :
                 /\ i \in Nat /\ trail[i].lit \in MapLit /\ trail[i].reason \in SUBSET MapLit
                 /\ LevelAt(i) = LevelIn(trail_lim, i)
                 /\ LevelAt(i) \in 0 .. decisionLevel
                 /\ \A k \in DOMAIN trail_lim : trail_lim[k] < i <=> k <= LevelAt(i)
<1>1. /\ trail \in Seq(Step) /\ trail_lim \in Seq(Nat) /\ Rising(trail_lim)
      /\ \A k \in DOMAIN trail_lim : trail_lim[k] <= Len(trail)
  BY DEF Sound, TrailSound, LevelsOrdered, Rising
<1>2. /\ Len(trail) \in Nat /\ DOMAIN trail = 1 .. Len(trail)
      /\ Len(trail_lim) \in Nat /\ DOMAIN trail_lim = 1 .. Len(trail_lim)
      /\ \A k \in DOMAIN trail_lim : trail_lim[k] \in Nat
  BY <1>1
<1>3. ASSUME NEW i \in DOMAIN trail
      PROVE  /\ i \in Nat /\ trail[i].lit \in MapLit /\ trail[i].reason \in SUBSET MapLit
             /\ LevelAt(i) = LevelIn(trail_lim, i)
             /\ LevelAt(i) \in 0 .. decisionLevel
             /\ \A k \in DOMAIN trail_lim : trail_lim[k] < i <=> k <= LevelAt(i)
  <2>1. i \in Nat /\ trail[i].lit \in MapLit /\ trail[i].reason \in SUBSET MapLit
    BY <1>1, <1>2, TrailFacts
  <2>2. LevelAt(i) = LevelIn(trail_lim, i)
    BY DEF LevelAt, LevelIn
  <2>3. /\ LevelIn(trail_lim, i) \in 0 .. Len(trail_lim)
        /\ \A k \in DOMAIN trail_lim : trail_lim[k] < i <=> k <= LevelIn(trail_lim, i)
    BY <1>1, <2>1, LevelMeaning
  <2>4. QED
    BY <2>1, <2>2, <2>3 DEF decisionLevel
<1>4. QED
  BY <1>1, <1>2, <1>3

LEMMA PositionIs ==
    ASSUME Sound, NEW i \in DOMAIN trail, NEW l \in MapLit, trail[i].lit \in {l, -l}
    PROVE  Position(l) = i /\ Level(l) = LevelAt(i) /\ Reason(l) = trail[i].reason
<1>1. ASSUME NEW j \in DOMAIN trail, trail[j].lit \in {l, -l} PROVE j = i
  <2>1. l \in Int /\ -(-l) = l
    BY LitFacts
  <2>2. ASSUME j # i PROVE trail[j].lit # trail[i].lit /\ trail[j].lit # -trail[i].lit
    BY <2>2 DEF Sound, TrailSound, AssignedOnce
  <2>3. QED
    BY <2>1, <2>2, <1>1
<1>2. Position(l) = i
  BY <1>1 DEF Position
<1>3. QED
  BY <1>2 DEF Level, Reason

LEMMA FalseLitAt ==
    ASSUME Sound, NEW i \in DOMAIN trail, NEW l \in MapLit, trail[i].lit = -l
    PROVE  FalseLit(l) /\ Position(l) = i /\ Level(l) = LevelAt(i)
BY PositionIs DEF FalseLit

LEMMA FalseLitFacts ==
    ASSUME Sound, NEW l, FalseLit(l)
    PROVE  /\ Position(l) \in DOMAIN trail /\ trail[Position(l)].lit = -l /\ l \in MapLit
           /\ Level(l) = LevelAt(Position(l)) /\ Level(l) \in 0 .. decisionLevel
           /\ l = -trail[Position(l)].lit
           /\ Reason(l) = trail[Position(l)].reason
           /\ \A i \in DOMAIN trail : trail[i].lit # l
<1>1. Position(l) \in DOMAIN trail /\ trail[Position(l)].lit = -l /\ l \in MapLit
  BY DEF FalseLit
<1>2. Level(l) = LevelAt(Position(l)) /\ Reason(l) = trail[Position(l)].reason
  BY DEF Level, Reason
<1>3. LevelAt(Position(l)) \in 0 .. decisionLevel
  BY <1>1, SoundFacts
<1>4. l = -trail[Position(l)].lit
  BY <1>1, LitFacts
<1>5. ASSUME NEW i \in DOMAIN trail, trail[i].lit = l PROVE FALSE
  <2>1. Position(l) = i
    BY <1>1, <1>5, PositionIs
  <2>2. QED
    BY <2>1, <1>1, <1>5, LitFacts
<1>6. QED
  BY <1>1, <1>2, <1>3, <1>4, <1>5

(* A literal that is false at level 0 is false in every model. *)
LEMMA Level0False ==
    ASSUME Sound, NEW l, FalseLit(l), Level(l) = 0, NEW f \in Models
    PROVE  ~O!Holds(f, l)
<1>1. Position(l) \in DOMAIN trail /\ trail[Position(l)].lit = -l /\ l \in MapLit
      /\ LevelAt(Position(l)) = 0
  BY FalseLitFacts
<1>2. LevelIn(trail_lim, Position(l)) = 0
  BY <1>1, SoundFacts
<1>3. Entails(map, {-l})
  BY <1>1, <1>2 DEF Sound, TrailSound, Level0Implied
<1>4. O!Holds(f, -l)
  BY <1>3, EntailsUnit DEF Models
<1>5. QED
  BY <1>1, <1>4, NegHolds

LEMMA EntailsBy ==
    ASSUME NEW c, \A f \in Models : \E l \in c : O!Holds(f, l)
    PROVE  Entails(map, c)
BY DEF Entails, Models, O!HoldsAny

LEMMA EntailsIn ==
    ASSUME NEW c, Entails(map, c), NEW f \in Models
    PROVE  \E l \in c : O!Holds(f, l)
BY DEF Entails, Models, O!HoldsAny

LEMMA AboveLevel0Sound ==
    ASSUME Sound, NEW c, \A l \in c : FalseLit(l), Entails(map, c)
    PROVE  /\ Entails(map, AboveLevel0(c))
           /\ \A l \in AboveLevel0(c) : l \in c /\ FalseLit(l) /\ Level(l) > 0
<1>1. \A l \in c : Level(l) > 0 \/ Level(l) = 0
  BY FalseLitFacts, SoundFacts
<1>2. ASSUME NEW f \in Models PROVE \E l \in AboveLevel0(c) : O!Holds(f, l)
  <2>1. PICK l \in c : O!Holds(f, l)
    BY EntailsIn
  <2>2. Level(l) > 0
    BY <2>1, <1>1, Level0False
  <2>3. QED
    BY <2>1, <2>2 DEF AboveLevel0
<1>3. QED
  BY <1>2, EntailsBy DEF AboveLevel0

---------------------------------------------------------------------------
(* analyze: what is resolved from the conflict stays implied and false,    *)
(* and ends with one literal of the last level.                            *)

Resolvent(c) ==
    /\ Entails(map, c)
    /\ \A l \in c : FalseLit(l) /\ Level(l) > 0
    /\ OfLevel(c, decisionLevel) # {}

DownTo(c, i) ==
    /\ Resolvent(c)
    /\ \/ Cardinality(OfLevel(c, decisionLevel)) = 1
       \/ \A l \in OfLevel(c, decisionLevel) : Position(l) < i

LEMMA LevelOrder ==
    ASSUME Sound, NEW i \in DOMAIN trail, NEW j \in DOMAIN trail, i <= j
    PROVE  LevelAt(i) <= LevelAt(j)
BY SoundFacts, LevelMonotone

(* Two literals of the last level: the later one has a reason. *)
LEMMA LaterHasReason ==
    ASSUME Sound, NEW i \in DOMAIN trail, NEW j \in DOMAIN trail, j < i,
           LevelAt(i) = LevelAt(j), LevelAt(i) > 0
    PROVE  trail[i].reason # NoReason
<1> SUFFICES ASSUME trail[i].reason = NoReason PROVE FALSE
  OBVIOUS
<1> DEFINE n == LevelAt(j)
<1>1. /\ n \in DOMAIN trail_lim /\ trail_lim[n] < j /\ trail_lim[n] \in Nat
      /\ i \in Nat /\ j \in Nat /\ LevelIn(trail_lim, i) = n
  BY SoundFacts DEF decisionLevel
<1>2. i = trail_lim[n] + 1
  BY <1>1 DEF Sound, TrailSound, DecisionsFirst
<1>3. QED
  BY <1>1, <1>2

LEMMA ResolveStep ==
    ASSUME Sound, NEW i \in DOMAIN trail, NEW c, DownTo(c, i + 1)
    PROVE  DownTo(Resolve(c, trail[i]), i)
<1> DEFINE e == trail[i]
           last == OfLevel(c, decisionLevel)
           new == AboveLevel0((c \ {-e.lit}) \cup (e.reason \ {e.lit}))
<1>0. /\ i \in Nat /\ DOMAIN trail \subseteq Nat /\ e.lit \in MapLit /\ -e.lit \in MapLit
      /\ -(-e.lit) = e.lit /\ e.reason \in SUBSET MapLit
  BY SoundFacts, LitFacts
<1>1. CASE Cardinality(last) = 1
  BY <1>1 DEF Resolve, DownTo
<1>2. CASE Cardinality(last) # 1 /\ -e.lit \notin c
  <2>1. Resolve(c, e) = c
    BY <1>2 DEF Resolve
  <2>2. ASSUME NEW l \in last PROVE Position(l) < i
    <3>1. l \in c /\ FalseLit(l) /\ Position(l) < i + 1
      BY <1>2 DEF DownTo, Resolvent, OfLevel
    <3>2. Position(l) \in Nat /\ l = -trail[Position(l)].lit
      BY <3>1, FalseLitFacts, <1>0
    <3>3. Position(l) # i
      BY <3>1, <3>2, <1>2
    <3>4. QED
      BY <3>1, <3>2, <3>3, <1>0
  <2>3. QED
    BY <2>1, <2>2 DEF DownTo
<1>3. CASE Cardinality(last) # 1 /\ -e.lit \in c
  <2>1. Resolve(c, e) = new
    BY <1>3 DEF Resolve
  <2>2. FalseLit(-e.lit) /\ Position(-e.lit) = i /\ Level(-e.lit) = LevelAt(i)
    BY <1>0, FalseLitAt
  <2>3. PICK other \in last : other # -e.lit
    <3>1. last # {}
      BY DEF DownTo, Resolvent
    <3>2. ASSUME last \subseteq {-e.lit} PROVE FALSE
      <4>1. last = {-e.lit}
        BY <3>1, <3>2
      <4>2. Cardinality(last) = 1
        BY <4>1, FS_Singleton
      <4>3. QED
        BY <4>2, <1>3
    <3>3. QED
      BY <3>2
  <2>4. other \in c /\ Level(other) = decisionLevel /\ FalseLit(other) /\ Position(other) < i + 1
    BY <1>3 DEF DownTo, Resolvent, OfLevel
  <2> DEFINE j == Position(other)
  <2>5. j \in DOMAIN trail /\ j < i /\ LevelAt(j) = decisionLevel
    <3>1. j \in DOMAIN trail /\ j \in Nat /\ other = -trail[j].lit /\ LevelAt(j) = decisionLevel
      BY <2>4, FalseLitFacts, <1>0
    <3>2. j # i
      BY <3>1, <2>3
    <3>3. QED
      BY <3>1, <3>2, <2>4, <1>0
  <2>6. LevelAt(i) = decisionLevel /\ decisionLevel > 0
    <3>1. LevelAt(j) <= LevelAt(i)
      BY <2>5, <1>0, LevelOrder
    <3>2. LevelAt(i) \in 0 .. decisionLevel /\ decisionLevel \in Nat
      BY SoundFacts DEF decisionLevel
    <3>3. Level(other) > 0
      BY <2>4 DEF DownTo, Resolvent
    <3>4. QED
      BY <3>1, <3>2, <3>3, <2>4, <2>5
  <2>7. e.reason # NoReason
    BY <2>5, <2>6, LaterHasReason
  <2>8. /\ e.lit \in e.reason /\ Entails(map, e.reason)
        /\ \A q \in e.reason \ {e.lit} : \E k \in DOMAIN trail : k < i /\ trail[k].lit = -q
    BY <2>7 DEF Sound, TrailSound, ReasonsSound
  <2> DEFINE both == (c \ {-e.lit}) \cup (e.reason \ {e.lit})
  <2>9. ASSUME NEW q \in e.reason \ {e.lit} PROVE FalseLit(q) /\ Position(q) < i
    <3>1. PICK k \in DOMAIN trail : k < i /\ trail[k].lit = -q
      BY <2>8
    <3>2. q \in MapLit
      BY <1>0
    <3>3. QED
      BY <3>1, <3>2, FalseLitAt
  <2>10. \A l \in both : FalseLit(l)
    BY <2>9 DEF DownTo, Resolvent
  <2>11. Entails(map, both)
    <3>1. ASSUME NEW f \in Models PROVE \E l \in both : O!Holds(f, l)
      <4>1. PICK l \in c : O!Holds(f, l)
        BY EntailsIn DEF DownTo, Resolvent
      <4>2. PICK q \in e.reason : O!Holds(f, q)
        BY <2>8, EntailsIn
      <4>3. CASE l # -e.lit
        BY <4>1, <4>3
      <4>4. CASE l = -e.lit
        <5>1. ~O!Holds(f, e.lit)
          BY <4>1, <4>4, <1>0, NegHolds
        <5>2. q # e.lit
          BY <5>1, <4>2
        <5>3. QED
          BY <5>2, <4>2
      <4>5. QED
        BY <4>3, <4>4
    <3>2. QED
      BY <3>1, EntailsBy
  <2>12. /\ Entails(map, new)
         /\ \A l \in new : l \in both /\ FalseLit(l) /\ Level(l) > 0
    BY <2>10, <2>11, AboveLevel0Sound
  <2>13. other \in OfLevel(new, decisionLevel)
    BY <2>3, <2>4, <2>6 DEF AboveLevel0, OfLevel
  <2>14. ASSUME NEW l \in OfLevel(new, decisionLevel) PROVE Position(l) < i
    <3>1. l \in both /\ FalseLit(l) /\ Level(l) = decisionLevel
      BY <2>12 DEF OfLevel
    <3>2. CASE l \in e.reason \ {e.lit}
      BY <3>2, <2>9
    <3>3. CASE l \in c \ {-e.lit}
      <4>1. Position(l) < i + 1
        BY <3>1, <3>3, <1>3 DEF DownTo, OfLevel
      <4>2. Position(l) \in Nat /\ l = -trail[Position(l)].lit
        BY <3>1, FalseLitFacts, <1>0
      <4>3. Position(l) # i
        BY <4>2, <3>3
      <4>4. QED
        BY <4>1, <4>2, <4>3, <1>0
    <3>4. QED
      BY <3>1, <3>2, <3>3
  <2>15. DownTo(new, i)
    BY <2>12, <2>13, <2>14 DEF DownTo, Resolvent
  <2>16. QED
    BY <2>1, <2>15
<1>4. QED
  BY <1>1, <1>2, <1>3

LEMMA ResolveInside ==
    ASSUME Sound, NEW i \in DOMAIN trail, NEW c \in SUBSET MapLit
    PROVE  Resolve(c, trail[i]) \in SUBSET MapLit
<1>1. trail[i].reason \in SUBSET MapLit
  BY SoundFacts
<1>2. QED
  BY <1>1 DEF Resolve, AboveLevel0

LEMMA FirstUipSteps ==
    ASSUME Sound, confl \in SUBSET MapLit
    PROVE  \E g : /\ FirstUip = g[1]
                  /\ g[Len(trail) + 1] = AboveLevel0(confl)
                  /\ \A i \in 1 .. Len(trail) : g[i] = Resolve(g[i + 1], trail[i])
<1> DEFINE n == Len(trail)
           S == SUBSET MapLit
           base == AboveLevel0(confl)
           step == [p \in (1 .. n) \X S |-> Resolve(p[2], trail[p[1]])]
<1>1. n \in Nat /\ DOMAIN trail = 1 .. n
  BY SoundFacts
<1>2. base \in S
  BY DEF AboveLevel0
<1>3. step \in [(1 .. n) \X S -> S]
  <2> SUFFICES ASSUME NEW i \in 1 .. n, NEW c \in S PROVE Resolve(c, trail[i]) \in S
    OBVIOUS
  <2>1. QED
    BY <1>1, ResolveInside
<1>4. \E g : Down(g, n, S, base, step)
  <2> HIDE DEF n, S, base, step
  <2>1. QED
    BY <1>1, <1>2, <1>3, DownFunction
<1>5. PICK g : Down(g, n, S, base, step)
  BY <1>4
<1>6. /\ g \in [1 .. n + 1 -> S] /\ g[n + 1] = base
      /\ \A i \in 1 .. n : g[i] = step[<<i, g[i + 1]>>]
  BY <1>5 DEF Down
<1>7. \A i \in 1 .. n : g[i] = Resolve(g[i + 1], trail[i])
  <2> SUFFICES ASSUME NEW i \in 1 .. n PROVE g[i] = Resolve(g[i + 1], trail[i])
    OBVIOUS
  <2>1. g[i + 1] \in S
    BY <1>6, <1>1
  <2>2. QED
    BY <2>1, <1>6
<1>8. g = [i \in 1 .. n + 1 |-> IF i = n + 1 THEN base ELSE Resolve(g[i + 1], trail[i])]
  <2> HIDE DEF S, base, step, n
  <2>1. ASSUME NEW i \in 1 .. n + 1, i # n + 1 PROVE i \in 1 .. n
    BY <1>1, <2>1
  <2>2. ASSUME NEW i \in 1 .. n + 1
        PROVE  g[i] = IF i = n + 1 THEN base ELSE Resolve(g[i + 1], trail[i])
    BY <2>1, <1>6, <1>7
  <2>3. QED
    BY <2>2, <1>6
<1>9. \E h : h = [i \in 1 .. n + 1 |-> IF i = n + 1 THEN base ELSE Resolve(h[i + 1], trail[i])]
  BY <1>8
<1> DEFINE r == CHOOSE h : h = [i \in 1 .. n + 1 |->
                                  IF i = n + 1 THEN base ELSE Resolve(h[i + 1], trail[i])]
<1>10. r = [i \in 1 .. n + 1 |-> IF i = n + 1 THEN base ELSE Resolve(r[i + 1], trail[i])]
  BY <1>9
<1>11. FirstUip = r[1]
  BY DEF FirstUip
<1>12. r[n + 1] = base /\ \A i \in 1 .. n : r[i] = Resolve(r[i + 1], trail[i])
  <2> HIDE DEF r, base, n
  <2>1. n + 1 \in 1 .. n + 1 /\ \A i \in 1 .. n : i \in 1 .. n + 1 /\ i # n + 1
    BY <1>1
  <2>2. QED
    BY <2>1, <1>10
<1>13. QED
  BY <1>11, <1>12

(* The clause that analyze stops at. *)
LEMMA FirstUipSound ==
    ASSUME Sound, confl \in SUBSET MapLit, \A l \in confl : FalseLit(l), Entails(map, confl),
           OfLevel(confl, decisionLevel) # {}, decisionLevel > 0
    PROVE  Resolvent(FirstUip) /\ Cardinality(OfLevel(FirstUip, decisionLevel)) = 1
<1> DEFINE n == Len(trail)
<1>1. PICK g : /\ FirstUip = g[1] /\ g[n + 1] = AboveLevel0(confl)
               /\ \A i \in 1 .. n : g[i] = Resolve(g[i + 1], trail[i])
  BY FirstUipSteps
<1>2. n \in Nat /\ DOMAIN trail = 1 .. n
  BY SoundFacts
<1>3. DownTo(g[n + 1], n + 1)
  <2>1. Resolvent(AboveLevel0(confl))
    BY AboveLevel0Sound DEF Resolvent, OfLevel, AboveLevel0
  <2>2. ASSUME NEW l \in OfLevel(AboveLevel0(confl), decisionLevel) PROVE Position(l) < n + 1
    <3>1. FalseLit(l)
      BY DEF OfLevel, AboveLevel0
    <3>2. Position(l) \in 1 .. n
      BY <3>1, <1>2, FalseLitFacts
    <3>3. QED
      BY <3>2, <1>2
  <2>3. QED
    BY <2>1, <2>2, <1>1 DEF DownTo
<1>4. PICK k \in 1 .. n + 1 : DownTo(g[k], k) /\ \A m \in 1 .. n + 1 : DownTo(g[m], m) => k <= m
  <2> DEFINE T == {m \in 1 .. n + 1 : DownTo(g[m], m)}
  <2>1. n + 1 \in T
    BY <1>2, <1>3
  <2>2. T \in SUBSET Nat
    OBVIOUS
  <2>3. PICK k \in T : \A m \in T : k <= m
    BY <2>1, <2>2, LeastNat
  <2>4. QED
    BY <2>3
<1>5. ASSUME k # 1 PROVE FALSE
  <2> DEFINE m == k - 1
  <2>1. m \in 1 .. n /\ m + 1 = k /\ m \in 1 .. n + 1 /\ ~(k <= m)
    BY <1>2, <1>5
  <2>2. DownTo(Resolve(g[k], trail[m]), m)
    BY <2>1, <1>2, <1>4, ResolveStep
  <2>3. DownTo(g[m], m)
    BY <2>1, <2>2, <1>1
  <2>4. QED
    BY <2>1, <2>3, <1>4
<1>6. DownTo(FirstUip, 1)
  BY <1>1, <1>4, <1>5
<1>7. ASSUME NEW l \in OfLevel(FirstUip, decisionLevel) PROVE ~(Position(l) < 1)
  <2>1. FalseLit(l)
    BY <1>6 DEF DownTo, Resolvent, OfLevel
  <2>2. Position(l) \in 1 .. n
    BY <2>1, <1>2, FalseLitFacts
  <2>3. QED
    BY <2>2, <1>2
<1>8. OfLevel(FirstUip, decisionLevel) # {}
  BY <1>6 DEF DownTo, Resolvent
<1>9. QED
  BY <1>6, <1>7, <1>8 DEF DownTo

(* A clause that asserts one literal: implied, false, one literal of the   *)
(* last level.                                                             *)
Asserts(c, a) ==
    /\ Resolvent(c)
    /\ a \in c /\ Level(a) = decisionLevel
    /\ \A l \in c : Level(l) = decisionLevel => l = a

LEMMA OneOfLastLevel ==
    ASSUME NEW c, Resolvent(c), Cardinality(OfLevel(c, decisionLevel)) = 1,
           IsFiniteSet(c)
    PROVE  Asserts(c, Asserting(c))
<1>1. IsFiniteSet(OfLevel(c, decisionLevel))
  <2>1. OfLevel(c, decisionLevel) \subseteq c
    BY DEF OfLevel
  <2>2. QED
    BY <2>1, FS_Subset
<1>2. PICK a : OfLevel(c, decisionLevel) = {a}
  BY <1>1, FS_Singleton
<1>3. a \in c /\ Level(a) = decisionLevel /\ \A l \in c : Level(l) = decisionLevel => l = a
  BY <1>2 DEF OfLevel
<1>4. Asserting(c) = a
  BY <1>3 DEF Asserting
<1>5. QED
  BY <1>3, <1>4 DEF Asserts

LEMMA AssertingIs ==
    ASSUME NEW c, NEW a, Asserts(c, a)
    PROVE  Asserting(c) = a
BY DEF Asserts, Asserting

---------------------------------------------------------------------------
(* litRedundant: the literals left out are implied to be false by those    *)
(* that stay.                                                              *)

RedundantStep(c, below, i) ==
    IF RedundantEntry(c, below, trail[i]) THEN below \cup {i} ELSE below

LEMMA RedundantSteps ==
    ASSUME Sound, NEW c
    PROVE  \E g : /\ Redundant(c) = g[Len(trail)]
                  /\ g[0] = {}
                  /\ \A i \in 1 .. Len(trail) : g[i] = RedundantStep(c, g[i - 1], i)
<1> DEFINE n == Len(trail)
           S == SUBSET (1 .. n)
           base == {}
           step == [p \in (1 .. n) \X S |-> RedundantStep(c, p[2], p[1])]
<1>1. n \in Nat
  BY SoundFacts
<1>2. base \in S
  OBVIOUS
<1>3. step \in [(1 .. n) \X S -> S]
  <2> SUFFICES ASSUME NEW i \in 1 .. n, NEW X \in S PROVE RedundantStep(c, X, i) \in S
    OBVIOUS
  <2>1. QED
    BY DEF RedundantStep
<1>4. \E g : Up(g, n, S, base, step)
  <2> HIDE DEF n, S, base, step
  <2>1. QED
    BY <1>1, <1>2, <1>3, UpFunction
<1>5. PICK g : Up(g, n, S, base, step)
  BY <1>4
<1>6. /\ g \in [0 .. n -> S] /\ g[0] = {}
      /\ \A i \in 1 .. n : g[i] = step[<<i, g[i - 1]>>]
  BY <1>5 DEF Up
<1>7. \A i \in 1 .. n : g[i] = RedundantStep(c, g[i - 1], i)
  <2> SUFFICES ASSUME NEW i \in 1 .. n PROVE g[i] = RedundantStep(c, g[i - 1], i)
    OBVIOUS
  <2>1. i - 1 \in 0 .. n
    BY <1>1
  <2>2. g[i - 1] \in S
    BY <2>1, <1>6
  <2>3. QED
    BY <2>2, <1>6
<1>8. g = [i \in 0 .. n |-> IF i = 0 THEN {} ELSE RedundantStep(c, g[i - 1], i)]
  <2> HIDE DEF S, base, step, n
  <2>1. ASSUME NEW i \in 0 .. n, i # 0 PROVE i \in 1 .. n
    BY <1>1, <2>1
  <2>2. ASSUME NEW i \in 0 .. n
        PROVE  g[i] = IF i = 0 THEN {} ELSE RedundantStep(c, g[i - 1], i)
    BY <2>1, <1>6, <1>7
  <2>3. QED
    BY <2>2, <1>6
<1>9. \E h : h = [i \in 0 .. n |-> IF i = 0 THEN {} ELSE RedundantStep(c, h[i - 1], i)]
  BY <1>8
<1> DEFINE r == CHOOSE h : h = [i \in 0 .. n |-> IF i = 0 THEN {} ELSE RedundantStep(c, h[i - 1], i)]
<1>10. r = [i \in 0 .. n |-> IF i = 0 THEN {} ELSE RedundantStep(c, r[i - 1], i)]
  BY <1>9
<1>11. Redundant(c) = r[n]
  BY DEF Redundant, RedundantStep
<1>12. r[0] = {} /\ \A i \in 1 .. n : r[i] = RedundantStep(c, r[i - 1], i)
  <2> HIDE DEF r, n
  <2>1. 0 \in 0 .. n /\ \A i \in 1 .. n : i \in 0 .. n /\ i # 0
    BY <1>1
  <2>2. QED
    BY <2>1, <1>10
<1>13. QED
  BY <1>11, <1>12

LEMMA RedundantSound ==
    ASSUME Sound, NEW c, NEW i \in Redundant(c)
    PROVE  i \in DOMAIN trail /\ RedundantEntry(c, Redundant(c), trail[i])
<1> DEFINE n == Len(trail)
           Fine(X) == \A j \in X : j \in 1 .. n /\ RedundantEntry(c, X, trail[j])
<1>1. PICK g : /\ Redundant(c) = g[n] /\ g[0] = {}
               /\ \A k \in 1 .. n : g[k] = RedundantStep(c, g[k - 1], k)
  BY RedundantSteps
<1>2. n \in Nat /\ DOMAIN trail = 1 .. n
  BY SoundFacts
<1>3. ASSUME NEW X, Fine(X), NEW k \in 1 .. n PROVE Fine(RedundantStep(c, X, k))
  <2>1. CASE RedundantEntry(c, X, trail[k])
    <3>1. RedundantStep(c, X, k) = X \cup {k}
      BY <2>1 DEF RedundantStep
    <3>2. \A j \in X \cup {k} : j \in 1 .. n /\ RedundantEntry(c, X, trail[j])
      BY <2>1, <1>3
    <3>3. \A j \in X \cup {k} : RedundantEntry(c, X \cup {k}, trail[j])
      BY <3>2 DEF RedundantEntry
    <3>4. QED
      BY <3>1, <3>2, <3>3
  <2>2. CASE ~RedundantEntry(c, X, trail[k])
    BY <2>2, <1>3 DEF RedundantStep
  <2>3. QED
    BY <2>1, <2>2
<1> HIDE DEF Fine
<1>4. \A k \in 0 .. n : Fine(g[k])
  <2> DEFINE T == {k \in 0 .. n : ~Fine(g[k])}
  <2> SUFFICES ASSUME T # {} PROVE FALSE
    OBVIOUS
  <2>1. PICK k \in T : \A m \in T : k <= m
    <3>1. T \in SUBSET Nat
      OBVIOUS
    <3>2. QED
      BY <3>1, LeastNat
  <2>2. k # 0
    BY <2>1, <1>1 DEF Fine
  <2>3. k \in 1 .. n /\ k - 1 \in 0 .. n /\ ~(k <= k - 1)
    BY <2>1, <2>2, <1>2
  <2>4. Fine(g[k - 1])
    BY <2>1, <2>3
  <2>5. Fine(g[k])
    BY <2>3, <2>4, <1>1, <1>3
  <2>6. QED
    BY <2>1, <2>5
<1>5. Fine(g[n])
  BY <1>2, <1>4
<1>6. QED
  BY <1>1, <1>2, <1>5 DEF Fine

LEMMA MinimizedSound ==
    ASSUME Sound, NEW c, NEW a, Asserts(c, a)
    PROVE  Asserts(Minimized(c), a)
<1> DEFINE D == Redundant(c)
           short == {l \in c : l = a \/ Position(l) \notin D}
<1>1. Minimized(c) = short
  BY AssertingIs DEF Minimized
<1>2. \A l \in c : FalseLit(l) /\ Level(l) > 0
  BY DEF Asserts, Resolvent
<1>3. ASSUME NEW f \in Models, \A l \in short : ~O!Holds(f, l) PROVE FALSE
  <2> DEFINE T == {i \in D : ~O!Holds(f, trail[i].lit)}
  <2>1. T \in SUBSET Nat
    BY RedundantSound, SoundFacts
  <2>2. T # {}
    <3>1. PICK l \in c : O!Holds(f, l)
      BY EntailsIn DEF Asserts, Resolvent
    <3>2. Position(l) \in D
      BY <3>1, <1>3
    <3>3. trail[Position(l)].lit = -l /\ l \in MapLit
      BY <1>2, FalseLitFacts
    <3>4. ~O!Holds(f, trail[Position(l)].lit)
      BY <3>1, <3>3, NegHolds
    <3>5. QED
      BY <3>2, <3>4
  <2>3. PICK i \in T : \A j \in T : i <= j
    BY <2>1, <2>2, LeastNat
  <2>4. i \in DOMAIN trail /\ RedundantEntry(c, D, trail[i]) /\ i \in Nat
    BY RedundantSound, SoundFacts
  <2>5. /\ trail[i].lit \in trail[i].reason /\ Entails(map, trail[i].reason)
        /\ \A q \in trail[i].reason \ {trail[i].lit} : \E j \in DOMAIN trail : j < i /\ trail[j].lit = -q
    BY <2>4 DEF RedundantEntry, Sound, TrailSound, ReasonsSound
  <2>6. PICK q \in trail[i].reason : O!Holds(f, q)
    BY <2>5, EntailsIn
  <2>7. q # trail[i].lit
    BY <2>3, <2>6
  <2>8. PICK j \in DOMAIN trail : j < i /\ trail[j].lit = -q
    BY <2>5, <2>6, <2>7
  <2>9. q \in MapLit /\ FalseLit(q) /\ Position(q) = j /\ j \in Nat
    <3>1. q \in MapLit
      BY <2>4, SoundFacts
    <3>2. QED
      BY <3>1, <2>8, FalseLitAt, SoundFacts
  <2>10. Level(q) # 0
    BY <2>6, <2>9, Level0False
  <2>11. j \in D
    <3>1. q \in c \ {a} \/ Position(q) \in D
      BY <2>4, <2>6, <2>7, <2>10, AssertingIs DEF RedundantEntry
    <3>2. CASE q \in c \ {a}
      <4>1. q \notin short
        BY <2>6, <1>3
      <4>2. QED
        BY <4>1, <3>2, <2>9
    <3>3. QED
      BY <3>1, <3>2, <2>9
  <2>12. ~O!Holds(f, trail[j].lit)
    BY <2>6, <2>8, <2>9, NegHolds
  <2>13. QED
    BY <2>3, <2>4, <2>8, <2>9, <2>11, <2>12
<1>4. Entails(map, short)
  BY <1>3, EntailsBy
<1>5. QED
  BY <1>1, <1>2, <1>4 DEF Asserts, Resolvent, OfLevel

---------------------------------------------------------------------------
(* analyzeFinal: the conflict is implied and speaks of assumptions only.   *)

LEMMA JustificationSteps ==
    ASSUME Sound, NEW p \in MapLit
    PROVE  \E g : /\ Justification(p) = g[1]
                  /\ g[Len(trail) + 1] = {p}
                  /\ \A i \in 1 .. Len(trail) : g[i] = Justify(g[i + 1], trail[i])
<1> DEFINE n == Len(trail)
           S == SUBSET MapLit
           base == {p}
           step == [x \in (1 .. n) \X S |-> Justify(x[2], trail[x[1]])]
<1>1. n \in Nat /\ DOMAIN trail = 1 .. n
  BY SoundFacts
<1>2. base \in S
  OBVIOUS
<1>3. step \in [(1 .. n) \X S -> S]
  <2> SUFFICES ASSUME NEW i \in 1 .. n, NEW X \in S PROVE Justify(X, trail[i]) \in S
    OBVIOUS
  <2>1. trail[i].reason \in SUBSET MapLit
    BY <1>1, SoundFacts
  <2>2. {-l : l \in AboveLevel0(trail[i].reason \ {trail[i].lit})} \subseteq MapLit
    BY <2>1, LitFacts DEF AboveLevel0
  <2>3. QED
    BY <2>2 DEF Justify
<1>4. \E g : Down(g, n, S, base, step)
  <2> HIDE DEF n, S, base, step
  <2>1. QED
    BY <1>1, <1>2, <1>3, DownFunction
<1>5. PICK g : Down(g, n, S, base, step)
  BY <1>4
<1>6. /\ g \in [1 .. n + 1 -> S] /\ g[n + 1] = base
      /\ \A i \in 1 .. n : g[i] = step[<<i, g[i + 1]>>]
  BY <1>5 DEF Down
<1>7. \A i \in 1 .. n : g[i] = Justify(g[i + 1], trail[i])
  <2> SUFFICES ASSUME NEW i \in 1 .. n PROVE g[i] = Justify(g[i + 1], trail[i])
    OBVIOUS
  <2>1. g[i + 1] \in S
    BY <1>6, <1>1
  <2>2. QED
    BY <2>1, <1>6
<1>8. g = [i \in 1 .. n + 1 |-> IF i = n + 1 THEN {p} ELSE Justify(g[i + 1], trail[i])]
  <2> HIDE DEF S, step, n
  <2>1. ASSUME NEW i \in 1 .. n + 1, i # n + 1 PROVE i \in 1 .. n
    BY <1>1, <2>1
  <2>2. ASSUME NEW i \in 1 .. n + 1
        PROVE  g[i] = IF i = n + 1 THEN {p} ELSE Justify(g[i + 1], trail[i])
    BY <2>1, <1>6, <1>7
  <2>3. QED
    BY <2>2, <1>6
<1>9. \E h : h = [i \in 1 .. n + 1 |-> IF i = n + 1 THEN {p} ELSE Justify(h[i + 1], trail[i])]
  BY <1>8
<1> DEFINE r == CHOOSE h : h = [i \in 1 .. n + 1 |->
                                  IF i = n + 1 THEN {p} ELSE Justify(h[i + 1], trail[i])]
<1>10. r = [i \in 1 .. n + 1 |-> IF i = n + 1 THEN {p} ELSE Justify(r[i + 1], trail[i])]
  BY <1>9
<1>11. Justification(p) = r[1]
  BY DEF Justification
<1>12. r[n + 1] = {p} /\ \A i \in 1 .. n : r[i] = Justify(r[i + 1], trail[i])
  <2> HIDE DEF r, n
  <2>1. n + 1 \in 1 .. n + 1 /\ \A i \in 1 .. n : i \in 1 .. n + 1 /\ i # n + 1
    BY <1>1
  <2>2. QED
    BY <2>1, <1>10
<1>13. QED
  BY <1>11, <1>12

Needs(i) == {-l : l \in AboveLevel0(trail[i].reason \ {trail[i].lit})}

LEMMA NeedsFacts ==
    ASSUME Sound, NEW i \in DOMAIN trail, NEW l \in Needs(i)
    PROVE  \E j \in DOMAIN trail : j < i /\ trail[j].lit = l
<1>1. PICK q \in trail[i].reason \ {trail[i].lit} : l = -q
  BY DEF Needs, AboveLevel0
<1>2. trail[i].reason # NoReason
  BY <1>1 DEF NoReason
<1>3. QED
  BY <1>1, <1>2 DEF Sound, TrailSound, ReasonsSound

(* What is seen on the way is true, and so is all that its reasons need. *)
LEMMA JustificationSound ==
    ASSUME Sound, NEW p \in MapLit, NEW at \in DOMAIN trail, trail[at].lit = p
    PROVE  /\ p \in Justification(p)
           /\ \A l \in Justification(p) : \E i \in DOMAIN trail : trail[i].lit = l
           /\ \A i \in DOMAIN trail : trail[i].lit \in Justification(p) => Needs(i) \subseteq Justification(p)
<1> DEFINE n == Len(trail)
           Good(X, k) == /\ p \in X
                         /\ \A l \in X : \E i \in DOMAIN trail : trail[i].lit = l
                         /\ \A i \in DOMAIN trail : i >= k /\ trail[i].lit \in X => Needs(i) \subseteq X
<1>1. PICK g : /\ Justification(p) = g[1] /\ g[n + 1] = {p}
               /\ \A i \in 1 .. n : g[i] = Justify(g[i + 1], trail[i])
  BY JustificationSteps
<1>2. n \in Nat /\ DOMAIN trail = 1 .. n
  BY SoundFacts
<1>3. Good(g[n + 1], n + 1)
  BY <1>1, <1>2
<1>4. ASSUME NEW k \in 1 .. n, NEW X, Good(X, k + 1) PROVE Good(Justify(X, trail[k]), k)
  <2>1. CASE trail[k].lit \notin X
    <3>1. Justify(X, trail[k]) = X
      BY <2>1 DEF Justify
    <3>2. ASSUME NEW i \in DOMAIN trail, i >= k, trail[i].lit \in X PROVE Needs(i) \subseteq X
      <4>1. i # k
        BY <3>2, <2>1
      <4>2. i >= k + 1
        BY <4>1, <3>2, <1>2
      <4>3. QED
        BY <4>2, <3>2, <1>4
    <3>3. QED
      BY <3>1, <3>2, <1>4
  <2>2. CASE trail[k].lit \in X
    <3> DEFINE Y == X \cup Needs(k)
    <3>1. Justify(X, trail[k]) = Y
      BY <2>2 DEF Justify, Needs
    <3>2. ASSUME NEW l \in Needs(k) PROVE \E j \in DOMAIN trail : j < k /\ trail[j].lit = l
      BY <1>2, NeedsFacts
    <3>3. \A l \in Y : \E i \in DOMAIN trail : trail[i].lit = l
      BY <3>2, <1>4
    <3>4. ASSUME NEW i \in DOMAIN trail, i >= k, trail[i].lit \in Y PROVE Needs(i) \subseteq Y
      <4>1. CASE i = k
        BY <4>1
      <4>2. CASE i # k /\ trail[i].lit \in X
        <5>1. i >= k + 1
          BY <4>2, <3>4, <1>2
        <5>2. QED
          BY <5>1, <4>2, <1>4
      <4>3. CASE trail[i].lit \in Needs(k)
        <5>1. PICK j \in DOMAIN trail : j < k /\ trail[j].lit = trail[i].lit
          BY <4>3, <3>2
        <5>2. j # i
          BY <5>1, <3>4, <1>2
        <5>3. QED
          BY <5>1, <5>2 DEF Sound, TrailSound, AssignedOnce
      <4>4. QED
        BY <4>1, <4>2, <4>3, <3>4
    <3>5. QED
      BY <3>1, <3>3, <3>4, <1>4
  <2>3. QED
    BY <2>1, <2>2
<1> HIDE DEF Good
<1>5. Good(g[1], 1)
  <2> DEFINE T == {k \in 1 .. n + 1 : Good(g[k], k)}
  <2>1. n + 1 \in T
    BY <1>2, <1>3
  <2>2. PICK k \in T : \A m \in T : k <= m
    <3>1. T \in SUBSET Nat /\ T # {}
      BY <2>1
    <3>2. QED
      BY <3>1, LeastNat
  <2>3. ASSUME k # 1 PROVE FALSE
    <3> DEFINE m == k - 1
    <3>1. m \in 1 .. n /\ m + 1 = k /\ m \in 1 .. n + 1 /\ ~(k <= m)
      BY <2>2, <2>3, <1>2
    <3>2. Good(Justify(g[k], trail[m]), m)
      BY <3>1, <2>2, <1>4
    <3>3. Good(g[m], m)
      BY <3>1, <3>2, <1>1
    <3>4. QED
      BY <3>1, <3>3, <2>2
  <2>4. QED
    BY <2>2, <2>3
<1>6. QED
  BY <1>1, <1>2, <1>5 DEF Good

LEMMA FinalConflictSound ==
    ASSUME Sound, NEW p \in MapLit, NEW at \in DOMAIN trail, trail[at].lit = p
    PROVE  Entails(map, FinalConflict(p))
<1> DEFINE J == Justification(p)
<1>1. /\ p \in J /\ \A l \in J : \E i \in DOMAIN trail : trail[i].lit = l
      /\ \A i \in DOMAIN trail : trail[i].lit \in J => Needs(i) \subseteq J
  BY JustificationSound
<1>2. ASSUME NEW f \in Models, \A l \in FinalConflict(p) : ~O!Holds(f, l) PROVE FALSE
  <2> DEFINE T == {i \in DOMAIN trail : trail[i].lit \in J /\ ~O!Holds(f, trail[i].lit)}
  <2>1. at \in T
    <3>1. ~O!Holds(f, p)
      BY <1>2 DEF FinalConflict
    <3>2. QED
      BY <3>1, <1>1
  <2>2. PICK i \in T : \A j \in T : i <= j
    <3>1. T \in SUBSET Nat /\ T # {}
      BY <2>1, SoundFacts
    <3>2. QED
      BY <3>1, LeastNat
  <2> DEFINE l == trail[i].lit
  <2>3. i \in Nat /\ l \in MapLit /\ l \in J /\ LevelAt(i) = LevelIn(trail_lim, i)
        /\ Level(l) = LevelAt(i) /\ Reason(l) = trail[i].reason /\ trail[i].reason \in SUBSET MapLit
        /\ LevelAt(i) \in 0 .. decisionLevel
    BY <2>2, SoundFacts, PositionIs
  <2>4. LevelAt(i) # 0
    <3>1. ASSUME LevelAt(i) = 0 PROVE FALSE
      <4>1. Entails(map, {l})
        BY <3>1, <2>3 DEF Sound, TrailSound, Level0Implied
      <4>2. O!Holds(f, l)
        BY <4>1, EntailsUnit DEF Models
      <4>3. QED
        BY <4>2, <2>2
    <3>2. QED
      BY <3>1
  <2>5. trail[i].reason # NoReason
    <3>1. ASSUME trail[i].reason = NoReason PROVE FALSE
      <4>1. Level(l) > 0
        BY <2>3, <2>4 DEF decisionLevel
      <4>2. -l \in FinalConflict(p)
        BY <4>1, <3>1, <2>3 DEF FinalConflict
      <4>3. ~O!Holds(f, -l)
        BY <4>2, <1>2
      <4>4. QED
        BY <4>3, <2>2, <2>3, NegHolds
    <3>2. QED
      BY <3>1
  <2>6. /\ Entails(map, trail[i].reason)
        /\ \A q \in trail[i].reason \ {l} : \E j \in DOMAIN trail : j < i /\ trail[j].lit = -q
    BY <2>2, <2>5 DEF Sound, TrailSound, ReasonsSound
  <2>7. PICK q \in trail[i].reason : O!Holds(f, q)
    BY <2>6, EntailsIn
  <2>8. q # l
    BY <2>2, <2>7
  <2>9. PICK j \in DOMAIN trail : j < i /\ trail[j].lit = -q
    BY <2>6, <2>7, <2>8
  <2>10. q \in MapLit /\ FalseLit(q) /\ j \in Nat
    BY <2>3, <2>7, <2>9, FalseLitAt, SoundFacts
  <2>11. Level(q) > 0
    <3>1. Level(q) # 0
      BY <2>7, <2>10, Level0False
    <3>2. Level(q) \in 0 .. decisionLevel /\ decisionLevel \in Nat
      BY <2>10, FalseLitFacts, SoundFacts DEF decisionLevel
    <3>3. QED
      BY <3>1, <3>2
  <2>12. -q \in J
    <3>1. -q \in Needs(i)
      BY <2>7, <2>8, <2>11 DEF Needs, AboveLevel0
    <3>2. QED
      BY <3>1, <2>2, <1>1
  <2>13. j \in T
    BY <2>7, <2>9, <2>10, <2>12, NegHolds
  <2>14. QED
    BY <2>13, <2>9, <2>10, <2>2, <2>3
<1>3. QED
  BY <1>2, EntailsBy

LEMMA FinalConflictOfAssumptions ==
    ASSUME Sound, NEW p \in MapLit, NEW at \in DOMAIN trail, trail[at].lit = p,
           assumptions \in Seq(MapLit), decisionLevel < Len(assumptions),
           NEW a \in ToSet(assumptions), p = -a
    PROVE  FinalConflict(p) \subseteq {-b : b \in ToSet(assumptions)}
<1> SUFFICES ASSUME NEW l \in Justification(p), Level(l) > 0, Reason(l) = NoReason
             PROVE  l \in ToSet(assumptions)
  BY DEF FinalConflict
<1>1. PICK i \in DOMAIN trail : trail[i].lit = l
  BY JustificationSound
<1>2. /\ l \in MapLit /\ LevelAt(i) = LevelIn(trail_lim, i) /\ LevelAt(i) \in 0 .. decisionLevel
      /\ Level(l) = LevelAt(i) /\ Reason(l) = trail[i].reason
      /\ DOMAIN trail_lim = 1 .. decisionLevel /\ decisionLevel \in Nat
  BY <1>1, SoundFacts, PositionIs DEF decisionLevel
<1> DEFINE k == LevelAt(i)
<1>3. k \in DOMAIN trail_lim /\ k \in 1 .. Len(assumptions) /\ Len(assumptions) \in Nat
      /\ DOMAIN assumptions = 1 .. Len(assumptions)
  BY <1>2, SeqFacts
<1>4. MayOpen(l, k, assumptions, call)
  BY <1>1, <1>2, <1>3 DEF Sound, TrailSound, DecisionsFirst
<1>5. l = assumptions[k]
  BY <1>3, <1>4 DEF MayOpen
<1>6. QED
  BY <1>3, <1>5 DEF ToSet

---------------------------------------------------------------------------
(* The steps.  First what they have in common.                             *)

LEMMA LevelsAre ==
    /\ \A i : LevelAt(i) = LevelIn(trail_lim, i)
    /\ \A i : LevelAt(i)' = LevelIn(trail_lim', i)
BY DEF LevelAt, LevelIn

LEMMA TrueFalse ==
    /\ \A l : IsTrue(l) <=> \E i \in DOMAIN trail : trail[i].lit = l
    /\ \A l : IsFalse(l) <=> \E i \in DOMAIN trail : trail[i].lit = -l
    /\ \A l : IsTrue(l)' <=> \E i \in DOMAIN trail' : trail'[i].lit = l
    /\ \A l : IsFalse(l)' <=> \E i \in DOMAIN trail' : trail'[i].lit = -l
BY DEF IsTrue, IsFalse, Assigned

(* Out of propagation the whole trail has been visited. *)
LEMMA AllVisited ==
    ASSUME Sound, QueueOfLastLevel, pc \notin {"propagate", "conflict"},
           NEW c, NEW i \in DOMAIN trail
    PROVE  Visited(c, i)
<1>1. qhead = Len(trail) /\ visit = {} /\ i \in 1 .. Len(trail) /\ Len(trail) \in Nat
  BY SoundFacts DEF QueueOfLastLevel
<1>2. i < qhead \/ i = qhead
  BY <1>1
<1>3. QED
  BY <1>1, <1>2 DEF Visited

(* Fewer clauses, or nothing new taken for visited. *)
LEMMA WatchesKept ==
    ASSUME WatchesSound, UNCHANGED <<trail, trail_lim>>,
           \A c \in DOMAIN watches' : c \in DOMAIN watches /\ watches'[c] = watches[c],
           \A c \in DOMAIN watches' : \A l \in watches'[c] : \A i \in DOMAIN trail :
              trail[i].lit = -l /\ Visited(c, i)' => Visited(c, i)
    PROVE  WatchesSound'
<1> SUFFICES ASSUME NEW c \in DOMAIN watches', NEW l \in watches'[c], NEW i \in DOMAIN trail',
                    trail'[i].lit = -l, Visited(c, i)'
             PROVE  \E j \in DOMAIN trail' : trail'[j].lit \in c /\ LevelAt(j)' <= LevelAt(i)'
  BY DEF WatchesSound
<1>1. \E j \in DOMAIN trail : trail[j].lit \in c /\ LevelAt(j) <= LevelAt(i)
  BY DEF WatchesSound
<1>2. \A j : LevelAt(j)' = LevelAt(j)
  BY LevelsAre
<1>3. QED
  BY <1>1, <1>2

LEMMA NothingLostKept ==
    ASSUME NothingLost, UNCHANGED map,
           \A i \in DOMAIN trail : LevelAt(i) = 0 =>
              \E j \in DOMAIN trail' : LevelAt(j)' = 0 /\ trail'[j].lit = trail[i].lit,
           Clauses \subseteq Clauses'
    PROVE  NothingLost'
<1> SUFFICES ASSUME NEW cl \in map
             PROVE  \/ \E i \in DOMAIN trail' : LevelAt(i)' = 0 /\ trail'[i].lit \in cl
                    \/ \E c \in Clauses' : c \subseteq cl
  BY DEF NothingLost
<1>1. CASE \E i \in DOMAIN trail : LevelAt(i) = 0 /\ trail[i].lit \in cl
  BY <1>1
<1>2. CASE \E c \in Clauses : c \subseteq cl
  BY <1>2
<1>3. QED
  BY <1>1, <1>2 DEF NothingLost

(* Steps that leave the trail and the clauses alone. *)
LEMMA Calm ==
    ASSUME Inv, UNCHANGED <<map, ok, trail, trail_lim, watches, learnts, qhead, visit, confl>>,
           pc \notin {"conflict"}, pc' # "conflict", qhead = Len(trail), visit = {}
    PROVE  /\ QueueOfLastLevel' /\ ClausesSound(watches', map')
           /\ ok' => WatchesSound' /\ NothingLost'
           /\ ConflictFalse'
<1>1. Sound
  BY DEF Inv, Sound
<1>2. \A i \in DOMAIN trail : i <= qhead /\ i \in Nat /\ (i < qhead \/ i = qhead)
  BY <1>1, SoundFacts
<1>3. QueueOfLastLevel'
  BY <1>2, <1>1, SoundFacts DEF QueueOfLastLevel
<1>4. ASSUME ok PROVE WatchesSound'
  <2>1. \A c, i : i \in DOMAIN trail => Visited(c, i)
    BY <1>2 DEF Visited
  <2>2. QED
    BY <1>4, <2>1, WatchesKept DEF Inv
<1>5. ASSUME ok PROVE NothingLost'
  <2>1. Clauses' = Clauses
    BY DEF Clauses
  <2>2. \A i : LevelAt(i)' = LevelAt(i)
    BY LevelsAre
  <2>3. QED
    BY <1>5, <2>1, <2>2, NothingLostKept DEF Inv
<1>6. QED
  BY <1>3, <1>4, <1>5 DEF Inv, ConflictFalse

LEMMA InvParts ==
    ASSUME Inv
    PROVE  /\ Sound /\ TypeOK /\ QueueOfLastLevel /\ ClausesSound(watches, map)
           /\ ConflictFalse /\ CallInProgress /\ AnswerKnown
           /\ ok => WatchesSound /\ NothingLost
BY DEF Inv, Sound

LEMMA InvFromParts ==
    ASSUME TypeOK', TrailSound(trail', trail_lim', map', assumptions', call'),
           QueueOfLastLevel', ClausesSound(watches', map'),
           ok' => WatchesSound' /\ NothingLost',
           ConflictFalse', CallInProgress', AnswerKnown'
    PROVE  Inv'
BY DEF Inv

LEMMA AddReturnsStep ==
    ASSUME Inv, AddReturns
    PROVE  Inv'
<1> USE DEF AddReturns, envVars, dbVars, searchVars
<1>1. qhead = Len(trail) /\ visit = {} /\ trail_lim = <<>> /\ call.op = "add" /\ call' = O!NoCall
  BY InvParts DEF QueueOfLastLevel, CallInProgress, O!Reply
<1>2. TrailSound(trail', trail_lim', map', assumptions', call')
  BY <1>1, InvParts, OtherQuery DEF Sound
<1>3. TypeOK'
  BY InvParts DEF TypeOK, ControlPoints
<1>4. CallInProgress'
  BY <1>1 DEF CallInProgress, Settled, O!NoCall
<1>5. AnswerKnown'
  BY InvParts DEF AnswerKnown
<1>6. QED
  BY <1>1, <1>2, <1>3, <1>4, <1>5, Calm, InvFromParts

LEMMA MapLitFinite ==
    IsFiniteSet(MapLit)
<1>1. MapLit \subseteq -dimension .. dimension
  BY MapSolverAssumption DEF MapLit, Constraint
<1>2. -dimension \in Int /\ dimension \in Int
  BY MapSolverAssumption
<1>3. IsFiniteSet(-dimension .. dimension)
  BY <1>2, FS_Interval
<1>4. QED
  BY <1>1, <1>3, FS_Subset

LEMMA SolveStep ==
    ASSUME Inv, Solve
    PROVE  Inv'
<1> USE DEF Solve, dbVars
<1>a. qhead = Len(trail) /\ visit = {} /\ call = O!NoCall
  BY InvParts DEF QueueOfLastLevel, CallInProgress
<1>b. call.op = "none"
  BY <1>a DEF O!NoCall
<1>1. qhead = Len(trail) /\ visit = {} /\ trail_lim = <<>>
  BY <1>a, <1>b, InvParts DEF CallInProgress
<1>2. PICK q \in Queries : assumptions' = q.assumptions /\ O!CallSolve(ToSet(q.assumptions), q.polarity)
  OBVIOUS
<1>3. q.assumptions \in Seq(MapLit) /\ q.polarity \in Polarity
  BY MapSolverAssumption DEF Query, Polarity
<1>4. /\ call' = [op |-> "solve", assumed |-> ToSet(assumptions'), polarity |-> q.polarity]
      /\ map' = map
  BY <1>2 DEF O!CallSolve
<1>5. TrailSound(trail', trail_lim', map', assumptions', call')
  BY <1>1, <1>4, InvParts, OtherQuery DEF Sound
<1>6. TypeOK'
  <2>1. Cardinality(Clauses) \in Nat
    <3>2. IsFiniteSet(SUBSET MapLit)
      BY MapLitFinite, FS_SUBSET
    <3>3. Clauses \subseteq SUBSET MapLit
      BY InvParts, ClauseFacts DEF Clauses, ClausesSound
    <3>4. QED
      BY <3>2, <3>3, FS_Subset, FS_CardinalityType
  <2>2. assumptions' \in Seq(MapLit)
    BY <1>2, <1>3
  <2>3. /\ conflict' \in SUBSET MapLit /\ solves' \in Nat /\ conflictC' \in Nat
        /\ curr_restarts' \in Nat /\ max_learnts' \in Nat /\ pc' \in ControlPoints
    <3>1. conflict' = {} /\ solves' = solves + 1 /\ conflictC' = 0 /\ curr_restarts' = 0
          /\ max_learnts' = Cardinality(Clauses) /\ pc' \in {"propagate", "no model"}
          /\ solves \in Nat
      BY InvParts DEF TypeOK
    <3>2. conflict' \in SUBSET MapLit
      BY ONLY <3>1
    <3>3. pc' \in ControlPoints
      BY ONLY <3>1 DEF ControlPoints
    <3>4. solves' \in Nat
      <4>1. solves \in Nat
        BY InvParts DEF TypeOK
      <4>2. solves' = solves + 1
        OBVIOUS
      <4>3. QED
        BY ONLY <4>1, <4>2
    <3>5. conflictC' \in Nat /\ curr_restarts' \in Nat
      BY ONLY <3>1
    <3>6. max_learnts' \in Nat
      BY ONLY <3>1, <2>1
    <3>7. QED
      BY <3>2, <3>3, <3>4, <3>5, <3>6
  <2>4. QED
    BY <2>2, <2>3, <1>4, InvParts DEF TypeOK
<1>7. CallInProgress'
  BY <1>1, <1>3, <1>4 DEF CallInProgress, Settled
<1>8. AnswerKnown'
  BY <1>4, InvParts DEF AnswerKnown
<1>9. QED
  BY <1>1, <1>4, <1>5, <1>6, <1>7, <1>8, Calm, InvFromParts

LEMMA PropagatedStep ==
    ASSUME Inv, Propagated
    PROVE  Inv'
<1> USE DEF Propagated, oracleVars, envVars, dbVars, searchVars
<1>1. TrailSound(trail', trail_lim', map', assumptions', call')
  BY InvParts DEF Sound
<1>2. TypeOK'
  BY InvParts DEF TypeOK, ControlPoints
<1>3. CallInProgress'
  BY InvParts DEF CallInProgress, Settled
<1>4. AnswerKnown'
  BY InvParts DEF AnswerKnown
<1>5. QED
  BY <1>1, <1>2, <1>3, <1>4, Calm, InvFromParts

LEMMA FinishedStep ==
    ASSUME Inv, UNCHANGED solverVars
    PROVE  Inv'
<1> USE DEF solverVars, oracleVars, envVars, dbVars, searchVars
<1>1. TrailSound(trail', trail_lim', map', assumptions', call')
  BY InvParts DEF Sound
<1>2. \A i : LevelAt(i)' = LevelAt(i)
  BY LevelsAre
<1>3. QueueOfLastLevel'
  BY <1>2, InvParts DEF QueueOfLastLevel, decisionLevel
<1>4. \A c, i : Visited(c, i)' <=> Visited(c, i)
  BY <1>2 DEF Visited, decisionLevel
<1>5. ok => WatchesSound'
  BY <1>4, InvParts, WatchesKept
<1>6. ok => NothingLost'
  <2>1. Clauses' = Clauses
    BY DEF Clauses
  <2>2. QED
    BY <2>1, <1>2, InvParts, NothingLostKept
<1>7. ConflictFalse'
  BY <1>2, InvParts DEF ConflictFalse, decisionLevel
<1>8. TypeOK' /\ CallInProgress' /\ ClausesSound(watches', map')
  BY InvParts DEF TypeOK, CallInProgress
<1>9. AnswerKnown'
  BY InvParts DEF AnswerKnown, decisionLevel, IsTrue, IsFalse, Assigned
<1>10. QED
  BY <1>1, <1>3, <1>5, <1>6, <1>7, <1>8, <1>9, InvFromParts

---------------------------------------------------------------------------
(* propagate *)

LEMMA SameClauses ==
    ASSUME UNCHANGED <<watches, learnts>>
    PROVE  Clauses' = Clauses
BY DEF Clauses

LEMMA SameLevels ==
    ASSUME UNCHANGED trail_lim
    PROVE  (\A i : LevelAt(i)' = LevelAt(i)) /\ decisionLevel' = decisionLevel
BY LevelsAre DEF decisionLevel

LEMMA TakeLiteralStep ==
    ASSUME Inv, TakeLiteral
    PROVE  Inv'
<1> USE DEF TakeLiteral, oracleVars, envVars, dbVars, searchVars
<1>0. (\A i : LevelAt(i)' = LevelAt(i)) /\ decisionLevel' = decisionLevel /\ ok
  BY SameLevels, InvParts DEF AnswerKnown
<1>1. /\ qhead \in Nat /\ qhead' = qhead + 1 /\ qhead' \in DOMAIN trail /\ pc' = "propagate"
      /\ Len(trail) \in Nat /\ DOMAIN trail = 1 .. Len(trail)
  BY InvParts, SoundFacts DEF TypeOK
<1>2. TrailSound(trail', trail_lim', map', assumptions', call')
  BY InvParts DEF Sound
<1>3. TypeOK'
  BY <1>1, InvParts DEF TypeOK
<1>4. QueueOfLastLevel'
  <2>1. \A c \in visit' : -trail'[qhead'].lit \in watches'[c]
    OBVIOUS
  <2>2. ASSUME NEW i \in DOMAIN trail, i > qhead' \/ i = qhead' PROVE LevelAt(i) = decisionLevel
    <3>1. i > qhead
      BY <2>2, <1>1
    <3>2. QED
      BY <3>1, InvParts DEF QueueOfLastLevel
  <2>3. qhead' > 0
    BY <1>1
  <2>4. QED
    BY <2>1, <2>2, <2>3, <1>0 DEF QueueOfLastLevel
<1>5. WatchesSound'
  <2> SUFFICES ASSUME NEW c \in DOMAIN watches, NEW l \in watches[c], NEW i \in DOMAIN trail,
                      trail[i].lit = -l, Visited(c, i)'
               PROVE  Visited(c, i)
    BY <1>0, InvParts, WatchesKept
  <2>1. l \in MapLit /\ -(-l) = l
    <3>1. l \in MapLit
      BY InvParts, ClauseFacts DEF ClausesSound
    <3>2. QED
      BY <3>1, LitFacts
  <2>2. i < qhead' \/ (i = qhead' /\ c \notin visit')
    BY <1>1 DEF Visited
  <2>3. i # qhead'
    BY <2>1, <2>2
  <2>4. i < qhead \/ i = qhead
    BY <2>2, <2>3, <1>1
  <2>5. QED
    BY <2>4 DEF Visited
<1>6. NothingLost'
  BY <1>0, SameClauses, InvParts, NothingLostKept
<1>7. ConflictFalse' /\ CallInProgress' /\ ClausesSound(watches', map')
  BY InvParts DEF ConflictFalse, CallInProgress
<1>8. AnswerKnown'
  BY InvParts DEF AnswerKnown
<1>9. QED
  BY <1>2, <1>3, <1>4, <1>5, <1>6, <1>7, <1>8, InvFromParts

(* The clause visited watches the literal that has become false. *)
LEMMA VisitFacts ==
    ASSUME Inv, pc = "propagate", NEW c \in visit, NEW first \in watches[c] \ {-trail[qhead].lit}
    PROVE  /\ ok /\ qhead \in DOMAIN trail /\ LevelAt(qhead) = decisionLevel
           /\ c \in DOMAIN watches /\ c \in MapClause /\ Entails(map, c)
           /\ watches[c] = {first, -trail[qhead].lit}
           /\ first # -trail[qhead].lit /\ first \in c /\ -trail[qhead].lit \in c
           /\ call.op \in {"add", "solve"}
<1>1. c \in DOMAIN watches /\ -trail[qhead].lit \in watches[c] /\ qhead > 0
  BY InvParts DEF QueueOfLastLevel, TypeOK
<1>2. qhead \in DOMAIN trail
  BY <1>1, InvParts, SoundFacts DEF TypeOK
<1>3. LevelAt(qhead) = decisionLevel
  BY <1>2, InvParts DEF QueueOfLastLevel
<1>4. PICK a \in c, b \in c : a # b /\ watches[c] = {a, b}
  BY <1>1, InvParts DEF ClausesSound
<1>5. watches[c] = {first, -trail[qhead].lit} /\ first \in c /\ -trail[qhead].lit \in c
  BY <1>1, <1>4
<1>6. c \in MapClause /\ Entails(map, c)
  BY <1>1, InvParts DEF ClausesSound
<1>7. ok
  BY InvParts DEF AnswerKnown
<1>8. call.op \in {"add", "solve"}
  BY InvParts DEF CallInProgress
<1>9. QED
  BY <1>1, <1>2, <1>3, <1>5, <1>6, <1>7, <1>8

(* In a visit without a conflict, what is left to visit gets smaller. *)
LEMMA VisitedLess ==
    ASSUME pc = "propagate", pc' = "propagate", qhead' = qhead, UNCHANGED <<trail, trail_lim>>,
           NEW c, visit' = visit \ {c}, NEW d, d # c, NEW i, Visited(d, i)'
    PROVE  Visited(d, i)
BY DEF Visited

LEMMA VisitTrueStep ==
    ASSUME Inv, pc = "propagate", NEW c \in visit, NEW first \in watches[c] \ {-trail[qhead].lit},
           \E l \in c : IsTrue(l), visit' = visit \ {c},
           UNCHANGED <<watches, trail, qhead, pc, confl>>,
           UNCHANGED <<oracleVars, envVars, learnts, searchVars, ok, trail_lim>>
    PROVE  Inv'
<1> USE DEF oracleVars, envVars, searchVars
<1>0. (\A i : LevelAt(i)' = LevelAt(i)) /\ decisionLevel' = decisionLevel
  BY SameLevels
<1>1. /\ ok /\ qhead \in DOMAIN trail /\ LevelAt(qhead) = decisionLevel
  BY VisitFacts
<1>2. TrailSound(trail', trail_lim', map', assumptions', call')
  BY InvParts DEF Sound
<1>3. TypeOK'
  BY InvParts DEF TypeOK
<1>4. QueueOfLastLevel'
  BY <1>0, <1>1, InvParts DEF QueueOfLastLevel
<1>5. WatchesSound'
  <2> SUFFICES ASSUME NEW d \in DOMAIN watches, NEW l \in watches[d], NEW i \in DOMAIN trail,
                      trail[i].lit = -l, Visited(d, i)'
               PROVE  \E j \in DOMAIN trail : trail[j].lit \in d /\ LevelAt(j) <= LevelAt(i)
    BY <1>0 DEF WatchesSound
  <2>1. CASE Visited(d, i)
    BY <2>1, <1>1, InvParts DEF WatchesSound
  <2>2. CASE ~Visited(d, i)
    <3>1. d = c /\ i = qhead
      BY <2>2 DEF Visited
    <3>2. PICK j \in DOMAIN trail : trail[j].lit \in c
      BY TrueFalse
    <3>3. LevelAt(j) <= decisionLevel
      BY <3>2, InvParts, SoundFacts DEF decisionLevel
    <3>4. QED
      BY <3>1, <3>2, <3>3, <1>1
  <2>3. QED
    BY <2>1, <2>2
<1>6. NothingLost'
  BY <1>0, <1>1, SameClauses, InvParts, NothingLostKept
<1>7. ConflictFalse' /\ CallInProgress' /\ ClausesSound(watches', map')
  BY InvParts DEF ConflictFalse, CallInProgress
<1>8. AnswerKnown'
  BY InvParts DEF AnswerKnown
<1>9. QED
  BY <1>2, <1>3, <1>4, <1>5, <1>6, <1>7, <1>8, InvFromParts

LEMMA VisitMoveStep ==
    ASSUME Inv, pc = "propagate", NEW c \in visit, NEW first \in watches[c] \ {-trail[qhead].lit},
           NEW w \in NewWatches(c), watches' = [watches EXCEPT ![c] = w], visit' = visit \ {c},
           UNCHANGED <<trail, qhead, pc, confl>>,
           UNCHANGED <<oracleVars, envVars, learnts, searchVars, ok, trail_lim>>
    PROVE  Inv'
<1> USE DEF oracleVars, envVars, searchVars
<1>0. (\A i : LevelAt(i)' = LevelAt(i)) /\ decisionLevel' = decisionLevel
  BY SameLevels
<1>1. /\ ok /\ qhead \in DOMAIN trail /\ c \in DOMAIN watches
      /\ watches[c] = {first, -trail[qhead].lit}
      /\ first # -trail[qhead].lit /\ first \in c /\ c \in MapClause
  BY VisitFacts
<1>a. PICK l \in c : w = {first, l} /\ l \notin watches[c] /\ ~IsFalse(l)
  BY <1>1 DEF NewWatches
<1>b. /\ DOMAIN watches' = DOMAIN watches /\ watches'[c] = {first, l}
      /\ \A d \in DOMAIN watches : d # c => watches'[d] = watches[d]
  BY <1>1, <1>a
<1>2. TrailSound(trail', trail_lim', map', assumptions', call')
  BY InvParts DEF Sound
<1>3. TypeOK'
  BY <1>b, InvParts DEF TypeOK
<1>4. QueueOfLastLevel'
  BY <1>0, <1>1, <1>b, InvParts DEF QueueOfLastLevel, TypeOK
<1>5. WatchesSound'
  <2> SUFFICES ASSUME NEW d \in DOMAIN watches, NEW k \in watches'[d], NEW i \in DOMAIN trail,
                      trail[i].lit = -k, Visited(d, i)'
               PROVE  \E j \in DOMAIN trail : trail[j].lit \in d /\ LevelAt(j) <= LevelAt(i)
    BY <1>0, <1>b DEF WatchesSound
  <2>1. k \in watches[d] /\ Visited(d, i)
    <3>1. CASE d # c
      BY <3>1, <1>b, VisitedLess
    <3>2. CASE d = c
      <4>1. k # l
        BY <1>a, TrueFalse
      <4>2. k = first
        BY <4>1, <3>2, <1>b
      <4>3. i # qhead
        <5>1. first \in MapLit
          BY <1>1, ClauseFacts
        <5>2. QED
          BY <5>1, <4>2, <1>1, LitFacts
      <4>4. QED
        BY <4>2, <4>3, <3>2, <1>1 DEF Visited
    <3>3. QED
      BY <3>1, <3>2
  <2>2. QED
    BY <2>1, <1>1, InvParts DEF WatchesSound
<1>6. NothingLost'
  <2>1. Clauses' = Clauses
    BY <1>b DEF Clauses
  <2>2. QED
    BY <2>1, <1>0, <1>1, InvParts, NothingLostKept
<1>7. ClausesSound(watches', map')
  <2> SUFFICES ASSUME NEW d \in DOMAIN watches
               PROVE  d \in MapClause /\ Entails(map, d) /\ \E a, b \in d : a # b /\ watches'[d] = {a, b}
    BY <1>b DEF ClausesSound
  <2>1. d \in MapClause /\ Entails(map, d) /\ \E a, b \in d : a # b /\ watches[d] = {a, b}
    BY InvParts DEF ClausesSound
  <2>2. CASE d = c
    BY <2>1, <2>2, <1>1, <1>a, <1>b
  <2>3. CASE d # c
    BY <2>1, <2>3, <1>b
  <2>4. QED
    BY <2>2, <2>3
<1>8. ConflictFalse' /\ CallInProgress'
  BY InvParts DEF ConflictFalse, CallInProgress
<1>9. AnswerKnown'
  BY InvParts DEF AnswerKnown
<1>10. QED
  BY <1>2, <1>3, <1>4, <1>5, <1>6, <1>7, <1>8, <1>9, InvFromParts

(* No other literal to watch: the rest of the clause is false. *)
LEMMA RestFalse ==
    ASSUME Inv, pc = "propagate", NEW c \in visit, NEW first \in watches[c] \ {-trail[qhead].lit},
           NewWatches(c) = {}, NEW q \in c \ {first}
    PROVE  \E j \in DOMAIN trail : trail[j].lit = -q
<1>1. /\ qhead \in DOMAIN trail /\ watches[c] = {first, -trail[qhead].lit} /\ c \in MapClause
  BY VisitFacts
<1>2. CASE q = -trail[qhead].lit
  <2>1. trail[qhead].lit \in MapLit
    BY <1>1, InvParts, SoundFacts
  <2>2. -q = trail[qhead].lit
    BY <2>1, <1>2, LitFacts
  <2>3. QED
    BY <2>2, <1>1
<1>3. CASE q # -trail[qhead].lit
  <2>1. q \in c \ watches[c]
    BY <1>1, <1>3
  <2>2. IsFalse(q)
    <3>1. ASSUME ~IsFalse(q) PROVE FALSE
      <4>1. {first, q} \in NewWatches(c)
        BY <2>1, <3>1 DEF NewWatches
      <4>2. QED
        BY <4>1
    <3>2. QED
      BY <3>1
  <2>3. QED
    BY <2>2, TrueFalse
<1>4. QED
  BY <1>2, <1>3

LEMMA VisitConflictStep ==
    ASSUME Inv, pc = "propagate", NEW c \in visit, NEW first \in watches[c] \ {-trail[qhead].lit},
           NewWatches(c) = {}, IsFalse(first), confl' = c, pc' = "conflict",
           qhead' = Len(trail), visit' = {}, UNCHANGED <<watches, trail>>,
           UNCHANGED <<oracleVars, envVars, learnts, searchVars, ok, trail_lim>>
    PROVE  Inv'
<1> USE DEF oracleVars, envVars, searchVars
<1>0. (\A i : LevelAt(i)' = LevelAt(i)) /\ decisionLevel' = decisionLevel
  BY SameLevels
<1>1. /\ ok /\ qhead \in DOMAIN trail /\ LevelAt(qhead) = decisionLevel
      /\ c \in DOMAIN watches /\ c \in MapClause /\ first \in c
      /\ -trail[qhead].lit \in c /\ call.op \in {"add", "solve"}
  BY VisitFacts
<1>a. Len(trail) \in Nat /\ DOMAIN trail = 1 .. Len(trail) /\ trail[qhead].lit \in MapLit
  BY <1>1, InvParts, SoundFacts
<1>2. TrailSound(trail', trail_lim', map', assumptions', call')
  BY InvParts DEF Sound
<1>3. TypeOK'
  <2>1. confl' \in SUBSET MapLit
    BY <1>1, ClauseFacts
  <2>2. qhead' \in 0 .. Len(trail')
    BY <1>a
  <2>3. QED
    BY <2>1, <2>2, InvParts DEF TypeOK, ControlPoints
<1>4. QueueOfLastLevel'
  BY <1>a DEF QueueOfLastLevel
<1>5. WatchesSound'
  <2> SUFFICES ASSUME NEW d \in DOMAIN watches, NEW i \in DOMAIN trail, Visited(d, i)'
               PROVE  Visited(d, i)
    BY <1>1, InvParts, WatchesKept
  <2>1. LevelAt(i) # decisionLevel
    <3>1. LevelAt(i) < decisionLevel /\ LevelAt(i) \in 0 .. decisionLevel
      BY <1>0, InvParts, SoundFacts DEF Visited
    <3>2. QED
      BY <3>1
  <2>2. ~(i > qhead) /\ i # qhead
    BY <2>1, <1>1, InvParts DEF QueueOfLastLevel
  <2>3. i < qhead
    BY <2>2, <1>1, <1>a
  <2>4. QED
    BY <2>3 DEF Visited
<1>6. NothingLost'
  BY <1>0, <1>1, SameClauses, InvParts, NothingLostKept
<1>7. ConflictFalse'
  <2>1. \A l \in c : \E i \in DOMAIN trail : trail[i].lit = -l
    BY RestFalse, TrueFalse
  <2>2. trail[qhead].lit = -(-trail[qhead].lit)
    BY <1>a, LitFacts
  <2>3. QED
    BY <2>1, <2>2, <1>0, <1>1 DEF ConflictFalse
<1>8. CallInProgress' /\ ClausesSound(watches', map')
  BY <1>1, InvParts DEF CallInProgress, Settled
<1>9. AnswerKnown'
  BY InvParts DEF AnswerKnown
<1>10. QED
  BY <1>2, <1>3, <1>4, <1>5, <1>6, <1>7, <1>8, <1>9, InvFromParts

LEMMA LastLevel ==
    ASSUME Sound, NEW i \in Nat, i > Len(trail)
    PROVE  LevelIn(trail_lim, i) = decisionLevel
<1>1. \A k \in DOMAIN trail_lim : trail_lim[k] < i <=> k <= decisionLevel
  BY SoundFacts DEF decisionLevel
<1>2. decisionLevel \in 0 .. Len(trail_lim)
  BY SoundFacts DEF decisionLevel
<1>3. QED
  BY <1>1, <1>2, SoundFacts, LevelIs

(* At level 0 a unit clause makes its literal a consequence. *)
LEMMA UnitAtLevel0 ==
    ASSUME Sound, NEW c \in SUBSET MapLit, NEW l \in c, Entails(map, c), decisionLevel = 0,
           \A q \in c \ {l} : \E j \in DOMAIN trail : trail[j].lit = -q
    PROVE  Entails(map, {l})
<1>1. ASSUME NEW f \in Models PROVE \E k \in {l} : O!Holds(f, k)
  <2>1. PICK q \in c : O!Holds(f, q)
    BY EntailsIn
  <2>2. ASSUME q # l PROVE FALSE
    <3>1. PICK j \in DOMAIN trail : trail[j].lit = -q
      BY <2>2
    <3>2. FalseLit(q) /\ Level(q) = LevelAt(j)
      BY <3>1, FalseLitAt
    <3>3. LevelAt(j) = 0
      BY SoundFacts
    <3>4. QED
      BY <3>2, <3>3, <2>1, Level0False
  <2>3. QED
    BY <2>1, <2>2
<1>2. QED
  BY <1>1, EntailsBy

LEMMA VisitPushStep ==
    ASSUME Inv, pc = "propagate", NEW c \in visit, NEW first \in watches[c] \ {-trail[qhead].lit},
           NewWatches(c) = {}, Undefined(first), trail' = Append(trail, Entry(first, c)),
           visit' = visit \ {c}, UNCHANGED <<watches, qhead, pc, confl>>,
           UNCHANGED <<oracleVars, envVars, learnts, searchVars, ok, trail_lim>>
    PROVE  Inv'
<1> USE DEF oracleVars, envVars, searchVars
<1> DEFINE e == Entry(first, c)
           n == Len(trail) + 1
<1>0. (\A i : LevelAt(i)' = LevelAt(i)) /\ decisionLevel' = decisionLevel
  BY SameLevels
<1>1. /\ ok /\ qhead \in DOMAIN trail /\ LevelAt(qhead) = decisionLevel
      /\ c \in DOMAIN watches /\ c \in MapClause /\ first \in c /\ Entails(map, c)
      /\ call.op \in {"add", "solve"}
  BY VisitFacts
<1>a. Len(trail) \in Nat /\ DOMAIN trail = 1 .. Len(trail) /\ trail \in Seq(Step)
      /\ decisionLevel = Len(trail_lim) /\ decisionLevel \in Nat
  BY InvParts, SoundFacts DEF decisionLevel
<1>b. e \in Step /\ e.lit = first /\ e.reason = c /\ c \in SUBSET MapLit
  <2>1. c \in SUBSET MapLit /\ first \in MapLit
    BY <1>1, ClauseFacts
  <2>2. QED
    BY <2>1 DEF Entry, Step
<1>c. /\ DOMAIN trail' = 1 .. n /\ Len(trail') = n /\ n \in Nat /\ n > Len(trail)
      /\ trail'[n] = e
      /\ \A i \in DOMAIN trail : trail'[i] = trail[i] /\ i \in DOMAIN trail'
      /\ \A i \in DOMAIN trail' : i = n \/ i \in DOMAIN trail
  <2> HIDE DEF e
  <2>1. QED
    BY <1>a, <1>b, PushFacts DEF e
<1>d. LevelAt(n) = decisionLevel
  BY <1>c, InvParts, LastLevel, LevelsAre
<1>e. \A q \in c \ {first} : \E j \in DOMAIN trail : trail[j].lit = -q
  BY RestFalse
<1>f. \A i \in DOMAIN trail : trail[i].lit # first /\ trail[i].lit # -first
  BY TrueFalse DEF Undefined
<1> HIDE DEF n
<1>2. TrailSound(trail', trail_lim', map', assumptions', call')
  <2>1. Len(trail_lim) = 0 => Entails(map, {first})
    BY <1>a, <1>b, <1>e, <1>1, InvParts, UnitAtLevel0
  <2>2. c # NoReason
    BY <1>1 DEF NoReason
  <2>3. TrailSound(Append(trail, e), trail_lim, map, assumptions, call)
    <3> HIDE DEF e
    <3>1. QED
      BY <2>1, <2>2, <1>b, <1>e, <1>f, <1>1, InvParts, PushSound DEF Sound
  <2>4. QED
    BY <2>3
<1>3. TypeOK'
  <2>1. trail' \in Seq(Step)
    BY <1>2 DEF TrailSound
  <2>2. qhead' \in 0 .. Len(trail')
    BY <1>a, <1>c, InvParts DEF TypeOK
  <2>3. QED
    BY <2>1, <2>2, InvParts DEF TypeOK
<1>4. QueueOfLastLevel'
  <2>1. ASSUME NEW i \in DOMAIN trail', i > qhead \/ (i = qhead /\ visit # {}) PROVE LevelAt(i) = decisionLevel
    BY <2>1, <1>c, <1>d, InvParts DEF QueueOfLastLevel
  <2>2. trail'[qhead] = trail[qhead] /\ qhead > 0
    BY <1>1, <1>c, <1>a
  <2>3. QED
    BY <2>1, <2>2, <1>0, InvParts DEF QueueOfLastLevel
<1>5. WatchesSound'
  <2> SUFFICES ASSUME NEW d \in DOMAIN watches, NEW k \in watches[d], NEW i \in DOMAIN trail',
                      trail'[i].lit = -k, Visited(d, i)'
               PROVE  \E j \in DOMAIN trail' : trail'[j].lit \in d /\ LevelAt(j) <= LevelAt(i)
    BY <1>0 DEF WatchesSound
  <2>1. i \in DOMAIN trail /\ (i < qhead \/ i = qhead)
    <3>1. i < qhead \/ i = qhead
      BY DEF Visited
    <3>2. QED
      BY <3>1, <1>1, <1>a, <1>c
  <2>2. CASE Visited(d, i)
    <3>1. PICK j \in DOMAIN trail : trail[j].lit \in d /\ LevelAt(j) <= LevelAt(i)
      BY <2>1, <2>2, <1>1, <1>c, InvParts DEF WatchesSound
    <3>2. QED
      BY <3>1, <1>c
  <2>3. CASE ~Visited(d, i)
    <3>1. d = c /\ i = qhead
      BY <2>3 DEF Visited
    <3>2. n \in DOMAIN trail' /\ trail'[n].lit \in d
      BY <3>1, <1>1, <1>b, <1>c
    <3>3. LevelAt(n) <= LevelAt(i)
      BY <3>1, <1>1, <1>a, <1>d
    <3>4. QED
      BY <3>2, <3>3
  <2>4. QED
    BY <2>2, <2>3
<1>6. NothingLost'
  BY <1>0, <1>1, <1>c, SameClauses, InvParts, NothingLostKept
<1>7. ConflictFalse' /\ CallInProgress' /\ ClausesSound(watches', map')
  BY InvParts DEF ConflictFalse, CallInProgress
<1>8. AnswerKnown'
  BY InvParts DEF AnswerKnown
<1>9. QED
  BY <1>2, <1>3, <1>4, <1>5, <1>6, <1>7, <1>8, InvFromParts

LEMMA VisitStep ==
    ASSUME Inv, Visit
    PROVE  Inv'
<1>1. PICK c \in visit : \E first \in watches[c] \ {-trail[qhead].lit} :
          \/ /\ \E l \in c : IsTrue(l)
             /\ visit' = visit \ {c}
             /\ UNCHANGED <<watches, trail, qhead, pc, confl>>
          \/ /\ ~IsTrue(first)
             /\ \E w \in NewWatches(c) : watches' = [watches EXCEPT ![c] = w]
             /\ visit' = visit \ {c}
             /\ UNCHANGED <<trail, qhead, pc, confl>>
          \/ /\ ~IsTrue(first) /\ NewWatches(c) = {} /\ IsFalse(first)
             /\ confl' = c /\ pc' = "conflict"
             /\ qhead' = Len(trail) /\ visit' = {}
             /\ UNCHANGED <<watches, trail>>
          \/ /\ NewWatches(c) = {} /\ Undefined(first)
             /\ trail' = Append(trail, Entry(first, c))
             /\ visit' = visit \ {c}
             /\ UNCHANGED <<watches, qhead, pc, confl>>
  BY DEF Visit
<1>2. pc = "propagate" /\ UNCHANGED <<oracleVars, envVars, learnts, searchVars, ok, trail_lim>>
  BY DEF Visit
<1>3. QED
  BY <1>1, <1>2, VisitTrueStep, VisitMoveStep, VisitConflictStep, VisitPushStep

---------------------------------------------------------------------------
(* Going back. *)

LEMMA LastLevelIn ==
    ASSUME NEW tr, NEW lim, NEW cls, NEW assumed, NEW cl, TrailSound(tr, lim, cls, assumed, cl),
           NEW i \in Nat, i > Len(tr)
    PROVE  LevelIn(lim, i) = Len(lim)
<1>1. /\ tr \in Seq(Step) /\ lim \in Seq(Nat) /\ Rising(lim)
      /\ \A k \in DOMAIN lim : lim[k] <= Len(tr)
  BY DEF TrailSound, LevelsOrdered, Rising
<1>2. /\ Len(tr) \in Nat /\ Len(lim) \in Nat /\ DOMAIN lim = 1 .. Len(lim)
      /\ \A k \in DOMAIN lim : lim[k] \in Nat
  BY <1>1
<1>3. \A k \in DOMAIN lim : lim[k] < i <=> k <= Len(lim)
  BY <1>1, <1>2
<1>4. Len(lim) \in 0 .. Len(lim)
  BY <1>2
<1>5. QED
  BY <1>1, <1>3, <1>4, LevelIs

(* The entries that stay when the search goes back to a level: those of    *)
(* this level and the ones below.                                          *)
LEMMA KeptFacts ==
    ASSUME Sound, NEW n \in 0 .. decisionLevel - 1
    PROVE  /\ TrailSound(Kept(n), SubSeq(trail_lim, 1, n), map, assumptions, call)
           /\ Len(SubSeq(trail_lim, 1, n)) = n
           /\ \A i \in DOMAIN Kept(n) :
                 /\ i \in DOMAIN trail /\ Kept(n)[i] = trail[i]
                 /\ LevelIn(SubSeq(trail_lim, 1, n), i) = LevelAt(i) /\ LevelAt(i) <= n
           /\ \A i \in DOMAIN trail : LevelAt(i) <= n => i \in DOMAIN Kept(n)
<1>1. Kept(n) = SubSeq(trail, 1, trail_lim[n + 1])
  BY SoundFacts DEF Kept, decisionLevel
<1>2. n \in 0 .. Len(trail_lim) - 1
  BY DEF decisionLevel
<1>a. n \in Nat /\ \A i : LevelAt(i) = LevelIn(trail_lim, i)
  BY LevelsAre
<1>3. /\ TrailSound(Kept(n), SubSeq(trail_lim, 1, n), map, assumptions, call)
      /\ Len(SubSeq(trail_lim, 1, n)) = n
      /\ \A i \in DOMAIN Kept(n) :
            /\ i \in DOMAIN trail /\ Kept(n)[i] = trail[i]
            /\ LevelIn(SubSeq(trail_lim, 1, n), i) = LevelIn(trail_lim, i) /\ LevelIn(trail_lim, i) <= n
      /\ \A i \in DOMAIN trail \ DOMAIN Kept(n) : LevelIn(trail_lim, i) > n
  BY <1>1, <1>2, CutSound DEF Sound
<1>4. ASSUME NEW i \in DOMAIN trail, LevelAt(i) <= n PROVE i \in DOMAIN Kept(n)
  <2>1. LevelIn(trail_lim, i) \in Nat /\ LevelIn(trail_lim, i) <= n
    BY <1>4, <1>a, SoundFacts
  <2>2. ~(LevelIn(trail_lim, i) > n)
    BY <2>1, <1>a
  <2>3. QED
    BY <2>2, <1>3
<1>5. QED
  BY <1>a, <1>3, <1>4

(* The same for cancelUntil(0), at whatever level. *)
LEMMA CancelFacts ==
    ASSUME Sound, CancelUntil0
    PROVE  /\ TrailSound(trail', <<>>, map, assumptions, call) /\ trail_lim' = <<>>
           /\ qhead' = Len(trail')
           /\ \A i \in DOMAIN trail' :
                 /\ i \in DOMAIN trail /\ trail'[i] = trail[i]
                 /\ LevelAt(i)' = 0 /\ LevelAt(i) = 0
           /\ \A i \in DOMAIN trail : LevelAt(i) = 0 => i \in DOMAIN trail'
<1>1. trail' = Kept(0) /\ trail_lim' = <<>> /\ qhead' = Len(Kept(0))
  BY DEF CancelUntil0
<1>2. decisionLevel = Len(trail_lim) /\ decisionLevel \in Nat /\ trail_lim \in Seq(Nat)
      /\ \A i \in DOMAIN trail : i \in Nat /\ LevelAt(i) \in 0 .. decisionLevel
  BY SoundFacts DEF decisionLevel
<1>3. CASE decisionLevel = 0
  <2>1. Kept(0) = trail
    BY <1>3 DEF Kept
  <2>2. trail_lim = <<>>
    <3>1. trail_lim \in Seq(Nat) /\ Len(trail_lim) = 0
      BY <1>2, <1>3
    <3>2. QED
      BY <3>1, EmptySeq
  <2>3. \A i \in DOMAIN trail : LevelAt(i) = 0 /\ LevelAt(i)' = LevelAt(i)
    BY <1>1, <1>2, <1>3, <2>2, SameLevels
  <2>4. QED
    BY <1>1, <2>1, <2>2, <2>3 DEF Sound
<1>4. CASE decisionLevel # 0
  <2>1. 0 \in 0 .. decisionLevel - 1
    BY <1>2, <1>4
  <2>2. SubSeq(trail_lim, 1, 0) = <<>>
    <3>1. SubSeq(trail_lim, 1, 0) \in Seq(Nat) /\ Len(SubSeq(trail_lim, 1, 0)) = 0
      BY <1>2
    <3>2. QED
      BY <3>1, EmptySeq
  <2>3. /\ TrailSound(Kept(0), <<>>, map, assumptions, call)
        /\ \A i \in DOMAIN Kept(0) :
              /\ i \in DOMAIN trail /\ Kept(0)[i] = trail[i]
              /\ LevelIn(<<>>, i) = LevelAt(i) /\ LevelAt(i) <= 0
        /\ \A i \in DOMAIN trail : LevelAt(i) <= 0 => i \in DOMAIN Kept(0)
    BY <2>1, <2>2, KeptFacts
  <2>4. \A i : LevelAt(i)' = LevelIn(<<>>, i)
    BY <1>1, LevelsAre
  <2>5. \A i \in DOMAIN Kept(0) : LevelAt(i) = 0
    BY <2>3, <1>2
  <2>6. \A i \in DOMAIN trail : LevelAt(i) = 0 => i \in DOMAIN Kept(0)
    BY <2>3
  <2>7. QED
    BY <1>1, <2>3, <2>4, <2>5, <2>6
<1>5. QED
  BY <1>3, <1>4

(* A watch that is false below the last level is not alone. *)
LEMMA WatchesBelow ==
    ASSUME Inv, ok, pc # "propagate", NEW c \in DOMAIN watches, NEW l \in watches[c],
           NEW i \in DOMAIN trail, trail[i].lit = -l,
           LevelAt(i) < decisionLevel \/ pc # "conflict"
    PROVE  \E j \in DOMAIN trail : trail[j].lit \in c /\ LevelAt(j) <= LevelAt(i)
<1>1. Visited(c, i)
  <2>1. CASE pc = "conflict"
    BY <2>1 DEF Visited
  <2>2. CASE pc # "conflict"
    BY <2>2, InvParts, AllVisited
  <2>3. QED
    BY <2>1, <2>2
<1>2. QED
  BY <1>1, InvParts DEF WatchesSound

LEMMA CancelKeeps ==
    ASSUME Inv, CancelUntil0, pc \notin {"propagate", "conflict"}, pc' # "conflict",
           UNCHANGED <<map, watches, learnts, visit>>
    PROVE  /\ TrailSound(trail', trail_lim', map', assumptions, call)
           /\ QueueOfLastLevel' /\ ClausesSound(watches', map') /\ ConflictFalse'
           /\ ok => WatchesSound' /\ NothingLost'
           /\ trail_lim' = <<>> /\ trail' \in Seq(Step) /\ qhead' \in 0 .. Len(trail')
<1>1. /\ TrailSound(trail', <<>>, map, assumptions, call) /\ trail_lim' = <<>>
      /\ qhead' = Len(trail')
      /\ \A i \in DOMAIN trail' :
            /\ i \in DOMAIN trail /\ trail'[i] = trail[i]
            /\ LevelAt(i)' = 0 /\ LevelAt(i) = 0
      /\ \A i \in DOMAIN trail : LevelAt(i) = 0 => i \in DOMAIN trail'
  BY InvParts, CancelFacts
<1>2. trail' \in Seq(Step) /\ Len(trail') \in Nat /\ DOMAIN trail' = 1 .. Len(trail')
  <2>1. trail' \in Seq(Step)
    BY <1>1 DEF TrailSound
  <2>2. QED
    BY <2>1, SeqFacts
<1>3. QueueOfLastLevel'
  <2>1. visit' = {}
    BY InvParts DEF QueueOfLastLevel
  <2>2. \A i \in DOMAIN trail' : ~(i > qhead')
    BY <1>1, <1>2
  <2>3. QED
    BY <1>1, <2>1, <2>2 DEF QueueOfLastLevel
<1>4. ASSUME ok PROVE WatchesSound'
  <2> SUFFICES ASSUME NEW c \in DOMAIN watches, NEW l \in watches[c], NEW i \in DOMAIN trail',
                      trail'[i].lit = -l
               PROVE  \E j \in DOMAIN trail' : trail'[j].lit \in c /\ LevelAt(j)' <= LevelAt(i)'
    BY DEF WatchesSound
  <2>1. i \in DOMAIN trail /\ trail[i].lit = -l /\ LevelAt(i) = 0
    BY <1>1
  <2>2. PICK j \in DOMAIN trail : trail[j].lit \in c /\ LevelAt(j) <= LevelAt(i)
    BY <1>4, <2>1, WatchesBelow
  <2>3. LevelAt(j) = 0
    <3>1. LevelAt(j) \in 0 .. decisionLevel
      BY InvParts, SoundFacts
    <3>2. QED
      BY <3>1, <2>1, <2>2
  <2>4. j \in DOMAIN trail' /\ trail'[j] = trail[j] /\ LevelAt(j)' = 0 /\ LevelAt(i)' = 0
    BY <2>3, <1>1
  <2>5. QED
    BY <2>2, <2>4
<1>5. ASSUME ok PROVE NothingLost'
  BY <1>5, <1>1, SameClauses, InvParts, NothingLostKept
<1>6. ConflictFalse' /\ ClausesSound(watches', map')
  BY InvParts DEF ConflictFalse
<1>7. QED
  BY <1>1, <1>2, <1>3, <1>4, <1>5, <1>6

LEMMA RestartStep ==
    ASSUME Inv, Restart
    PROVE  Inv'
<1> USE DEF Restart, oracleVars, envVars, dbVars
<1>1. /\ TrailSound(trail', trail_lim', map', assumptions', call')
      /\ QueueOfLastLevel' /\ ClausesSound(watches', map') /\ ConflictFalse'
      /\ ok => WatchesSound' /\ NothingLost'
      /\ trail_lim' = <<>> /\ trail' \in Seq(Step) /\ qhead' \in 0 .. Len(trail')
  BY CancelKeeps
<1>2. TypeOK'
  <2>1. trail_lim' \in Seq(Nat) /\ curr_restarts' \in Nat
    BY <1>1, InvParts DEF TypeOK
  <2>2. QED
    BY <1>1, <2>1, InvParts DEF TypeOK, ControlPoints
<1>3. CallInProgress'
  BY <1>1, InvParts DEF CallInProgress, Settled
<1>4. AnswerKnown'
  BY InvParts DEF AnswerKnown
<1>5. QED
  BY <1>1, <1>2, <1>3, <1>4, InvFromParts

LEMMA SolveReturnsStep ==
    ASSUME Inv, SolveReturns
    PROVE  Inv'
<1>0. /\ CancelUntil0 /\ pc \in {"model", "no model"} /\ pc' = "idle"
      /\ UNCHANGED <<map, watches, learnts, visit, confl, toAdd, solves>>
      /\ conflict' = {} /\ assumptions' = <<>> /\ call' = O!NoCall
      /\ conflictC' = 0 /\ curr_restarts' = 0 /\ max_learnts' = 0
      /\ ok' = (ok /\ (pc = "no model" => conflict # {}))
  BY DEF SolveReturns, O!Reply, envVars, dbVars
<1>1. /\ TrailSound(trail', trail_lim', map', assumptions, call)
      /\ QueueOfLastLevel' /\ ClausesSound(watches', map') /\ ConflictFalse'
      /\ ok => WatchesSound' /\ NothingLost'
      /\ trail_lim' = <<>> /\ trail' \in Seq(Step) /\ qhead' \in 0 .. Len(trail')
  BY <1>0, CancelKeeps
<1>2. TrailSound(trail', trail_lim', map', assumptions', call')
  BY <1>1, OtherQuery
<1>3. ok' = ok
  <2>1. ok \in BOOLEAN /\ (pc = "no model" /\ ok => conflict # {})
    BY InvParts DEF TypeOK, AnswerKnown
  <2>2. QED
    BY <1>0, <2>1
<1>4. TypeOK'
  <2>1. <<>> \in Seq(Nat) /\ <<>> \in Seq(MapLit)
    BY EmptySeq
  <2>2. trail_lim' \in Seq(Nat) /\ assumptions' \in Seq(MapLit)
    BY <1>0, <1>1, <2>1
  <2>3. conflict' \in SUBSET MapLit /\ conflictC' \in Nat /\ curr_restarts' \in Nat /\ max_learnts' \in Nat
    BY <1>0
  <2>4. QED
    BY <1>0, <1>1, <1>3, <2>2, <2>3, InvParts DEF TypeOK, ControlPoints
<1>5. CallInProgress'
  BY <1>0, <1>1 DEF CallInProgress, Settled, O!NoCall
<1>6. AnswerKnown'
  BY <1>0, <1>3, InvParts DEF AnswerKnown
<1>7. QED
  BY <1>1, <1>2, <1>3, <1>4, <1>5, <1>6, InvFromParts

---------------------------------------------------------------------------
(* Learning. *)

LEMMA MaxNat ==
    ASSUME NEW n \in Nat, NEW S \in SUBSET (0 .. n), S # {}
    PROVE  Max(S) \in S /\ \A x \in S : x <= Max(S)
<1> DEFINE T == {n - x : x \in S}
<1>0. \A x \in S : x \in Nat /\ x <= n
  OBVIOUS
<1>1. T \in SUBSET Nat /\ T # {}
  <2>1. \A x \in S : n - x \in Nat
    BY ONLY <1>0, n \in Nat
  <2>2. PICK x \in S : TRUE
    OBVIOUS
  <2>3. T # {}
    BY <2>2
  <2>4. QED
    BY <2>1, <2>3
<1>2. PICK m \in T : \A k \in T : m <= k
  BY <1>1, LeastNat
<1>3. PICK x \in S : m = n - x
  BY <1>2
<1>4. ASSUME NEW y \in S PROVE x >= y
  <2>1. n - x <= n - y
    BY <1>2, <1>3
  <2>2. x \in Nat /\ y \in Nat
    BY <1>0
  <2>3. QED
    BY <2>1, <2>2
<1>5. Max(S) \in S /\ \A y \in S : Max(S) >= y
  BY <1>4 DEF Max
<1> DEFINE k == Max(S)
<1> HIDE DEF k
<1>6. k \in S /\ \A y \in S : k >= y
  BY <1>5 DEF k
<1>7. \A y \in S : y <= k
  BY ONLY <1>0, <1>6
<1>8. QED
  BY <1>6, <1>7 DEF k

(* What analyze returns: an implied clause that asserts a literal, and the *)
(* highest level of the others.                                            *)
LEMMA LearnFacts ==
    ASSUME Inv, pc = "conflict", decisionLevel > 0
    PROVE  \E c, a, n : /\ Minimized(FirstUip) = c /\ Asserting(c) = a /\ BacktrackLevel(c) = n
                        /\ Asserts(c, a) /\ c \in MapClause
                        /\ n \in 0 .. decisionLevel - 1
                        /\ \A l \in c \ {a} : Level(l) <= n
                        /\ c = {a} <=> n = 0
<1> DEFINE u == FirstUip
           c == Minimized(u)
           a == Asserting(c)
           n == BacktrackLevel(c)
<1>1. Sound /\ confl \in SUBSET MapLit /\ confl \in DOMAIN watches /\ Entails(map, confl)
  BY InvParts DEF TypeOK, ConflictFalse, ClausesSound
<1>2. \A l \in confl : FalseLit(l)
  BY <1>1, InvParts, FalseLitAt DEF ConflictFalse
<1>3. OfLevel(confl, decisionLevel) # {}
  <2>1. PICK l \in confl : \E i \in DOMAIN trail : trail[i].lit = -l /\ LevelAt(i) = decisionLevel
    BY InvParts DEF ConflictFalse
  <2>2. PICK i \in DOMAIN trail : trail[i].lit = -l /\ LevelAt(i) = decisionLevel
    BY <2>1
  <2>3. Level(l) = decisionLevel
    BY <1>1, <2>2, FalseLitAt
  <2>4. QED
    BY <2>3 DEF OfLevel
<1>4. Resolvent(u) /\ Cardinality(OfLevel(u, decisionLevel)) = 1
  BY <1>1, <1>2, <1>3, FirstUipSound
<1>5. IsFiniteSet(u)
  <2>1. u \subseteq MapLit
    BY <1>4 DEF Resolvent, FalseLit
  <2>2. QED
    BY <2>1, MapLitFinite, FS_Subset
<1> HIDE DEF u
<1>6. Asserts(c, a)
  <2>1. Asserts(u, Asserting(u))
    BY <1>4, <1>5, OneOfLastLevel
  <2>2. Asserts(c, Asserting(u))
    BY <1>1, <2>1, MinimizedSound
  <2>3. QED
    BY <2>2, AssertingIs
<1> HIDE DEF c, a
<1>7. \A l \in c : FalseLit(l) /\ Level(l) > 0 /\ l \in MapLit
  BY <1>6 DEF Asserts, Resolvent, FalseLit
<1>8. c \in MapClause
  <2>1. ASSUME NEW l \in c, -l \in c PROVE FALSE
    <3>1. trail[Position(-l)].lit = l /\ Position(-l) \in DOMAIN trail
      BY <2>1, <1>1, <1>7, FalseLitFacts, LitFacts
    <3>2. QED
      BY <3>1, <1>1, <1>7, FalseLitFacts
  <2>2. QED
    BY <2>1, <1>7 DEF MapClause
<1> DEFINE S == {Level(l) : l \in c \ {a}} \cup {0}
<1>9. decisionLevel \in Nat
  BY <1>1, SoundFacts DEF decisionLevel
<1>10. ASSUME NEW l \in c \ {a} PROVE Level(l) \in 1 .. decisionLevel - 1
  <2>1. Level(l) \in 0 .. decisionLevel /\ Level(l) > 0
    BY <1>1, <1>7, FalseLitFacts
  <2>2. Level(l) # decisionLevel
    BY <1>6 DEF Asserts
  <2>3. QED
    BY <2>1, <2>2, <1>9
<1>11. n \in S /\ \A x \in S : x <= n
  <2>1. S \in SUBSET (0 .. decisionLevel - 1)
    BY <1>10, <1>9
  <2>2. decisionLevel - 1 \in Nat
    BY <1>9
  <2>3. n = Max(S)
    BY DEF BacktrackLevel, a
  <2> HIDE DEF S, n
  <2>4. S # {}
    BY DEF S
  <2>5. QED
    BY <2>1, <2>2, <2>3, <2>4, MaxNat
<1>12. n \in 0 .. decisionLevel - 1
  BY <1>9, <1>10, <1>11
<1>13. \A l \in c \ {a} : Level(l) <= n
  BY <1>11
<1>14. ASSUME c = {a} PROVE n = 0
  BY <1>14, <1>11
<1>15. ASSUME n = 0 PROVE c = {a}
  <2>1. \A l \in c \ {a} : FALSE
    BY <1>15, <1>10, <1>13
  <2>2. a \in c
    BY <1>6 DEF Asserts
  <2>3. QED
    BY <2>1, <2>2
<1> HIDE DEF n
<1>16. QED
  BY <1>6, <1>8, <1>12, <1>13, <1>14, <1>15 DEF c, a, n, u

(* A clause all of whose literals are false, with one of the last level    *)
(* only, is not among those watched.                                       *)
LEMMA LearntIsNew ==
    ASSUME Inv, pc = "conflict", NEW c \in DOMAIN watches, NEW a, Asserts(c, a)
    PROVE  FALSE
<1>1. PICK k \in watches[c] : k \in c /\ k # a
  BY InvParts DEF ClausesSound
<1>2. Sound /\ ok /\ FalseLit(k) /\ Level(k) # decisionLevel
  BY <1>1, InvParts DEF Asserts, Resolvent, AnswerKnown
<1>3. /\ Position(k) \in DOMAIN trail /\ trail[Position(k)].lit = -k
      /\ LevelAt(Position(k)) \in 0 .. decisionLevel /\ LevelAt(Position(k)) # decisionLevel
  BY <1>2, FalseLitFacts
<1>4. decisionLevel \in Nat
  BY <1>2, SoundFacts DEF decisionLevel
<1>5. LevelAt(Position(k)) < decisionLevel
  BY <1>3, <1>4
<1>6. PICK j \in DOMAIN trail : trail[j].lit \in c
  BY <1>1, <1>2, <1>3, <1>5, WatchesBelow
<1>7. FalseLit(trail[j].lit)
  BY <1>6 DEF Asserts, Resolvent
<1>8. QED
  BY <1>2, <1>6, <1>7, FalseLitFacts

(* A step that learns c: the literal a follows from it at level n. *)
Learns(c, a, n, why) ==
    /\ Asserts(c, a) /\ c \in MapClause
    /\ n \in 0 .. decisionLevel - 1
    /\ \A l \in c \ {a} : Level(l) <= n
    /\ c = {a} <=> n = 0
    /\ why = IF c = {a} THEN NoReason ELSE c
    /\ trail' = Append(Kept(n), Entry(a, why)) /\ trail_lim' = SubSeq(trail_lim, 1, n)

(* Its trail: what was kept, with a at its end. *)
LearntTrail(a, n, t) ==
    /\ decisionLevel' = n
    /\ Len(trail') = Len(t) + 1 /\ trail'[Len(trail')].lit = a
    /\ LevelIn(trail_lim', Len(t) + 1) = n
    /\ Len(t) \in Nat
    /\ DOMAIN t = 1 .. Len(t) /\ DOMAIN trail' = 1 .. Len(t) + 1
    /\ \A i \in DOMAIN t :
          /\ i \in DOMAIN trail /\ i \in DOMAIN trail' /\ trail'[i] = trail[i]
          /\ LevelAt(i)' = LevelAt(i) /\ LevelAt(i) <= n
          /\ trail[i].lit # a /\ trail[i].lit # -a
    /\ \A i \in DOMAIN trail : LevelAt(i) <= n => i \in DOMAIN t

LEMMA LearnTrail ==
    ASSUME Inv, NEW c, NEW a, NEW n, NEW why, Learns(c, a, n, why)
    PROVE  /\ TrailSound(trail', trail_lim', map, assumptions, call)
           /\ LearntTrail(a, n, Kept(n))
<1> DEFINE t == Kept(n)
           lim == SubSeq(trail_lim, 1, n)
           e == Entry(a, why)
<1>0. /\ Asserts(c, a) /\ n \in 0 .. decisionLevel - 1
      /\ \A l \in c \ {a} : Level(l) <= n
      /\ c = {a} <=> n = 0
      /\ why = IF c = {a} THEN NoReason ELSE c
      /\ trail' = Append(t, e) /\ trail_lim' = lim
  BY DEF Learns
<1>1. /\ Sound /\ Resolvent(c) /\ a \in c /\ FalseLit(a) /\ a \in MapLit
      /\ Level(a) = decisionLevel /\ Entails(map, c)
  BY <1>0, InvParts DEF Asserts, Resolvent, FalseLit
<1>2. /\ TrailSound(t, lim, map, assumptions, call) /\ Len(lim) = n
      /\ \A i \in DOMAIN t :
            /\ i \in DOMAIN trail /\ t[i] = trail[i]
            /\ LevelIn(lim, i) = LevelAt(i) /\ LevelAt(i) <= n
      /\ \A i \in DOMAIN trail : LevelAt(i) <= n => i \in DOMAIN t
  BY <1>0, <1>1, KeptFacts
<1>3. t \in Seq(Step) /\ Len(t) \in Nat /\ DOMAIN t = 1 .. Len(t)
  <2>1. t \in Seq(Step)
    BY <1>2 DEF TrailSound
  <2>2. QED
    BY <2>1, SeqFacts
<1>4. n \in Nat /\ decisionLevel \in Nat /\ n < decisionLevel
  BY <1>0, <1>1, SoundFacts DEF decisionLevel
<1>5. e \in Step /\ e.lit = a /\ e.reason = why
  <2>1. \A l \in c : l \in MapLit
    BY <1>1 DEF Resolvent, FalseLit
  <2>2. QED
    BY <1>0, <1>1, <2>1 DEF Entry, Step, NoReason
<1>6. \A i \in DOMAIN t : trail[i].lit # a /\ trail[i].lit # -a
  <2> SUFFICES ASSUME NEW i \in DOMAIN t, trail[i].lit \in {a, -a} PROVE FALSE
    OBVIOUS
  <2>1. i \in DOMAIN trail /\ LevelAt(i) <= n
    BY <1>2
  <2>2. Level(a) = LevelAt(i)
    BY <1>1, <2>1, PositionIs
  <2>3. QED
    BY <1>1, <1>4, <2>1, <2>2
<1> HIDE DEF t, lim, e
<1>7. \A i \in DOMAIN t : t[i].lit # e.lit /\ t[i].lit # -e.lit
  BY <1>2, <1>5, <1>6
<1>8. ASSUME e.reason # NoReason
      PROVE  /\ e.lit \in e.reason /\ Entails(map, e.reason)
             /\ \A q \in e.reason \ {e.lit} : \E j \in DOMAIN t : t[j].lit = -q
  <2>1. e.reason = c
    BY <1>0, <1>5, <1>8
  <2>2. ASSUME NEW q \in c \ {a} PROVE \E j \in DOMAIN t : t[j].lit = -q
    <3>1. FalseLit(q) /\ Level(q) <= n
      BY <1>0, <1>1 DEF Resolvent
    <3>2. Position(q) \in DOMAIN trail /\ trail[Position(q)].lit = -q /\ LevelAt(Position(q)) <= n
      BY <1>1, <3>1, FalseLitFacts
    <3>3. QED
      BY <1>2, <3>2
  <2>3. QED
    BY <1>1, <1>5, <2>1, <2>2
<1>9. Len(lim) = 0 => Entails(map, {e.lit})
  BY <1>0, <1>1, <1>2, <1>5
<1>10. Len(lim) > 0 => e.reason # NoReason
  BY <1>0, <1>1, <1>2, <1>4, <1>5 DEF NoReason
<1>11. TrailSound(Append(t, e), lim, map, assumptions, call)
  BY <1>2, <1>5, <1>7, <1>8, <1>9, <1>10, PushSound
<1>12. trail' = Append(t, e) /\ trail_lim' = lim
  BY <1>0 DEF t, e, lim
<1>13. /\ Len(trail') = Len(t) + 1 /\ DOMAIN trail' = 1 .. Len(t) + 1
       /\ \A i \in DOMAIN t : trail'[i] = t[i] /\ i \in 1 .. Len(t) + 1
       /\ trail'[Len(t) + 1] = e
  BY <1>3, <1>5, <1>12, PushFacts
<1>14. LevelIn(lim, Len(t) + 1) = n
  <2>1. Len(t) + 1 \in Nat /\ Len(t) + 1 > Len(t)
    BY <1>3
  <2>2. QED
    BY <1>2, <2>1, LastLevelIn
<1>15. \A i : LevelAt(i)' = LevelIn(lim, i)
  BY <1>12, LevelsAre
<1>16. decisionLevel' = n
  BY <1>2, <1>12 DEF decisionLevel
<1>17. LevelIn(trail_lim', Len(t) + 1) = n
  BY <1>12, <1>14
<1>18. \A i \in DOMAIN t : /\ i \in DOMAIN trail /\ i \in DOMAIN trail' /\ trail'[i] = trail[i]
                           /\ LevelAt(i)' = LevelAt(i) /\ LevelAt(i) <= n
                           /\ trail[i].lit # a /\ trail[i].lit # -a
  BY <1>2, <1>6, <1>13, <1>15
<1>19. LearntTrail(a, n, t)
  BY <1>2, <1>3, <1>5, <1>12, <1>13, <1>16, <1>17, <1>18 DEF LearntTrail
<1>20. QED
  BY <1>11, <1>12, <1>19 DEF t

LEMMA AddWatch ==
    ASSUME NEW c, NEW pair
    PROVE  /\ DOMAIN Attached(c, pair) = DOMAIN watches \cup {c}
           /\ Attached(c, pair)[c] = pair
           /\ \A d \in DOMAIN watches : d # c => Attached(c, pair)[d] = watches[d]
BY DEF Attached

LEMMA LearnWatches ==
    ASSUME Inv, pc = "conflict", NEW c, NEW a, NEW n, NEW why, Learns(c, a, n, why),
           qhead' = Len(Kept(n)), visit' = {}, pc' = "propagate",
           \/ UNCHANGED watches
           \/ \E second \in OfLevel(c, n) : watches' = Attached(c, {a, second})
    PROVE  WatchesSound' /\ ClausesSound(watches', map)
<1> DEFINE t == Kept(n)
<1>1. LearntTrail(a, n, t)
  BY LearnTrail
<1>2. /\ Sound /\ ok /\ a \in c /\ Entails(map, c) /\ Level(a) = decisionLevel
      /\ \A l \in c : FalseLit(l) /\ l \in MapLit
  BY InvParts DEF Learns, Asserts, Resolvent, FalseLit, AnswerKnown
<1>3. n \in Nat /\ decisionLevel \in Nat /\ n < decisionLevel
  BY <1>2, SoundFacts DEF Learns, decisionLevel
<1>a. qhead' = Len(t) /\ visit' = {}
  OBVIOUS
<1> HIDE DEF t
<1> USE DEF LearntTrail
<1>4. \A i \in DOMAIN trail' : i < qhead' \/ i = qhead' => i \in DOMAIN t
  BY <1>1, <1>a
<1>5. \A i \in DOMAIN t : LevelAt(i) \in Nat /\ LevelAt(i) < decisionLevel
  <2>1. \A i \in DOMAIN t : LevelAt(i) \in 0 .. decisionLevel /\ LevelAt(i) <= n
    BY <1>1, <1>2, SoundFacts
  <2>2. QED
    BY <2>1, <1>3
<1>6. ASSUME NEW d \in DOMAIN watches, NEW k \in watches[d], NEW i \in DOMAIN t, trail[i].lit = -k
      PROVE  \E j \in DOMAIN trail' : trail'[j].lit \in d /\ LevelAt(j)' <= LevelAt(i)'
  <2>1. i \in DOMAIN trail /\ LevelAt(i) < decisionLevel
    BY <1>1, <1>5
  <2>2. PICK j \in DOMAIN trail : trail[j].lit \in d /\ LevelAt(j) <= LevelAt(i)
    BY <1>2, <1>6, <2>1, WatchesBelow
  <2>3. LevelAt(j) <= n
    <3>1. LevelAt(j) \in 0 .. decisionLevel /\ LevelAt(i) \in Nat /\ LevelAt(i) <= n
      BY <1>1, <1>2, <1>5, SoundFacts
    <3>2. QED
      BY <1>3, <2>2, <3>1
  <2>4. j \in DOMAIN t
    BY <1>1, <2>3
  <2>5. QED
    BY <1>1, <2>2, <2>4
<1>7. CASE UNCHANGED watches
  <2>1. WatchesSound'
    <3> SUFFICES ASSUME NEW d \in DOMAIN watches, NEW k \in watches[d], NEW i \in DOMAIN trail',
                        trail'[i].lit = -k, Visited(d, i)'
                 PROVE  \E j \in DOMAIN trail' : trail'[j].lit \in d /\ LevelAt(j)' <= LevelAt(i)'
      BY <1>7 DEF WatchesSound
    <3>1. i \in DOMAIN t
      BY <1>4 DEF Visited
    <3>2. trail[i].lit = -k
      BY <1>1, <3>1
    <3>3. QED
      BY <1>6, <3>1, <3>2
  <2>2. QED
    BY <1>7, <2>1, InvParts
<1>8. CASE \E second \in OfLevel(c, n) : watches' = Attached(c, {a, second})
  <2>1. PICK second \in OfLevel(c, n) : watches' = Attached(c, {a, second})
    BY <1>8
  <2>2. second \in c /\ Level(second) = n /\ second # a
    BY <1>2, <1>3 DEF OfLevel
  <2>3. /\ DOMAIN watches' = DOMAIN watches \cup {c} /\ watches'[c] = {a, second}
        /\ \A d \in DOMAIN watches : d # c => watches'[d] = watches[d]
    <3> DEFINE pair == {a, second}
    <3>1. watches' = Attached(c, pair)
      BY ONLY <2>1
    <3> HIDE DEF pair
    <3>2. /\ DOMAIN watches' = DOMAIN watches \cup {c} /\ watches'[c] = pair
          /\ \A d \in DOMAIN watches : d # c => watches'[d] = watches[d]
      BY ONLY <3>1 DEF Attached
    <3>3. QED
      BY <3>2 DEF pair
  <2>4. ClausesSound(watches', map)
    <3> SUFFICES ASSUME NEW d \in DOMAIN watches'
                 PROVE  d \in MapClause /\ Entails(map, d) /\ \E x, y \in d : x # y /\ watches'[d] = {x, y}
      BY DEF ClausesSound
    <3>1. CASE d = c
      BY <3>1, <1>2, <2>2, <2>3 DEF Learns
    <3>2. CASE d # c
      BY <3>2, <2>3, InvParts DEF ClausesSound
    <3>3. QED
      BY <3>1, <3>2
  <2>5. WatchesSound'
    <3> SUFFICES ASSUME NEW d \in DOMAIN watches', NEW k \in watches'[d], NEW i \in DOMAIN trail',
                        trail'[i].lit = -k, Visited(d, i)'
                 PROVE  \E j \in DOMAIN trail' : trail'[j].lit \in d /\ LevelAt(j)' <= LevelAt(i)'
      BY DEF WatchesSound
    <3>1. i \in DOMAIN t
      BY <1>4 DEF Visited
    <3>2. trail[i].lit = -k /\ i \in DOMAIN trail /\ LevelAt(i)' = LevelAt(i)
      BY <1>1, <3>1
    <3>3. CASE d # c
      BY <3>3, <1>6, <3>1, <3>2, <2>3
    <3>4. CASE d = c
      <4>1. k = second
        BY <3>4, <2>3, <3>1, <3>2, <1>1
      <4>2. LevelAt(i) = n
        BY <4>1, <3>2, <2>2, <1>2, FalseLitAt
      <4>3. Len(trail') \in DOMAIN trail' /\ trail'[Len(trail')].lit \in d
        BY <1>1, <1>2, <3>4
      <4>4. \A j : j = Len(trail') => LevelAt(j)' <= LevelAt(i)'
        BY <1>1, <1>3, <3>2, <4>2, LevelsAre
      <4>5. QED
        BY <4>3, <4>4
    <3>5. QED
      BY <3>3, <3>4
  <2>6. QED
    BY <2>4, <2>5
<1>9. QED
  BY <1>7, <1>8

LEMMA LearnStep ==
    ASSUME Inv, Learn
    PROVE  Inv'
<1>1. PICK c, a, n : /\ Minimized(FirstUip) = c /\ Asserting(c) = a /\ BacktrackLevel(c) = n
                     /\ Asserts(c, a) /\ c \in MapClause
                     /\ n \in 0 .. decisionLevel - 1
                     /\ \A l \in c \ {a} : Level(l) <= n
                     /\ c = {a} <=> n = 0
  BY LearnFacts DEF Learn
<1> DEFINE why == IF c = {a} THEN NoReason ELSE c
           t == Kept(n)
<1>2. /\ pc = "conflict" /\ decisionLevel > 0 /\ pc' = "propagate" /\ confl' = {}
      /\ conflictC' = conflictC + 1
      /\ trail' = Append(Kept(n), Entry(a, why)) /\ trail_lim' = SubSeq(trail_lim, 1, n)
      /\ qhead' = Len(Kept(n))
      /\ IF c = {a} THEN UNCHANGED dbVars
            ELSE /\ learnts' = learnts \cup {c}
                 /\ \E second \in OfLevel(c, n) : watches' = Attached(c, {a, second})
      /\ UNCHANGED <<oracleVars, envVars, assumptions, conflict, curr_restarts, max_learnts,
                     ok, visit>>
  BY <1>1 DEF Learn
<1>3. UNCHANGED <<map, call, answer, toAdd, solves, assumptions, conflict, ok, visit>>
  BY <1>2 DEF oracleVars, envVars
<1>4. \/ UNCHANGED <<watches, learnts>>
      \/ learnts' = learnts \cup {c} /\ \E second \in OfLevel(c, n) : watches' = Attached(c, {a, second})
  BY <1>2 DEF dbVars
<1>5. ok /\ visit = {} /\ call.op \in {"add", "solve"} /\ call.op = "solve"
  <2>1. ok /\ visit = {} /\ call.op \in {"add", "solve"} /\ (call.op # "solve" => trail_lim = <<>>)
    BY <1>2, InvParts DEF AnswerKnown, QueueOfLastLevel, CallInProgress
  <2>2. trail_lim # <<>>
    BY <1>2 DEF decisionLevel
  <2>3. QED
    BY <2>1, <2>2
<1> HIDE DEF why, t
<1>a. why = IF c = {a} THEN NoReason ELSE c
  BY DEF why
<1>b. Learns(c, a, n, why)
  BY <1>1, <1>2, <1>a DEF Learns
<1>6. TrailSound(trail', trail_lim', map, assumptions, call) /\ LearntTrail(a, n, t)
  BY <1>b, LearnTrail DEF t
<1>7. WatchesSound' /\ ClausesSound(watches', map)
  BY <1>2, <1>3, <1>4, <1>5, <1>b, LearnWatches
<1> USE DEF LearntTrail
<1>8. DOMAIN watches \subseteq DOMAIN watches' /\ learnts' \subseteq DOMAIN watches'
  BY <1>4, AddWatch, InvParts DEF TypeOK
<1>9. qhead' = Len(t) /\ qhead' \in 0 .. Len(trail')
  BY <1>2, <1>6 DEF t
<1>10. TypeOK'
  <2>1. trail' \in Seq(Step) /\ trail_lim' \in Seq(Nat)
    BY <1>6 DEF TrailSound
  <2>2. conflictC' \in Nat /\ visit' \subseteq DOMAIN watches' /\ confl' \in SUBSET MapLit
    BY <1>2, <1>3, <1>5, InvParts DEF TypeOK
  <2>3. QED
    BY <1>2, <1>3, <1>8, <1>9, <2>1, <2>2, InvParts DEF TypeOK, ControlPoints
<1>11. QueueOfLastLevel'
  <2>1. ASSUME NEW i \in DOMAIN trail', i > qhead' PROVE LevelAt(i)' = decisionLevel'
    <3>1. i = Len(t) + 1
      BY <2>1, <1>6, <1>9
    <3>2. QED
      BY <3>1, <1>6, LevelsAre
  <2>2. QED
    BY <2>1, <1>2, <1>3, <1>5 DEF QueueOfLastLevel
<1>12. NothingLost'
  <2>1. ASSUME NEW i \in DOMAIN trail, LevelAt(i) = 0
        PROVE  \E j \in DOMAIN trail' : LevelAt(j)' = 0 /\ trail'[j].lit = trail[i].lit
    <3>1. i \in DOMAIN t
      BY <2>1, <1>1, <1>6
    <3>2. QED
      BY <3>1, <2>1, <1>6
  <2>2. Clauses \subseteq Clauses'
    <3>1. c \notin DOMAIN watches
      BY <1>1, <1>2, LearntIsNew
    <3>2. QED
      BY <3>1, <1>4, <1>8 DEF Clauses
  <2>3. QED
    BY <2>1, <2>2, <1>3, <1>5, InvParts, NothingLostKept
<1>13. ConflictFalse' /\ CallInProgress' /\ AnswerKnown'
  <2>1. ConflictFalse'
    BY <1>2 DEF ConflictFalse
  <2>2. CallInProgress'
    BY <1>2, <1>3, <1>5, InvParts DEF CallInProgress, Settled
  <2>3. AnswerKnown'
    BY <1>2, <1>3, <1>5, InvParts DEF AnswerKnown
  <2>4. QED
    BY <2>1, <2>2, <2>3
<1>14. QED
  BY <1>3, <1>6, <1>7, <1>10, <1>11, <1>12, <1>13, InvFromParts

---------------------------------------------------------------------------
(* A conflict at level 0. *)

LEMMA RefutedStep ==
    ASSUME Inv, Refuted
    PROVE  Inv'
<1>1. /\ pc = "conflict" /\ decisionLevel = 0 /\ ok' = FALSE /\ confl' = {}
      /\ pc' \in {"inconsistent", "no model"} /\ (pc' = "inconsistent" <=> call.op = "add")
      /\ UNCHANGED <<map, call, toAdd, solves, watches, learnts, assumptions, conflict, conflictC,
                     curr_restarts, max_learnts, trail, trail_lim, qhead, visit>>
  BY DEF Refuted, oracleVars, envVars, dbVars, searchVars
<1>2. TrailSound(trail', trail_lim', map', assumptions', call')
  BY <1>1, InvParts DEF Sound
<1>3. TypeOK'
  BY <1>1, InvParts DEF TypeOK, ControlPoints
<1>4. QueueOfLastLevel'
  <2>1. qhead = Len(trail) /\ visit = {}
    BY <1>1, InvParts DEF QueueOfLastLevel
  <2>2. Len(trail) \in Nat /\ DOMAIN trail = 1 .. Len(trail)
    BY InvParts, SoundFacts
  <2>3. \A i \in DOMAIN trail : ~(i > qhead)
    BY ONLY <2>1, <2>2
  <2>4. QED
    BY <1>1, <2>1, <2>3 DEF QueueOfLastLevel
<1>5. ConflictFalse' /\ ClausesSound(watches', map')
  BY <1>1, InvParts DEF ConflictFalse
<1>6. CallInProgress'
  BY <1>1, InvParts DEF CallInProgress, Settled
<1>7. Models = {}
  <2> SUFFICES ASSUME NEW f \in Models PROVE FALSE
    OBVIOUS
  <2>1. confl \in DOMAIN watches /\ Entails(map, confl)
    BY <1>1, InvParts DEF ConflictFalse, ClausesSound
  <2>2. PICK l \in confl : O!Holds(f, l)
    BY <2>1, EntailsIn
  <2>3. FalseLit(l)
    <3>1. confl \in SUBSET MapLit
      BY InvParts DEF TypeOK
    <3>2. \E i \in DOMAIN trail : trail[i].lit = -l
      BY <1>1, InvParts DEF ConflictFalse
    <3>3. QED
      BY <3>1, <3>2, InvParts, FalseLitAt
  <2>4. Level(l) = 0
    <3>1. Level(l) \in 0 .. decisionLevel
      BY <2>3, InvParts, FalseLitFacts
    <3>2. decisionLevel = 0
      BY <1>1
    <3>3. QED
      BY ONLY <3>1, <3>2
  <2>5. QED
    BY <2>2, <2>3, <2>4, InvParts, Level0False
<1>8. AnswerKnown'
  <2>1. O!ModelsOf(map, {}) = {}
    BY <1>7 DEF O!ModelsOf, Models, O!Constraint, Constraint
  <2>2. QED
    BY <1>1, <2>1 DEF AnswerKnown
<1>9. QED
  BY <1>1, <1>2, <1>3, <1>4, <1>5, <1>6, <1>8, InvFromParts

---------------------------------------------------------------------------
(* Opening a level. *)

(* With a literal, or for an assumption that is true already. *)
LEMMA OpenKeeps ==
    ASSUME Inv, pc = "decide", trail_lim' = Append(trail_lim, Len(trail)),
           \/ pc' = "decide" /\ UNCHANGED trail
           \/ pc' = "propagate" /\ \E e \in Step : trail' = Append(trail, e),
           UNCHANGED <<map, ok, watches, learnts, qhead, visit, confl>>
    PROVE  /\ QueueOfLastLevel'
           /\ WatchesSound' /\ NothingLost' /\ ConflictFalse'
           /\ decisionLevel' = decisionLevel + 1
           /\ qhead' \in 0 .. Len(trail')
<1> DEFINE n == Len(trail)
<1>1. /\ Sound /\ ok /\ qhead = n /\ visit = {} /\ n \in Nat /\ DOMAIN trail = 1 .. n
      /\ trail \in Seq(Step)
  BY InvParts, SoundFacts DEF QueueOfLastLevel, AnswerKnown
<1>2. /\ Len(trail_lim') = Len(trail_lim) + 1
      /\ \A i \in DOMAIN trail : LevelIn(trail_lim', i) = LevelIn(trail_lim, i)
      /\ LevelIn(trail_lim', n + 1) = Len(trail_lim) + 1
  BY <1>1, OpenFacts DEF Sound
<1>3. /\ \A i \in DOMAIN trail : LevelAt(i)' = LevelAt(i)
      /\ \A i : i = n + 1 => LevelAt(i)' = decisionLevel'
      /\ decisionLevel' = decisionLevel + 1
  BY <1>2, LevelsAre DEF decisionLevel
<1>4. /\ \A i \in DOMAIN trail : i \in DOMAIN trail' /\ trail'[i] = trail[i]
      /\ \A i \in DOMAIN trail' : i \in DOMAIN trail \/ i = n + 1
      /\ Len(trail') \in Nat /\ n <= Len(trail')
      /\ trail' # trail => Len(trail') = n + 1
      /\ DOMAIN trail' = 1 .. Len(trail')
  <2>1. CASE UNCHANGED trail
    BY <1>1, <2>1
  <2>2. CASE \E e \in Step : trail' = Append(trail, e)
    <3>1. PICK e \in Step : trail' = Append(trail, e)
      BY <2>2
    <3>2. /\ Len(trail') = n + 1 /\ DOMAIN trail' = 1 .. n + 1
          /\ \A i \in DOMAIN trail : trail'[i] = trail[i] /\ i \in 1 .. n + 1
      BY <1>1, <3>1, PushFacts
    <3>3. QED
      BY <1>1, <3>2
  <2>3. QED
    BY <2>1, <2>2
<1> HIDE DEF n
<1>5. WatchesSound'
  <2> SUFFICES ASSUME NEW c \in DOMAIN watches, NEW l \in watches[c], NEW i \in DOMAIN trail',
                      trail'[i].lit = -l, Visited(c, i)'
               PROVE  \E j \in DOMAIN trail' : trail'[j].lit \in c /\ LevelAt(j)' <= LevelAt(i)'
    BY DEF WatchesSound
  <2>1. i < n \/ i = n
    BY <1>1 DEF Visited
  <2>2. i \in DOMAIN trail /\ trail[i].lit = -l
    <3>1. i \in DOMAIN trail \/ i = n + 1
      BY <1>4
    <3>2. i \in DOMAIN trail
      BY ONLY <1>1, <2>1, <3>1
    <3>3. QED
      BY <1>4, <3>2
  <2>3. PICK j \in DOMAIN trail : trail[j].lit \in c /\ LevelAt(j) <= LevelAt(i)
    BY <1>1, <2>2, WatchesBelow
  <2>4. QED
    BY <1>3, <1>4, <2>2, <2>3
<1>6. NothingLost'
  BY <1>1, <1>3, <1>4, SameClauses, InvParts, NothingLostKept
<1>7. ConflictFalse'
  BY DEF ConflictFalse
<1>8. QueueOfLastLevel'
  <2>1. ASSUME NEW i \in DOMAIN trail', i > qhead' PROVE LevelAt(i)' = decisionLevel'
    <3>1. i \in DOMAIN trail \/ i = n + 1
      BY <1>4
    <3>2. qhead' = n
      BY <1>1
    <3>3. i = n + 1
      BY ONLY <1>1, <2>1, <3>1, <3>2
    <3>4. QED
      BY <3>3, <1>3
  <2>2. visit' = {}
    BY <1>1
  <2>3. CASE pc' = "propagate"
    BY <2>1, <2>2, <2>3 DEF QueueOfLastLevel
  <2>4. CASE pc' = "decide" /\ trail' = trail
    BY <2>1, <2>2, <2>4, <1>1 DEF QueueOfLastLevel, n
  <2>5. QED
    BY <2>3, <2>4
<1>9. qhead' \in 0 .. Len(trail')
  <2>1. qhead' = n /\ n \in Nat
    BY <1>1
  <2>2. Len(trail') \in Nat /\ n <= Len(trail')
    BY <1>4
  <2>3. QED
    BY ONLY <2>1, <2>2
<1>10. QED
  BY <1>3, <1>5, <1>6, <1>7, <1>8, <1>9

LEMMA NewLevelStep ==
    ASSUME Inv, pc = "decide", NEW l \in MapLit, Undefined(l), NewLevel(l),
           MayOpen(l, decisionLevel + 1, assumptions, call),
           decisionLevel < Len(assumptions) => l = assumptions[decisionLevel + 1],
           UNCHANGED <<oracleVars, envVars, dbVars, searchVars, ok, qhead, visit, confl>>
    PROVE  Inv'
<1>1. UNCHANGED <<map, call, toAdd, solves, watches, learnts, assumptions, conflict, conflictC,
                  curr_restarts, max_learnts, ok, qhead, visit, confl>>
  BY DEF oracleVars, envVars, dbVars, searchVars
<1>2. /\ pc' = "propagate" /\ trail_lim' = Append(trail_lim, Len(trail))
      /\ trail' = Append(trail, Entry(l, NoReason)) /\ Entry(l, NoReason) \in Step
  BY DEF NewLevel, Entry, NoReason, Step
<1>3. \A i \in DOMAIN trail : trail[i].lit # l /\ trail[i].lit # -l
  BY TrueFalse DEF Undefined
<1>4. TrailSound(trail', trail_lim', map', assumptions', call')
  <2>1. assumptions \in Seq(MapLit) /\ Sound
    BY InvParts DEF TypeOK
  <2>2. TrailSound(Append(trail, Entry(l, NoReason)), Append(trail_lim, Len(trail)),
                   map, assumptions, call)
    BY <1>3, <2>1, NewLevelSound DEF Sound, decisionLevel
  <2>3. QED
    BY <1>1, <1>2, <2>2
<1>5. /\ QueueOfLastLevel' /\ WatchesSound' /\ NothingLost' /\ ConflictFalse'
      /\ qhead' \in 0 .. Len(trail')
  BY <1>1, <1>2, OpenKeeps
<1>6. TypeOK'
  <2>1. trail' \in Seq(Step) /\ trail_lim' \in Seq(Nat)
    BY <1>4 DEF TrailSound
  <2>2. QED
    BY <1>1, <1>2, <1>5, <2>1, InvParts DEF TypeOK, ControlPoints
<1>7. call.op = "solve"
  BY InvParts DEF CallInProgress, Settled
<1>8. CallInProgress'
  BY <1>1, <1>2, <1>7, InvParts DEF CallInProgress, Settled
<1>9. AnswerKnown' /\ ClausesSound(watches', map')
  BY <1>1, <1>2, InvParts DEF AnswerKnown
<1>10. QED
  BY <1>4, <1>5, <1>6, <1>8, <1>9, InvFromParts

LEMMA DecideStep ==
    ASSUME Inv, Decide
    PROVE  Inv'
<1>1. /\ pc = "decide" /\ decisionLevel >= Len(assumptions)
      /\ UNCHANGED <<oracleVars, envVars, dbVars, searchVars, ok, qhead, visit, confl>>
  BY DEF Decide
<1>2. /\ decisionLevel \in Nat /\ assumptions \in Seq(MapLit) /\ Len(assumptions) \in Nat
      /\ ~(decisionLevel < Len(assumptions)) /\ ~(decisionLevel + 1 <= Len(assumptions))
  <2>1. decisionLevel \in Nat /\ assumptions \in Seq(MapLit)
    BY InvParts, SoundFacts DEF TypeOK, decisionLevel
  <2>2. Len(assumptions) \in Nat
    BY <2>1, SeqFacts
  <2>3. QED
    BY <2>1, <2>2, <1>1
<1>3. CASE \E c \in Constraint : Undefined(c)
  <2>1. PICK c \in Constraint : Undefined(c) /\ \E l \in Decisions(c) : NewLevel(l)
    BY <1>3 DEF Decide
  <2>2. PICK l \in Decisions(c) : NewLevel(l)
    BY <2>1
  <2>3. call.polarity \in Polarity
    BY <1>1, InvParts DEF CallInProgress, Settled
  <2>4. /\ l \in {c, -c}
        /\ call.polarity = "true" => l = c
        /\ call.polarity = "false" => l = -c
    BY <2>3 DEF Decisions, Polarity
  <2>5. c \in MapLit /\ -c \in MapLit /\ -(-c) = c
    BY MapSolverAssumption DEF MapLit, Constraint
  <2>6. l \in MapLit /\ Undefined(l)
    BY <2>1, <2>4, <2>5 DEF Undefined, IsTrue, IsFalse
  <2>7. MayOpen(l, decisionLevel + 1, assumptions, call)
    BY <1>2, <2>1, <2>4, <2>5 DEF MayOpen
  <2>8. QED
    BY <1>1, <1>2, <2>2, <2>6, <2>7, NewLevelStep
<1>4. CASE ~\E c \in Constraint : Undefined(c)
  <2>1. /\ pc' = "model"
        /\ UNCHANGED <<map, call, toAdd, solves, watches, learnts, assumptions, conflict, conflictC,
                       curr_restarts, max_learnts, trail, trail_lim, ok, qhead, visit, confl>>
    BY <1>4 DEF Decide, oracleVars, envVars, dbVars, searchVars
  <2>2. qhead = Len(trail) /\ visit = {}
    BY <1>1, InvParts DEF QueueOfLastLevel
  <2>3. TrailSound(trail', trail_lim', map', assumptions', call')
    BY <2>1, InvParts DEF Sound
  <2>4. TypeOK'
    BY <2>1, InvParts DEF TypeOK, ControlPoints
  <2>5. CallInProgress'
    BY <1>1, <2>1, InvParts DEF CallInProgress, Settled
  <2>6. AnswerKnown'
    <3>1. Len(assumptions) <= decisionLevel /\ \A c \in Constraint : IsTrue(c) \/ IsFalse(c)
      BY <1>2, <1>4 DEF Undefined
    <3>2. /\ decisionLevel' = decisionLevel
          /\ \A c \in Constraint : IsTrue(c)' \/ IsFalse(c)'
      BY <2>1, <3>1 DEF IsTrue, IsFalse, Assigned, decisionLevel
    <3>3. ok' /\ pc' = "model"
      BY <1>1, <2>1, InvParts DEF AnswerKnown
    <3>4. QED
      BY <2>1, <3>1, <3>2, <3>3 DEF AnswerKnown
  <2>7. QED
    BY <1>1, <2>1, <2>2, <2>3, <2>4, <2>5, <2>6, Calm, InvFromParts
<1>5. QED
  BY <1>3, <1>4

LEMMA AssumeStep ==
    ASSUME Inv, Assume
    PROVE  Inv'
<1> DEFINE p == assumptions[decisionLevel + 1]
<1>1. /\ pc = "decide" /\ decisionLevel < Len(assumptions)
      /\ \/ /\ IsTrue(p)
            /\ trail_lim' = Append(trail_lim, Len(trail))
            /\ UNCHANGED <<conflict, trail, pc>>
         \/ /\ IsFalse(p)
            /\ conflict' = FinalConflict(-p)
            /\ pc' = "no model"
            /\ UNCHANGED <<trail, trail_lim>>
         \/ Undefined(p) /\ NewLevel(p) /\ UNCHANGED conflict
      /\ UNCHANGED <<map, call, answer, toAdd, solves, watches, learnts, assumptions, conflictC, curr_restarts,
                     max_learnts, ok, qhead, visit, confl>>
  BY DEF Assume, oracleVars, envVars, dbVars
<1>2. /\ Sound /\ ok /\ assumptions \in Seq(MapLit) /\ decisionLevel \in Nat /\ Len(assumptions) \in Nat
      /\ DOMAIN assumptions = 1 .. Len(assumptions) /\ call.op = "solve"
      /\ qhead = Len(trail) /\ visit = {}
  <2>1. assumptions \in Seq(MapLit) /\ decisionLevel \in Nat /\ Sound
    BY InvParts, SoundFacts DEF TypeOK, decisionLevel
  <2>2. ok /\ call.op = "solve" /\ qhead = Len(trail) /\ visit = {}
    BY <1>1, InvParts DEF AnswerKnown, CallInProgress, Settled, QueueOfLastLevel
  <2>3. QED
    BY <2>1, <2>2, SeqFacts
<1>3. p \in MapLit /\ -p \in MapLit /\ -(-p) = p /\ p \in ToSet(assumptions)
  <2>1. decisionLevel + 1 \in DOMAIN assumptions
    <3>1. decisionLevel < Len(assumptions)
      BY <1>1
    <3>2. decisionLevel \in Nat /\ Len(assumptions) \in Nat /\ DOMAIN assumptions = 1 .. Len(assumptions)
      BY <1>2
    <3>3. QED
      BY ONLY <3>1, <3>2
  <2>2. p \in MapLit /\ p \in ToSet(assumptions)
    BY <1>2, <2>1 DEF ToSet
  <2>3. QED
    BY <2>2, LitFacts
<1> HIDE DEF p
<1>4. CASE IsTrue(p) /\ trail_lim' = Append(trail_lim, Len(trail)) /\ UNCHANGED <<conflict, trail, pc>>
  <2>1. PICK at \in DOMAIN trail : trail[at].lit = p
    BY <1>4, TrueFalse
  <2>2. TrailSound(trail', trail_lim', map', assumptions', call')
    <3>1. TrailSound(trail, Append(trail_lim, Len(trail)), map, assumptions, call)
      BY <1>1, <1>2, <2>1, OpenSound DEF Sound, decisionLevel, p
    <3>2. QED
      BY <1>1, <1>4, <3>1
  <2>3. /\ QueueOfLastLevel' /\ WatchesSound' /\ NothingLost' /\ ConflictFalse'
        /\ qhead' \in 0 .. Len(trail')
    BY <1>1, <1>4, OpenKeeps
  <2>4. TypeOK'
    <3>1. trail_lim' \in Seq(Nat)
      BY <2>2 DEF TrailSound
    <3>2. QED
      BY <1>1, <1>4, <2>3, <3>1, InvParts DEF TypeOK
  <2>5. CallInProgress'
    BY <1>1, <1>2, <1>4, InvParts DEF CallInProgress, Settled
  <2>6. AnswerKnown' /\ ClausesSound(watches', map')
    BY <1>1, <1>4, InvParts DEF AnswerKnown
  <2>7. QED
    BY <2>2, <2>3, <2>4, <2>5, <2>6, InvFromParts
<1>5. CASE IsFalse(p) /\ conflict' = FinalConflict(-p) /\ pc' = "no model" /\ UNCHANGED <<trail, trail_lim>>
  <2>1. PICK at \in DOMAIN trail : trail[at].lit = -p
    BY <1>5, TrueFalse
  <2>2. Entails(map, FinalConflict(-p))
    BY <1>2, <1>3, <2>1, FinalConflictSound
  <2>3. FinalConflict(-p) \subseteq {-b : b \in ToSet(assumptions)}
    BY <1>1, <1>2, <1>3, <2>1, FinalConflictOfAssumptions
  <2>4. FinalConflict(-p) # {}
    BY DEF FinalConflict
  <2>5. conflict' \in SUBSET MapLit
    <3>1. \A b \in ToSet(assumptions) : b \in MapLit
      BY <1>2 DEF ToSet
    <3>2. \A b \in ToSet(assumptions) : -b \in MapLit
      BY <3>1, LitFacts
    <3>3. QED
      BY <1>5, <2>3, <3>2
  <2>6. TrailSound(trail', trail_lim', map', assumptions', call')
    BY <1>1, <1>2, <1>5 DEF Sound
  <2>7. TypeOK'
    BY <1>1, <1>5, <2>5, InvParts DEF TypeOK, ControlPoints
  <2>8. CallInProgress'
    BY <1>1, <1>2, <1>5, InvParts DEF CallInProgress, Settled
  <2>9. AnswerKnown'
    BY <1>1, <1>2, <1>5, <2>2, <2>3, <2>4 DEF AnswerKnown
  <2>10. QED
    BY <1>1, <1>2, <1>5, <2>6, <2>7, <2>8, <2>9, Calm, InvFromParts
<1>6. CASE Undefined(p) /\ NewLevel(p) /\ UNCHANGED conflict
  <2>1. MayOpen(p, decisionLevel + 1, assumptions, call)
    <3>1. decisionLevel < Len(assumptions)
      BY <1>1
    <3>2. decisionLevel \in Nat /\ Len(assumptions) \in Nat
      BY <1>2
    <3>3. decisionLevel + 1 <= Len(assumptions)
      BY ONLY <3>1, <3>2
    <3>4. QED
      BY <3>3 DEF MayOpen, p
  <2>2. decisionLevel < Len(assumptions) => p = assumptions[decisionLevel + 1]
    BY DEF p
  <2>3. UNCHANGED <<oracleVars, envVars, dbVars, searchVars, ok, qhead, visit, confl>>
    BY <1>1, <1>6 DEF oracleVars, envVars, dbVars, searchVars
  <2>4. QED
    BY <1>1, <1>3, <1>6, <2>1, <2>2, <2>3, NewLevelStep
<1>7. QED
  BY <1>1, <1>4, <1>5, <1>6

---------------------------------------------------------------------------
(* Removing clauses. *)

LEMMA ReduceDBStep ==
    ASSUME Inv, ReduceDB
    PROVE  Inv'
<1>1. /\ pc = "reduceDB" /\ pc' = "decide"
      /\ UNCHANGED <<map, call, toAdd, solves, assumptions, conflict, conflictC, curr_restarts,
                     max_learnts, ok, trail, trail_lim, qhead, visit, confl>>
  BY DEF ReduceDB, oracleVars, envVars, searchVars
<1>2. Sound /\ ok /\ call.op = "solve" /\ qhead = Len(trail) /\ visit = {}
  BY <1>1, InvParts DEF AnswerKnown, CallInProgress, Settled, QueueOfLastLevel
<1>3. TrailSound(trail', trail_lim', map', assumptions', call')
  BY <1>1, <1>2 DEF Sound
<1>4. CallInProgress'
  BY <1>1, <1>2, InvParts DEF CallInProgress, Settled
<1>5. AnswerKnown'
  BY <1>1, <1>2 DEF AnswerKnown
<1>6. \/ UNCHANGED <<watches, learnts>>
      \/ \E gone \in SUBSET learnts :
            learnts' = learnts \ gone /\ watches' = Restrict(watches, DOMAIN watches \ gone)
  BY DEF ReduceDB, dbVars
<1>7. CASE UNCHANGED <<watches, learnts>>
  <2>1. TypeOK'
    BY <1>1, <1>7, InvParts DEF TypeOK, ControlPoints
  <2>2. QED
    BY <1>1, <1>2, <1>3, <1>4, <1>5, <1>7, <2>1, Calm, InvFromParts
<1>8. CASE \E gone \in SUBSET learnts :
              learnts' = learnts \ gone /\ watches' = Restrict(watches, DOMAIN watches \ gone)
  <2>1. PICK gone \in SUBSET learnts :
           learnts' = learnts \ gone /\ watches' = Restrict(watches, DOMAIN watches \ gone)
    BY <1>8
  <2>2. /\ DOMAIN watches' = DOMAIN watches \ gone
        /\ \A c \in DOMAIN watches' : c \in DOMAIN watches /\ watches'[c] = watches[c]
    BY <2>1 DEF Restrict
  <2>3. Clauses' = Clauses /\ learnts' \subseteq DOMAIN watches'
    BY <2>1, <2>2, InvParts DEF Clauses, TypeOK
  <2>4. TypeOK'
    BY <1>1, <1>2, <2>3, InvParts DEF TypeOK, ControlPoints
  <2>5. QueueOfLastLevel'
    <3>1. \A i : LevelAt(i)' = LevelAt(i)
      BY <1>1, SameLevels
    <3>2. Len(trail) \in Nat /\ DOMAIN trail = 1 .. Len(trail)
      BY <1>2, SoundFacts
    <3>3. \A i \in DOMAIN trail : ~(i > Len(trail))
      BY ONLY <3>2
    <3>4. QED
      BY <1>1, <1>2, <3>3 DEF QueueOfLastLevel
  <2>6. ClausesSound(watches', map')
    BY <1>1, <2>2, InvParts DEF ClausesSound
  <2>7. WatchesSound'
    <3>1. \A c, i : i \in DOMAIN trail => Visited(c, i)
      BY <1>1, <1>2, InvParts, AllVisited
    <3>2. QED
      BY <1>1, <1>2, <2>2, <3>1, InvParts, WatchesKept
  <2>8. NothingLost'
    <3>1. \A i : LevelAt(i)' = LevelAt(i)
      BY <1>1, SameLevels
    <3>2. QED
      BY <1>1, <1>2, <2>3, <3>1, InvParts, NothingLostKept
  <2>9. ConflictFalse'
    BY <1>1 DEF ConflictFalse
  <2>10. QED
    BY <1>3, <1>4, <1>5, <2>4, <2>5, <2>6, <2>7, <2>8, <2>9, InvFromParts
<1>9. QED
  BY <1>6, <1>7, <1>8

(* What is left of a clause without a true literal. *)
LEMMA TrimmedSound ==
    ASSUME Inv, pc = "search", decisionLevel = 0, NEW c \in DOMAIN watches, \A l \in c : ~IsTrue(l)
    PROVE  /\ Trimmed(c) \subseteq c /\ watches[c] \subseteq Trimmed(c)
           /\ Trimmed(c) \in MapClause /\ Entails(map, Trimmed(c))
           /\ \A l \in watches[c] : \A i \in DOMAIN trail : trail[i].lit # -l
<1>1. Sound /\ ok /\ c \in MapClause /\ Entails(map, c) /\ watches[c] \subseteq c
  BY InvParts DEF AnswerKnown, ClausesSound
<1>2. Trimmed(c) \subseteq c /\ watches[c] \subseteq Trimmed(c)
  BY <1>1 DEF Trimmed
<1>3. Trimmed(c) \in MapClause
  BY <1>1, <1>2 DEF MapClause
<1>4. Entails(map, Trimmed(c))
  <2> SUFFICES ASSUME NEW f \in Models PROVE \E l \in Trimmed(c) : O!Holds(f, l)
    BY EntailsBy
  <2>1. PICK l \in c : O!Holds(f, l)
    BY <1>1, EntailsIn
  <2>2. ASSUME IsFalse(l) PROVE FALSE
    <3>1. FalseLit(l)
      BY <1>1, <2>2, TrueFalse, ClauseFacts, FalseLitAt
    <3>2. Level(l) \in 0 .. decisionLevel
      BY <1>1, <3>1, FalseLitFacts
    <3>3. Level(l) = 0
      <4>1. decisionLevel = 0
        OBVIOUS
      <4>2. QED
        BY ONLY <3>2, <4>1
    <3>4. QED
      BY <1>1, <2>1, <3>1, <3>3, Level0False
  <2>3. QED
    BY <2>1, <2>2 DEF Trimmed
<1>5. ASSUME NEW l \in watches[c], NEW i \in DOMAIN trail, trail[i].lit = -l PROVE FALSE
  <2>1. PICK j \in DOMAIN trail : trail[j].lit \in c
    BY <1>1, <1>5, WatchesBelow
  <2>2. QED
    BY <2>1, TrueFalse
<1>6. QED
  BY <1>2, <1>3, <1>4, <1>5

LEMMA SimplifiedFacts ==
    ASSUME Inv, Simplified
    PROVE  LET kept == {c \in DOMAIN watches : \A l \in c : ~IsTrue(l)}
           IN  /\ \A d \in DOMAIN watches' : \E c \in kept : Trimmed(c) = d /\ watches'[d] = watches[c]
               /\ \A c \in kept : Trimmed(c) \in DOMAIN watches'
               /\ learnts' \subseteq DOMAIN watches'
               /\ \A c \in kept : c \notin learnts => Trimmed(c) \in Clauses'
               /\ trail' = [i \in DOMAIN trail |-> Entry(trail[i].lit, NoReason)]
<1> DEFINE kept == {c \in DOMAIN watches : \A l \in c : ~IsTrue(l)}
<1>1. /\ watches' = [d \in {Trimmed(c) : c \in kept} |-> watches[CHOOSE c \in kept : Trimmed(c) = d]]
      /\ learnts' = {Trimmed(c) : c \in kept \cap learnts} \ {Trimmed(c) : c \in kept \ learnts}
      /\ trail' = [i \in DOMAIN trail |-> Entry(trail[i].lit, NoReason)]
  BY DEF Simplified
<1> HIDE DEF kept
<1>2. ASSUME NEW d \in DOMAIN watches'
      PROVE  \E c \in kept : Trimmed(c) = d /\ watches'[d] = watches[c]
  <2>1. \E c \in kept : Trimmed(c) = d
    BY <1>1
  <2>2. watches'[d] = watches[CHOOSE c \in kept : Trimmed(c) = d]
    BY <1>1
  <2>3. QED
    BY <2>1, <2>2
<1>3. \A c \in kept : Trimmed(c) \in DOMAIN watches'
  BY <1>1
<1>4. learnts' \subseteq DOMAIN watches'
  BY <1>1
<1>5. \A c \in kept : c \notin learnts => Trimmed(c) \in DOMAIN watches' \ learnts'
  BY <1>1
<1>6. \A c \in kept : c \notin learnts => Trimmed(c) \in Clauses'
  BY <1>5 DEF Clauses
<1>7. QED
  BY <1>1, <1>2, <1>3, <1>4, <1>6 DEF kept

LEMMA SimplifyStep ==
    ASSUME Inv, Simplify
    PROVE  Inv'
<1>1. /\ pc = "search" /\ pc' = "reduceDB"
      /\ UNCHANGED <<map, call, toAdd, solves, assumptions, conflict, conflictC, curr_restarts,
                     max_learnts, ok, trail_lim, qhead, visit, confl>>
  BY DEF Simplify, oracleVars, envVars, searchVars
<1>2. /\ Sound /\ ok /\ call.op = "solve" /\ qhead = Len(trail) /\ visit = {}
      /\ Len(trail) \in Nat /\ DOMAIN trail = 1 .. Len(trail)
  BY <1>1, InvParts, SoundFacts DEF AnswerKnown, CallInProgress, Settled, QueueOfLastLevel
<1>3. CallInProgress'
  BY <1>1, <1>2, InvParts DEF CallInProgress, Settled
<1>4. AnswerKnown'
  BY <1>1, <1>2 DEF AnswerKnown
<1>5. UNCHANGED <<watches, learnts, trail>> \/ (decisionLevel = 0 /\ Simplified)
  BY DEF Simplify, dbVars
<1>6. CASE UNCHANGED <<watches, learnts, trail>>
  <2>1. TypeOK'
    BY <1>1, <1>6, InvParts DEF TypeOK, ControlPoints
  <2>2. TrailSound(trail', trail_lim', map', assumptions', call')
    BY <1>1, <1>2, <1>6 DEF Sound
  <2>3. QED
    BY <1>1, <1>2, <1>3, <1>4, <1>6, <2>1, <2>2, Calm, InvFromParts
<1>7. CASE decisionLevel = 0 /\ Simplified
  <2> DEFINE kept == {c \in DOMAIN watches : \A l \in c : ~IsTrue(l)}
  <2>1. /\ \A d \in DOMAIN watches' : \E c \in kept : Trimmed(c) = d /\ watches'[d] = watches[c]
        /\ \A c \in kept : Trimmed(c) \in DOMAIN watches'
        /\ learnts' \subseteq DOMAIN watches'
        /\ \A c \in kept : c \notin learnts => Trimmed(c) \in Clauses'
        /\ trail' = [i \in DOMAIN trail |-> Entry(trail[i].lit, NoReason)]
    BY <1>7, SimplifiedFacts
  <2>2. \A c \in kept :
           /\ Trimmed(c) \subseteq c /\ watches[c] \subseteq Trimmed(c)
           /\ Trimmed(c) \in MapClause /\ Entails(map, Trimmed(c))
           /\ \A l \in watches[c] : \A i \in DOMAIN trail : trail[i].lit # -l
    BY <1>1, <1>7, TrimmedSound
  <2>3. DOMAIN trail' = DOMAIN trail /\ \A i \in DOMAIN trail : trail'[i].lit = trail[i].lit
    BY <2>1 DEF Entry
  <2>4. TrailSound(trail', trail_lim', map', assumptions', call')
    <3>1. trail_lim = <<>>
      <4>1. trail_lim \in Seq(Nat) /\ Len(trail_lim) = 0
        BY <1>2, <1>7, SoundFacts DEF decisionLevel
      <4>2. QED
        BY <4>1, EmptySeq
    <3>2. TrailSound([i \in DOMAIN trail |-> Entry(trail[i].lit, NoReason)], <<>>, map, assumptions, call)
      BY <1>2, <3>1, ForgetSound DEF Sound
    <3>3. QED
      BY <1>1, <2>1, <3>1, <3>2
  <2>5. trail' \in Seq(Step) /\ Len(trail') = Len(trail)
    <3>1. trail' \in Seq(Step)
      BY <2>4 DEF TrailSound
    <3>2. Len(trail') \in Nat /\ DOMAIN trail' = 1 .. Len(trail')
      BY <3>1, SeqFacts
    <3>3. 1 .. Len(trail') = 1 .. Len(trail) /\ Len(trail) \in Nat
      BY <1>2, <2>3, <3>2
    <3>4. Len(trail') = Len(trail)
      BY ONLY <3>2, <3>3
    <3>5. QED
      BY <3>1, <3>4
  <2>6. TypeOK'
    <3>1. qhead' \in 0 .. Len(trail') /\ visit' = {} /\ pc' \in ControlPoints
      BY <1>1, <1>2, <2>5 DEF ControlPoints
    <3>2. QED
      BY <1>1, <2>1, <2>5, <3>1, InvParts DEF TypeOK
  <2>7. QueueOfLastLevel'
    <3>1. qhead' = Len(trail') /\ visit' = {}
      BY <1>1, <1>2, <2>5
    <3>2. \A i \in DOMAIN trail' : ~(i > qhead')
      <4>1. DOMAIN trail' = 1 .. Len(trail') /\ Len(trail') \in Nat
        BY <2>5, SeqFacts
      <4>2. QED
        BY ONLY <3>1, <4>1
    <3>3. QED
      BY <3>1, <3>2 DEF QueueOfLastLevel
  <2>8. ClausesSound(watches', map')
    <3> SUFFICES ASSUME NEW d \in DOMAIN watches'
                 PROVE  d \in MapClause /\ Entails(map, d) /\ \E a, b \in d : a # b /\ watches'[d] = {a, b}
      BY <1>1 DEF ClausesSound
    <3>1. PICK c \in kept : Trimmed(c) = d /\ watches'[d] = watches[c]
      BY <2>1
    <3>2. PICK a, b \in c : a # b /\ watches[c] = {a, b}
      BY InvParts DEF ClausesSound
    <3>3. a \in d /\ b \in d
      BY <2>2, <3>1, <3>2
    <3>4. QED
      BY <2>2, <3>1, <3>2, <3>3
  <2>9. WatchesSound'
    <3> SUFFICES ASSUME NEW d \in DOMAIN watches', NEW l \in watches'[d], NEW i \in DOMAIN trail',
                        trail'[i].lit = -l
                 PROVE  FALSE
      BY DEF WatchesSound
    <3>1. PICK c \in kept : Trimmed(c) = d /\ watches'[d] = watches[c]
      BY <2>1
    <3>2. QED
      BY <2>2, <2>3, <3>1
  <2>10. NothingLost'
    <3> SUFFICES ASSUME NEW cl \in map
                 PROVE  \/ \E i \in DOMAIN trail' : LevelAt(i)' = 0 /\ trail'[i].lit \in cl
                        \/ \E c \in Clauses' : c \subseteq cl
      BY <1>1 DEF NothingLost
    <3>1. \A i \in DOMAIN trail : LevelAt(i)' = 0
      <4>1. \A i : LevelAt(i)' = LevelAt(i)
        BY <1>1, SameLevels
      <4>2. \A i \in DOMAIN trail : LevelAt(i) \in 0 .. decisionLevel
        BY <1>2, SoundFacts
      <4>3. decisionLevel = 0
        BY <1>7
      <4>4. \A i \in DOMAIN trail : LevelAt(i) = 0
        BY ONLY <4>2, <4>3
      <4>5. QED
        BY <4>1, <4>4
    <3>2. CASE \E i \in DOMAIN trail : LevelAt(i) = 0 /\ trail[i].lit \in cl
      BY <3>1, <3>2, <2>3
    <3>3. CASE \E c \in Clauses : c \subseteq cl
      <4>1. PICK c \in Clauses : c \subseteq cl
        BY <3>3
      <4>2. CASE c \in kept
        <5>1. Trimmed(c) \in Clauses' /\ Trimmed(c) \subseteq c
          BY <2>1, <2>2, <4>1, <4>2 DEF Clauses
        <5>2. QED
          BY <4>1, <5>1
      <4>3. CASE c \notin kept
        <5>1. PICK l \in c : IsTrue(l)
          BY <4>1, <4>3 DEF Clauses
        <5>2. PICK i \in DOMAIN trail : trail[i].lit = l
          BY <5>1, TrueFalse
        <5>3. QED
          BY <4>1, <5>1, <5>2, <2>3, <3>1
      <4>4. QED
        BY <4>2, <4>3
    <3>4. QED
      BY <3>2, <3>3, <1>2, InvParts DEF NothingLost
  <2>11. ConflictFalse'
    BY <1>1 DEF ConflictFalse
  <2>12. QED
    BY <1>3, <1>4, <2>4, <2>6, <2>7, <2>8, <2>9, <2>10, <2>11, InvFromParts
<1>8. QED
  BY <1>5, <1>6, <1>7

---------------------------------------------------------------------------
(* Adding a clause. *)

LEMMA FirstTwoIsPair ==
    ASSUME NEW c \in MapClause, Cardinality(c) > 1
    PROVE  \E a, b \in c : a # b /\ FirstTwo(c) = {a, b}
<1>1. IsFiniteSet(c) /\ \A l \in c : VarOf(l) \in Nat
  <2>1. c \subseteq MapLit
    BY ClauseFacts
  <2>2. Constraint \subseteq Nat
    BY MapSolverAssumption DEF Constraint
  <2>3. QED
    BY <2>1, <2>2, MapLitFinite, FS_Subset, LitFacts
<1>2. ASSUME NEW k \in c, NEW l \in c, VarOf(k) = VarOf(l) PROVE k = l
  <2>1. k \in MapLit /\ l \in MapLit /\ -l \notin c
    BY ClauseFacts
  <2>2. k \in Int /\ l \in Int
    BY <2>1, LitFacts
  <2>3. k = l \/ k = -l
    BY ONLY <1>2, <2>2 DEF VarOf
  <2>4. QED
    BY <2>1, <2>3
<1>3. ASSUME NEW S \in SUBSET c, S # {}
      PROVE  \E a \in S : \A l \in S : l # a => VarOf(a) < VarOf(l)
  <2> DEFINE V == {VarOf(l) : l \in S}
  <2>1. V \in SUBSET Nat /\ V # {}
    BY <1>1, <1>3
  <2>2. PICK v \in V : \A w \in V : v <= w
    BY <2>1, LeastNat
  <2>3. PICK a \in S : VarOf(a) = v
    BY <2>2
  <2>4. ASSUME NEW l \in S, l # a PROVE VarOf(a) < VarOf(l)
    <3>1. VarOf(a) <= VarOf(l) /\ VarOf(a) # VarOf(l)
      BY <1>2, <2>2, <2>3, <2>4
    <3>2. VarOf(a) \in Nat /\ VarOf(l) \in Nat
      BY <1>1
    <3>3. QED
      BY ONLY <3>1, <3>2
  <2>5. QED
    BY <2>4
<1>4. c # {} /\ \A x : c # {x}
  <2>1. Cardinality({}) = 0 /\ \A x : Cardinality({x}) = 1
    BY FS_EmptySet, FS_Singleton
  <2>2. Cardinality(c) # 0 /\ Cardinality(c) # 1
    <3>1. Cardinality(c) \in Nat /\ Cardinality(c) > 1
      BY <1>1, FS_CardinalityType
    <3>2. QED
      BY ONLY <3>1
  <2>3. QED
    BY <2>1, <2>2
<1>5. PICK a \in c : \A l \in c : l # a => VarOf(a) < VarOf(l)
  BY <1>3, <1>4
<1>6. PICK b \in c \ {a} : \A l \in c \ {a} : l # b => VarOf(b) < VarOf(l)
  <2>1. c \ {a} # {}
    BY <1>4
  <2>2. QED
    BY <1>3, <2>1
<1>7. a # b /\ VarOf(a) \in Nat /\ VarOf(b) \in Nat /\ VarOf(a) < VarOf(b)
  BY <1>1, <1>5, <1>6
<1>8. a \in FirstTwo(c)
  <2>1. {k \in c : VarOf(k) < VarOf(a)} = {}
    <3>1. ASSUME NEW k \in c, VarOf(k) < VarOf(a) PROVE FALSE
      <4>1. VarOf(k) \in Nat /\ (k # a => VarOf(a) < VarOf(k))
        BY <1>1, <1>5
      <4>2. k # a
        BY <3>1, <1>7
      <4>3. QED
        BY <3>1, <4>1, <4>2, <1>7
    <3>2. QED
      BY <3>1
  <2>2. Cardinality({}) = 0
    BY FS_EmptySet
  <2>3. QED
    BY <2>1, <2>2 DEF FirstTwo
<1>9. b \in FirstTwo(c)
  <2>1. {k \in c : VarOf(k) < VarOf(b)} = {a}
    <3>1. ASSUME NEW k \in c, VarOf(k) < VarOf(b), k # a PROVE FALSE
      <4>1. VarOf(k) \in Nat /\ (k # b => VarOf(b) < VarOf(k))
        BY <1>1, <1>6, <3>1
      <4>2. k # b
        BY <3>1, <1>7
      <4>3. QED
        BY <3>1, <4>1, <4>2, <1>7
    <3>2. QED
      BY <3>1, <1>7
  <2>2. Cardinality({a}) = 1
    BY FS_Singleton
  <2>3. QED
    BY <2>1, <2>2 DEF FirstTwo
<1>10. ASSUME NEW l \in FirstTwo(c), l # a, l # b PROVE FALSE
  <2> DEFINE S == {k \in c : VarOf(k) < VarOf(l)}
  <2>1. l \in c /\ Cardinality(S) < 2
    BY DEF FirstTwo
  <2>2. a \in S /\ b \in S
    BY <1>5, <1>6, <1>10, <2>1
  <2>3. IsFiniteSet(S)
    BY <1>1, FS_Subset
  <2> HIDE DEF S
  <2>4. IsFiniteSet({a, b}) /\ Cardinality({a, b}) = 2
    <3>1. IsFiniteSet({a}) /\ Cardinality({a}) = 1
      BY FS_Singleton
    <3>2. {a, b} = {a} \cup {b} /\ b \notin {a}
      BY <1>7
    <3>3. /\ IsFiniteSet({a} \cup {b})
          /\ Cardinality({a} \cup {b}) = Cardinality({a}) + 1
      BY <3>1, <3>2, FS_AddElement
    <3>4. QED
      BY <3>1, <3>2, <3>3
  <2>5. Cardinality({a, b}) <= Cardinality(S)
    BY <2>2, <2>3, FS_Subset
  <2>6. Cardinality(S) \in Nat
    BY <2>3, FS_CardinalityType
  <2>7. QED
    BY <2>1, <2>4, <2>5, <2>6
<1>11. FirstTwo(c) = {a, b}
  BY <1>8, <1>9, <1>10
<1>12. QED
  BY <1>7, <1>11

(* What is common to the ways in which addClause_ ends: rest is left of    *)
(* the clause without its false literals.                                  *)
Adds(clause, rest) ==
    /\ clause \in MapClause /\ rest \in MapClause /\ rest \subseteq clause
    /\ map' = map \cup {clause} /\ map' \in SUBSET MapClause /\ toAdd' \in Seq(MapClause)
    /\ Entails(map', rest)
    /\ trail_lim = <<>> /\ qhead = Len(trail) /\ visit = {} /\ pc = "idle"
    /\ TrailSound(trail, <<>>, map', assumptions, call')
    /\ ClausesSound(watches, map')
    /\ \A i \in DOMAIN trail : LevelAt(i) = 0
    /\ call' = [op |-> "add"]
    /\ UNCHANGED <<solves, assumptions, conflict, conflictC, curr_restarts, max_learnts,
                   trail_lim, qhead, visit, confl>>

LEMMA AddFacts ==
    ASSUME Inv, AddClause
    PROVE  Adds(Head(toAdd), {l \in Head(toAdd) : ~IsFalse(l)})
<1> DEFINE clause == Head(toAdd)
           rest == {l \in clause : ~IsFalse(l)}
<1>1. /\ pc = "idle" /\ toAdd # <<>> /\ toAdd' = Tail(toAdd) /\ O!CallAdd(clause)
      /\ UNCHANGED <<solves, assumptions, conflict, conflictC, curr_restarts, max_learnts,
                     trail_lim, qhead, visit, confl>>
  BY DEF AddClause, searchVars
<1>2. map' = map \cup {clause} /\ call = O!NoCall /\ call' = [op |-> "add"]
  BY <1>1 DEF O!CallAdd
<1>3. clause \in MapClause /\ toAdd' \in Seq(MapClause)
  <2>1. toAdd \in Seq(MapClause) /\ toAdd # <<>>
    BY <1>1, InvParts DEF TypeOK
  <2>2. Head(toAdd) \in MapClause /\ Tail(toAdd) \in Seq(MapClause)
    BY <2>1, HeadTailProperties
  <2>3. QED
    BY <1>1, <2>2
<1> HIDE DEF clause
<1>4. rest \in MapClause
  BY <1>3 DEF MapClause
<1>5. trail_lim = <<>> /\ qhead = Len(trail) /\ visit = {} /\ Sound
  <2>1. call.op = "none"
    BY <1>2 DEF O!NoCall
  <2>2. QED
    BY <1>1, <2>1, InvParts DEF QueueOfLastLevel, CallInProgress
<1>6. map \subseteq map' /\ map' \in SUBSET MapClause
  BY <1>2, <1>3, InvParts DEF TypeOK
<1>7. TrailSound(trail, <<>>, map', assumptions, call')
  <2>1. TrailSound(trail, <<>>, map, assumptions, call)
    BY <1>5 DEF Sound
  <2>2. TrailSound(trail, <<>>, map', assumptions, call)
    BY <1>6, <2>1, MoreClauses
  <2>3. QED
    BY <2>2, OtherQuery
<1>8. ClausesSound(watches, map')
  BY <1>6, InvParts, EntailsMore DEF ClausesSound
<1>9. \A i \in DOMAIN trail : LevelAt(i) = 0
  <2>1. Len(<<>>) = 0 /\ decisionLevel = 0
    BY <1>5 DEF decisionLevel
  <2>2. \A i \in DOMAIN trail : LevelAt(i) \in 0 .. decisionLevel
    BY <1>5, SoundFacts
  <2>3. QED
    BY ONLY <2>1, <2>2
<1>10. Entails(map', rest)
  <2> SUFFICES ASSUME NEW f \in SUBSET Constraint, \A cl \in map' : O!HoldsAny(f, cl)
               PROVE  \E l \in rest : O!Holds(f, l)
    BY DEF Entails, O!HoldsAny
  <2>1. f \in Models
    BY <1>6 DEF Models
  <2>2. PICK l \in clause : O!Holds(f, l)
    BY <1>2 DEF O!HoldsAny
  <2>3. ASSUME IsFalse(l) PROVE FALSE
    <3>1. PICK i \in DOMAIN trail : trail[i].lit = -l
      BY <2>3, TrueFalse
    <3>2. l \in MapLit
      BY <1>3, ClauseFacts
    <3>3. FalseLit(l) /\ Level(l) = LevelAt(i)
      BY <1>5, <3>1, <3>2, FalseLitAt
    <3>4. QED
      BY <1>5, <1>9, <2>1, <2>2, <3>3, Level0False
  <2>4. QED
    BY <2>2, <2>3
<1>11. QED
  BY <1>1, <1>2, <1>3, <1>4, <1>5, <1>6, <1>7, <1>8, <1>9, <1>10 DEF clause, Adds

(* Watching clauses when the trail is all of level 0. *)
LEMMA AddKeeps ==
    ASSUME Inv, NEW clause, NEW rest, Adds(clause, rest), pc' # "conflict",
           \A i \in DOMAIN trail : i \in DOMAIN trail' /\ trail'[i] = trail[i]
    PROVE  /\ \A i : i \in Nat => LevelAt(i)' = 0
           /\ ok => \A c \in DOMAIN watches : \A l \in watches[c] : \A i \in DOMAIN trail :
                 trail[i].lit = -l => \E j \in DOMAIN trail' : trail'[j].lit \in c /\ LevelAt(j)' <= LevelAt(i)'
           /\ ok => \A cl \in map :
                 \/ \E i \in DOMAIN trail' : LevelAt(i)' = 0 /\ trail'[i].lit \in cl
                 \/ \E c \in Clauses : c \subseteq cl
           /\ ConflictFalse'
<1>1. /\ trail_lim = <<>> /\ pc = "idle" /\ UNCHANGED trail_lim
      /\ \A i \in DOMAIN trail : LevelAt(i) = 0
  BY DEF Adds
<1>2. ASSUME NEW i, i \in Nat PROVE LevelAt(i)' = 0
  <2>1. LevelIn(<<>>, i) \in 0 .. Len(<<>>)
    <3>1. <<>> \in Seq(Nat) /\ Rising(<<>>)
      BY DEF Rising
    <3>2. QED
      BY <1>2, <3>1, LevelMeaning
  <2>2. LevelIn(<<>>, i) = 0
    BY <2>1
  <2>3. QED
    BY <1>1, <2>2, LevelsAre
<1>3. \A i \in DOMAIN trail : i \in Nat
  BY InvParts, SoundFacts
<1>4. ASSUME ok, NEW c \in DOMAIN watches, NEW l \in watches[c], NEW i \in DOMAIN trail, trail[i].lit = -l
      PROVE  \E j \in DOMAIN trail' : trail'[j].lit \in c /\ LevelAt(j)' <= LevelAt(i)'
  <2>1. PICK j \in DOMAIN trail : trail[j].lit \in c
    BY <1>1, <1>4, WatchesBelow
  <2>2. LevelAt(j)' = 0 /\ LevelAt(i)' = 0
    BY <1>2, <1>3
  <2>3. QED
    BY <2>1, <2>2
<1>5. ASSUME ok, NEW cl \in map
      PROVE  \/ \E i \in DOMAIN trail' : LevelAt(i)' = 0 /\ trail'[i].lit \in cl
             \/ \E c \in Clauses : c \subseteq cl
  <2>1. CASE \E i \in DOMAIN trail : LevelAt(i) = 0 /\ trail[i].lit \in cl
    BY <2>1, <1>2, <1>3
  <2>2. QED
    BY <1>5, <2>1, InvParts DEF NothingLost
<1>6. ConflictFalse'
  BY DEF ConflictFalse
<1>7. QED
  BY <1>2, <1>4, <1>5, <1>6

(* The clause is satisfied, or there is no model. *)
LEMMA AddNothingStep ==
    ASSUME Inv, NEW clause, NEW rest, Adds(clause, rest), UNCHANGED <<watches, learnts, trail>>,
           \/ pc' = "inconsistent" /\ ok' = FALSE /\ (~ok \/ rest = {})
           \/ pc' = "added" /\ ok /\ UNCHANGED ok /\ \E l \in rest : IsTrue(l)
    PROVE  Inv'
<1>1. /\ clause \in MapClause /\ rest \in MapClause /\ rest \subseteq clause
      /\ map' = map \cup {clause} /\ map' \in SUBSET MapClause /\ toAdd' \in Seq(MapClause)
      /\ Entails(map', rest)
      /\ trail_lim = <<>> /\ qhead = Len(trail) /\ visit = {} /\ pc = "idle"
      /\ TrailSound(trail, <<>>, map', assumptions, call')
      /\ ClausesSound(watches, map')
      /\ call' = [op |-> "add"]
      /\ UNCHANGED <<solves, assumptions, conflict, conflictC, curr_restarts, max_learnts,
                     trail_lim, qhead, visit, confl>>
  BY DEF Adds
<1>2. /\ \A i : i \in Nat => LevelAt(i)' = 0
      /\ ok => \A c \in DOMAIN watches : \A l \in watches[c] : \A i \in DOMAIN trail :
            trail[i].lit = -l => \E j \in DOMAIN trail' : trail'[j].lit \in c /\ LevelAt(j)' <= LevelAt(i)'
      /\ ok => \A cl \in map :
            \/ \E i \in DOMAIN trail' : LevelAt(i)' = 0 /\ trail'[i].lit \in cl
            \/ \E c \in Clauses : c \subseteq cl
      /\ ConflictFalse'
  BY AddKeeps
<1>3. Len(trail) \in Nat /\ DOMAIN trail = 1 .. Len(trail)
  BY InvParts, SoundFacts
<1>4. TypeOK'
  BY <1>1, InvParts DEF TypeOK, ControlPoints
<1>5. QueueOfLastLevel'
  <2>1. \A i \in DOMAIN trail : ~(i > Len(trail))
    BY ONLY <1>3
  <2>2. QED
    BY <1>1, <2>1 DEF QueueOfLastLevel
<1>6. ASSUME ok' PROVE WatchesSound' /\ NothingLost'
  <2>1. ok /\ \E l \in rest : IsTrue(l)
    BY <1>6
  <2>2. WatchesSound'
    BY <2>1, <1>2 DEF WatchesSound
  <2>3. PICK l \in rest : \E i \in DOMAIN trail : trail[i].lit = l
    BY <2>1, TrueFalse
  <2>4. \E i \in DOMAIN trail' : LevelAt(i)' = 0 /\ trail'[i].lit \in clause
    BY <2>3, <1>1, <1>2, <1>3
  <2>5. NothingLost'
    BY <2>1, <2>4, <1>1, <1>2, SameClauses DEF NothingLost
  <2>6. QED
    BY <2>2, <2>5
<1>7. CallInProgress'
  BY <1>1 DEF CallInProgress, Settled
<1>8. AnswerKnown'
  <2>1. CASE pc' = "added" /\ ok /\ UNCHANGED ok /\ \E l \in rest : IsTrue(l)
    <3>1. pc' = "added" /\ ok'
      BY <2>1
    <3>2. QED
      BY ONLY <3>1 DEF AnswerKnown
  <2>2. CASE pc' = "inconsistent" /\ ok' = FALSE /\ (~ok \/ rest = {})
    <3>1. O!ModelsOf(map', {}) = {}
      <4> SUFFICES ASSUME NEW f \in SUBSET Constraint, \A cl \in map' : O!HoldsAny(f, cl) PROVE FALSE
        BY DEF O!ModelsOf, O!Constraint, Constraint
      <4>1. CASE ~ok
        <5>1. f \in O!ModelsOf(map, {})
          BY <1>1 DEF O!ModelsOf, O!Constraint, Constraint
        <5>2. QED
          BY <4>1, <5>1, InvParts DEF AnswerKnown
      <4>2. CASE rest = {}
        BY <4>2, <1>1, EntailsUse
      <4>3. QED
        BY <2>2, <4>1, <4>2
    <3>2. QED
      BY <2>2, <3>1 DEF AnswerKnown
  <2>3. QED
    BY <2>1, <2>2
<1>9. QED
  BY <1>1, <1>2, <1>4, <1>5, <1>6, <1>7, <1>8, InvFromParts

LEMMA AddUnitStep ==
    ASSUME Inv, NEW clause, NEW l, Adds(clause, {l}), ok, Undefined(l),
           trail' = Append(trail, Entry(l, NoReason)), pc' = "propagate",
           UNCHANGED <<ok, watches, learnts>>
    PROVE  Inv'
<1> DEFINE n == Len(trail) + 1
           e == Entry(l, NoReason)
<1>1. /\ clause \in MapClause /\ l \in MapLit /\ l \in clause
      /\ map' = map \cup {clause} /\ map' \in SUBSET MapClause /\ toAdd' \in Seq(MapClause)
      /\ Entails(map', {l})
      /\ trail_lim = <<>> /\ qhead = Len(trail) /\ visit = {} /\ pc = "idle"
      /\ TrailSound(trail, <<>>, map', assumptions, call')
      /\ ClausesSound(watches, map')
      /\ call' = [op |-> "add"]
      /\ UNCHANGED <<solves, assumptions, conflict, conflictC, curr_restarts, max_learnts,
                     trail_lim, qhead, visit, confl>>
  BY ClauseFacts DEF Adds
<1>2. /\ Len(trail) \in Nat /\ DOMAIN trail = 1 .. Len(trail) /\ e \in Step
      /\ e.lit = l /\ e.reason = NoReason
  BY <1>1, InvParts, SoundFacts DEF Entry, Step, NoReason
<1> HIDE DEF e
<1>3. /\ trail' \in Seq(Step) /\ Len(trail') = n /\ DOMAIN trail' = 1 .. n
      /\ \A i \in DOMAIN trail : i \in DOMAIN trail' /\ trail'[i] = trail[i]
      /\ trail'[n] = e
  <2>1. trail \in Seq(Step) /\ trail' = Append(trail, e)
    BY InvParts DEF TypeOK, e
  <2>2. QED
    BY <1>2, <2>1, PushFacts
<1>4. /\ \A i : i \in Nat => LevelAt(i)' = 0
      /\ \A c \in DOMAIN watches : \A k \in watches[c] : \A i \in DOMAIN trail :
            trail[i].lit = -k => \E j \in DOMAIN trail' : trail'[j].lit \in c /\ LevelAt(j)' <= LevelAt(i)'
      /\ \A cl \in map :
            \/ \E i \in DOMAIN trail' : LevelAt(i)' = 0 /\ trail'[i].lit \in cl
            \/ \E c \in Clauses : c \subseteq cl
      /\ ConflictFalse'
  BY <1>3, AddKeeps
<1>5. TrailSound(trail', trail_lim', map', assumptions', call')
  <2>1. \A i \in DOMAIN trail : trail[i].lit # e.lit /\ trail[i].lit # -e.lit
    BY <1>2, TrueFalse DEF Undefined
  <2>2. Len(<<>>) = 0 /\ ~(Len(<<>>) > 0)
    OBVIOUS
  <2>3. TrailSound(Append(trail, e), <<>>, map', assumptions, call')
    BY <1>1, <1>2, <2>1, <2>2, PushSound
  <2>4. QED
    BY <1>1, <2>3 DEF e
<1>6. TypeOK'
  <2>1. qhead' \in 0 .. Len(trail') /\ pc' \in ControlPoints
    BY <1>1, <1>2, <1>3 DEF ControlPoints
  <2>2. QED
    BY <1>1, <1>3, <2>1, InvParts DEF TypeOK
<1>7. QueueOfLastLevel'
  <2>1. \A i \in DOMAIN trail' : LevelAt(i)' = 0
    BY <1>2, <1>3, <1>4
  <2>2. decisionLevel' = 0
    BY <1>1 DEF decisionLevel
  <2>3. QED
    BY <1>1, <2>1, <2>2 DEF QueueOfLastLevel
<1>8. WatchesSound'
  <2> SUFFICES ASSUME NEW c \in DOMAIN watches, NEW k \in watches[c], NEW i \in DOMAIN trail',
                      trail'[i].lit = -k, Visited(c, i)'
               PROVE  \E j \in DOMAIN trail' : trail'[j].lit \in c /\ LevelAt(j)' <= LevelAt(i)'
    BY DEF WatchesSound
  <2>1. i < qhead \/ i = qhead
    BY <1>1 DEF Visited
  <2>2. qhead = Len(trail) /\ i \in 1 .. n
    BY <1>1, <1>3
  <2>3. i \in DOMAIN trail
    BY ONLY <1>2, <2>1, <2>2
  <2>4. QED
    BY <2>3, <1>3, <1>4
<1>9. NothingLost'
  <2>1. n \in DOMAIN trail' /\ LevelAt(n)' = 0 /\ trail'[n].lit \in clause
    BY <1>1, <1>2, <1>3, <1>4
  <2>2. QED
    BY <2>1, <1>1, <1>4, SameClauses DEF NothingLost
<1>10. CallInProgress' /\ AnswerKnown'
  <2>1. CallInProgress'
    BY <1>1 DEF CallInProgress, Settled
  <2>2. AnswerKnown'
    BY DEF AnswerKnown
  <2>3. QED
    BY <2>1, <2>2
<1>11. QED
  BY <1>1, <1>4, <1>5, <1>6, <1>7, <1>8, <1>9, <1>10, InvFromParts

LEMMA AddWatchedStep ==
    ASSUME Inv, NEW clause, NEW rest, Adds(clause, rest), ok, \A l \in rest : Undefined(l),
           Cardinality(rest) > 1, watches' = Attached(rest, FirstTwo(rest)),
           learnts' = learnts \ {rest}, pc' = "added", UNCHANGED <<ok, trail>>
    PROVE  Inv'
<1>1. /\ clause \in MapClause /\ rest \in MapClause /\ rest \subseteq clause
      /\ map' = map \cup {clause} /\ map' \in SUBSET MapClause /\ toAdd' \in Seq(MapClause)
      /\ Entails(map', rest)
      /\ trail_lim = <<>> /\ qhead = Len(trail) /\ visit = {} /\ pc = "idle"
      /\ TrailSound(trail, <<>>, map', assumptions, call')
      /\ ClausesSound(watches, map')
      /\ call' = [op |-> "add"]
      /\ UNCHANGED <<solves, assumptions, conflict, conflictC, curr_restarts, max_learnts,
                     trail_lim, qhead, visit, confl>>
  BY DEF Adds
<1>2. /\ \A i : i \in Nat => LevelAt(i)' = 0
      /\ \A c \in DOMAIN watches : \A l \in watches[c] : \A i \in DOMAIN trail :
            trail[i].lit = -l => \E j \in DOMAIN trail' : trail'[j].lit \in c /\ LevelAt(j)' <= LevelAt(i)'
      /\ \A cl \in map :
            \/ \E i \in DOMAIN trail' : LevelAt(i)' = 0 /\ trail'[i].lit \in cl
            \/ \E c \in Clauses : c \subseteq cl
      /\ ConflictFalse'
  BY AddKeeps
<1>3. Len(trail) \in Nat /\ DOMAIN trail = 1 .. Len(trail)
  BY InvParts, SoundFacts
<1>4. PICK a, b \in rest : a # b /\ FirstTwo(rest) = {a, b}
  BY <1>1, FirstTwoIsPair
<1> DEFINE pair == FirstTwo(rest)
<1>5. /\ DOMAIN watches' = DOMAIN watches \cup {rest} /\ watches'[rest] = pair
      /\ \A c \in DOMAIN watches : c # rest => watches'[c] = watches[c]
  BY DEF Attached
<1> HIDE DEF pair
<1>6. pair = {a, b}
  BY <1>4 DEF pair
<1>7. learnts' \subseteq DOMAIN watches' /\ Clauses \subseteq Clauses' /\ rest \in Clauses'
  BY <1>5, InvParts DEF TypeOK, Clauses
<1>8. TypeOK'
  BY <1>1, <1>7, InvParts DEF TypeOK, ControlPoints
<1>9. QueueOfLastLevel'
  <2>1. \A i \in DOMAIN trail : ~(i > Len(trail))
    BY ONLY <1>3
  <2>2. QED
    BY <1>1, <2>1 DEF QueueOfLastLevel
<1>10. ClausesSound(watches', map')
  <2> SUFFICES ASSUME NEW d \in DOMAIN watches'
               PROVE  d \in MapClause /\ Entails(map', d) /\ \E x, y \in d : x # y /\ watches'[d] = {x, y}
    BY DEF ClausesSound
  <2>1. CASE d = rest
    BY <2>1, <1>1, <1>4, <1>5, <1>6
  <2>2. CASE d # rest
    BY <2>2, <1>1, <1>5 DEF ClausesSound
  <2>3. QED
    BY <2>1, <2>2
<1>11. WatchesSound'
  <2> SUFFICES ASSUME NEW d \in DOMAIN watches', NEW l \in watches'[d], NEW i \in DOMAIN trail,
                      trail[i].lit = -l
               PROVE  \E j \in DOMAIN trail' : trail'[j].lit \in d /\ LevelAt(j)' <= LevelAt(i)'
    BY DEF WatchesSound
  <2>1. CASE d = rest
    <3>1. Undefined(l)
      BY <2>1, <1>4, <1>5, <1>6
    <3>2. QED
      BY <3>1, TrueFalse DEF Undefined
  <2>2. CASE d # rest
    BY <2>2, <1>2, <1>5
  <2>3. QED
    BY <2>1, <2>2
<1>12. NothingLost'
  <2> SUFFICES ASSUME NEW cl \in map'
               PROVE  \/ \E i \in DOMAIN trail' : LevelAt(i)' = 0 /\ trail'[i].lit \in cl
                      \/ \E c \in Clauses' : c \subseteq cl
    BY DEF NothingLost
  <2>1. CASE cl = clause
    BY <2>1, <1>1, <1>7
  <2>2. CASE cl \in map
    BY <2>2, <1>2, <1>7
  <2>3. QED
    BY <2>1, <2>2, <1>1
<1>13. CallInProgress' /\ AnswerKnown'
  <2>1. CallInProgress'
    BY <1>1 DEF CallInProgress, Settled
  <2>2. AnswerKnown'
    BY DEF AnswerKnown
  <2>3. QED
    BY <2>1, <2>2
<1>14. QED
  BY <1>1, <1>2, <1>8, <1>9, <1>10, <1>11, <1>12, <1>13, InvFromParts

LEMMA AddClauseStep ==
    ASSUME Inv, AddClause
    PROVE  Inv'
<1> DEFINE clause == Head(toAdd)
           rest == {l \in clause : ~IsFalse(l)}
<1>1. Adds(clause, rest)
  BY AddFacts
<1>2. \/ /\ ~ok \/ rest = {}
         /\ ok' = FALSE /\ pc' = "inconsistent"
         /\ UNCHANGED <<dbVars, trail>>
      \/ /\ ok /\ \E l \in rest : IsTrue(l)
         /\ pc' = "added"
         /\ UNCHANGED <<ok, dbVars, trail>>
      \/ /\ ok /\ \A l \in rest : Undefined(l)
         /\ Cardinality(rest) = 1
         /\ trail' = Append(trail, Entry(CHOOSE l \in rest : TRUE, NoReason))
         /\ pc' = "propagate"
         /\ UNCHANGED <<ok, dbVars>>
      \/ /\ ok /\ \A l \in rest : Undefined(l)
         /\ Cardinality(rest) > 1
         /\ watches' = Attached(rest, FirstTwo(rest))
         /\ learnts' = learnts \ {rest}
         /\ pc' = "added"
         /\ UNCHANGED <<ok, trail>>
  BY DEF AddClause
<1> HIDE DEF clause, rest
<1> USE DEF dbVars
<1>3. CASE /\ ~ok \/ rest = {}
           /\ ok' = FALSE /\ pc' = "inconsistent"
           /\ UNCHANGED <<dbVars, trail>>
  BY <1>1, <1>3, AddNothingStep
<1>4. CASE /\ ok /\ \E l \in rest : IsTrue(l)
           /\ pc' = "added"
           /\ UNCHANGED <<ok, dbVars, trail>>
  BY <1>1, <1>4, AddNothingStep
<1>5. CASE /\ ok /\ \A l \in rest : Undefined(l)
           /\ Cardinality(rest) = 1
           /\ trail' = Append(trail, Entry(CHOOSE l \in rest : TRUE, NoReason))
           /\ pc' = "propagate"
           /\ UNCHANGED <<ok, dbVars>>
  <2>1. IsFiniteSet(rest)
    <3>1. rest \subseteq MapLit
      BY <1>1, ClauseFacts DEF Adds
    <3>2. QED
      BY <3>1, MapLitFinite, FS_Subset
  <2>2. PICK l : rest = {l}
    BY <1>5, <2>1, FS_Singleton
  <2>3. (CHOOSE k \in rest : TRUE) = l /\ Undefined(l) /\ Adds(clause, {l})
    BY <1>1, <1>5, <2>2
  <2>4. trail' = Append(trail, Entry(l, NoReason))
    BY <1>5, <2>3
  <2>5. QED
    BY <1>5, <2>3, <2>4, AddUnitStep
<1>6. CASE /\ ok /\ \A l \in rest : Undefined(l)
           /\ Cardinality(rest) > 1
           /\ watches' = Attached(rest, FirstTwo(rest))
           /\ learnts' = learnts \ {rest}
           /\ pc' = "added"
           /\ UNCHANGED <<ok, trail>>
  BY <1>1, <1>6, AddWatchedStep
<1>7. QED
  BY <1>2, <1>3, <1>4, <1>5, <1>6

---------------------------------------------------------------------------
(* The invariant of the specification. *)

LEMMA InitInv ==
    ASSUME Init
    PROVE  Inv
<1>1. /\ map = {} /\ call = O!NoCall /\ toAdd \in Seq(MapClause) /\ solves = 0 /\ ok = TRUE
      /\ watches = <<>> /\ learnts = {} /\ trail = <<>> /\ trail_lim = <<>> /\ qhead = 0
      /\ visit = {} /\ pc = "idle" /\ confl = {} /\ conflict = {} /\ conflictC = 0
      /\ curr_restarts = 0 /\ assumptions = <<>> /\ max_learnts = 0
  BY MapSolverAssumption DEF Init, O!Init
<1>2. /\ <<>> \in Seq(Nat) /\ <<>> \in Seq(Step) /\ <<>> \in Seq(MapLit)
      /\ Len(<<>>) = 0 /\ DOMAIN <<>> = {}
  BY EmptySeq
<1>3. TypeOK
  <2>1. /\ map \in SUBSET MapClause /\ solves \in Nat /\ ok \in BOOLEAN
        /\ learnts \subseteq DOMAIN watches /\ visit \subseteq DOMAIN watches
        /\ confl \in SUBSET MapLit /\ conflict \in SUBSET MapLit
    BY ONLY <1>1
  <2>2. conflictC \in Nat /\ curr_restarts \in Nat /\ max_learnts \in Nat /\ pc \in ControlPoints
    BY ONLY <1>1 DEF ControlPoints
  <2>3. trail \in Seq(Step) /\ trail_lim \in Seq(Nat) /\ assumptions \in Seq(MapLit)
    BY ONLY <1>1, <1>2
  <2>4. qhead \in 0 .. Len(trail)
    <3>1. qhead = 0 /\ Len(trail) = 0
      BY ONLY <1>1, <1>2
    <3>2. QED
      BY ONLY <3>1
  <2>5. QED
    BY <1>1, <2>1, <2>2, <2>3, <2>4 DEF TypeOK
<1>4. TrailSound(trail, trail_lim, map, assumptions, call)
  <2>1. TrailSound(<<>>, <<>>, map, assumptions, call)
    BY <1>2 DEF TrailSound, LevelsOrdered, AssignedOnce, ReasonsSound, Level0Implied,
                DecisionsFirst, AssumptionsTrue
  <2>2. QED
    BY <1>1, <2>1
<1>5. QueueOfLastLevel /\ ClausesSound(watches, map) /\ WatchesSound /\ NothingLost
  <2>1. QueueOfLastLevel
    BY <1>1, <1>2 DEF QueueOfLastLevel
  <2>2. ClausesSound(watches, map) /\ WatchesSound /\ NothingLost
    BY <1>1, <1>2 DEF ClausesSound, WatchesSound, NothingLost
  <2>3. QED
    BY <2>1, <2>2
<1>6. ConflictFalse /\ CallInProgress /\ AnswerKnown
  <2>1. ConflictFalse /\ AnswerKnown
    BY <1>1 DEF ConflictFalse, AnswerKnown
  <2>2. CallInProgress
    BY <1>1 DEF CallInProgress, Settled, O!NoCall
  <2>3. QED
    BY <2>1, <2>2
<1>7. QED
  BY <1>3, <1>4, <1>5, <1>6 DEF Inv

LEMMA NextInv ==
    ASSUME Inv, [Next]_solverVars
    PROVE  Inv'
<1>1. CASE AddClause
  BY <1>1, AddClauseStep
<1>2. CASE AddReturns
  BY <1>2, AddReturnsStep
<1>3. CASE Solve
  BY <1>3, SolveStep
<1>4. CASE TakeLiteral
  BY <1>4, TakeLiteralStep
<1>5. CASE Visit
  BY <1>5, VisitStep
<1>6. CASE Propagated
  BY <1>6, PropagatedStep
<1>7. CASE Learn
  BY <1>7, LearnStep
<1>8. CASE Refuted
  BY <1>8, RefutedStep
<1>9. CASE Restart
  BY <1>9, RestartStep
<1>10. CASE Simplify
  BY <1>10, SimplifyStep
<1>11. CASE ReduceDB
  BY <1>11, ReduceDBStep
<1>12. CASE Assume
  BY <1>12, AssumeStep
<1>13. CASE Decide
  BY <1>13, DecideStep
<1>14. CASE SolveReturns
  BY <1>14, SolveReturnsStep
<1>15. CASE Finished \/ UNCHANGED solverVars
  BY <1>15, FinishedStep DEF Finished
<1>16. QED
  BY <1>1, <1>2, <1>3, <1>4, <1>5, <1>6, <1>7, <1>8, <1>9, <1>10, <1>11, <1>12, <1>13, <1>14,
     <1>15 DEF Next

(* The inductive invariant of the solver: what is on the trail and why,    *)
(* where the watches may be false, and that the clauses of the solver are  *)
(* worth those that were added.                                            *)
THEOREM InvariantHolds == Spec => []Inv
<1>1. Init => Inv
  BY InitInv
<1>2. Inv /\ [Next]_solverVars => Inv'
  BY NextInv
<1>3. QED
  BY <1>1, <1>2, PTL DEF Spec

---------------------------------------------------------------------------
(* What the invariant says of the clauses. *)

(* analyze and litRedundant, and the trimming of learnt clauses: each      *)
(* learnt clause is implied by the clauses that were added alone.          *)
THEOREM LearntCorrect == Spec => []OnlyImpliedLearnt
<1>1. Inv => OnlyImpliedLearnt
  BY InvParts DEF OnlyImpliedLearnt, ClausesSound, TypeOK
<1>2. QED
  BY <1>1, InvariantHolds, PTL

(* propagate and the two watches, through conflicts and backtracking: when *)
(* the queue is empty no clause is false and none is a unit clause.        *)
LEMMA NoUnitMissed ==
    ASSUME Inv
    PROVE  NoMissedUnit
<1> SUFFICES ASSUME pc \in Settled, NEW c \in DOMAIN watches, ~\E l \in c : IsTrue(l)
             PROVE  Cardinality({l \in c : Undefined(l)}) >= 2
  BY DEF NoMissedUnit, Settled
<1>1. PICK a, b \in c : a # b /\ watches[c] = {a, b}
  BY InvParts DEF ClausesSound
<1>2. ok /\ c \in MapClause /\ pc \notin {"propagate", "conflict"}
  BY InvParts DEF AnswerKnown, ClausesSound, Settled
<1>3. ASSUME NEW l \in watches[c], IsFalse(l) PROVE FALSE
  <2>1. PICK i \in DOMAIN trail : trail[i].lit = -l
    BY <1>3, TrueFalse
  <2>2. PICK j \in DOMAIN trail : trail[j].lit \in c
    BY <1>2, <2>1, WatchesBelow
  <2>3. QED
    BY <2>2, TrueFalse
<1>4. a \in {l \in c : Undefined(l)} /\ b \in {l \in c : Undefined(l)}
  BY <1>1, <1>3 DEF Undefined
<1> DEFINE S == {l \in c : Undefined(l)}
<1>5. IsFiniteSet(S)
  <2>1. S \subseteq MapLit
    BY <1>2, ClauseFacts
  <2>2. QED
    BY <2>1, MapLitFinite, FS_Subset
<1>6. IsFiniteSet({a, b}) /\ Cardinality({a, b}) = 2
  <2>1. IsFiniteSet({a}) /\ Cardinality({a}) = 1
    BY FS_Singleton
  <2>2. {a, b} = {a} \cup {b} /\ b \notin {a}
    BY <1>1
  <2>3. /\ IsFiniteSet({a} \cup {b})
        /\ Cardinality({a} \cup {b}) = Cardinality({a}) + 1
    BY <2>1, <2>2, FS_AddElement
  <2>4. QED
    BY <2>1, <2>2, <2>3
<1> HIDE DEF S
<1>7. Cardinality({a, b}) <= Cardinality(S) /\ Cardinality(S) \in Nat
  BY <1>4, <1>5, FS_Subset, FS_CardinalityType DEF S
<1>8. Cardinality(S) >= 2
  BY <1>6, <1>7
<1>9. QED
  BY <1>8 DEF S

(* No unit clause is missed, after any number of calls and backjumps.      *)
THEOREM WatchesCorrect == Spec => []NoMissedUnit
<1>1. Inv => NoMissedUnit
  BY NoUnitMissed
<1>2. QED
  BY <1>1, InvariantHolds, PTL

(* analyzeFinal: the final conflict consists of negated assumptions and is *)
(* implied by the clauses.                                                 *)
THEOREM FinalConflictCorrect == Spec => []FinalConflictImplied
<1>1. Inv => FinalConflictImplied
  BY InvParts DEF FinalConflictImplied, AnswerKnown
<1>2. QED
  BY <1>1, InvariantHolds, PTL

(* addClause_, simplify and reduceDB: with the literals of level 0, the    *)
(* clauses in the solver, the learnt ones left aside, have the models of   *)
(* the clauses that were added.                                            *)
LEMMA SameModels ==
    ASSUME Inv
    PROVE  ModelsKept
<1> DEFINE fixed == {trail[i].lit : i \in {j \in DOMAIN trail : LevelAt(j) = 0}}
<1> SUFFICES ASSUME ok PROVE O!ModelsOf(Clauses, fixed) = O!ModelsOf(map, {})
  BY DEF ModelsKept
<1>1. Sound /\ NothingLost /\ ClausesSound(watches, map)
  BY InvParts
<1>2. ASSUME NEW f \in O!ModelsOf(Clauses, fixed), NEW cl \in map PROVE O!HoldsAny(f, cl)
  <2>1. CASE \E i \in DOMAIN trail : LevelAt(i) = 0 /\ trail[i].lit \in cl
    BY <2>1 DEF O!ModelsOf, O!HoldsAny
  <2>2. CASE \E c \in Clauses : c \subseteq cl
    BY <2>2 DEF O!ModelsOf, O!HoldsAny
  <2>3. QED
    BY <1>1, <2>1, <2>2 DEF NothingLost
<1>3. ASSUME NEW f \in Models, NEW c \in Clauses PROVE O!HoldsAny(f, c)
  BY <1>1, EntailsIn DEF ClausesSound, Clauses, O!HoldsAny
<1>4. ASSUME NEW f \in Models, NEW l \in fixed PROVE O!Holds(f, l)
  <2>1. PICK i \in DOMAIN trail : LevelAt(i) = 0 /\ trail[i].lit = l
    OBVIOUS
  <2>2. LevelIn(trail_lim, i) = 0
    BY <2>1, LevelsAre
  <2>3. Entails(map, {l})
    BY <1>1, <2>1, <2>2 DEF Sound, TrailSound, Level0Implied
  <2>4. QED
    BY <2>3, EntailsUnit DEF Models
<1> HIDE DEF fixed
<1>5. O!ModelsOf(map, {}) = Models
  BY DEF O!ModelsOf, Models, O!Constraint, Constraint
<1>6. O!ModelsOf(Clauses, fixed) \subseteq Models
  BY <1>2 DEF O!ModelsOf, Models, O!Constraint, Constraint
<1>7. Models \subseteq O!ModelsOf(Clauses, fixed)
  BY <1>3, <1>4 DEF O!ModelsOf, Models, O!Constraint, Constraint
<1>8. QED
  BY <1>5, <1>6, <1>7

(* Neither simplification nor the removal of learnt clauses loses or adds  *)
(* a model.                                                                *)
THEOREM ModelsCorrect == Spec => []ModelsKept
<1>1. Inv => ModelsKept
  BY SameModels
<1>2. QED
  BY <1>1, InvariantHolds, PTL

---------------------------------------------------------------------------
(* The solver answers like MapOracle. *)

LEMMA OracleConstants ==
    O!Constraint = Constraint /\ O!MapLit = MapLit
BY DEF O!Constraint, O!MapLit, Constraint, MapLit

(* A model of the clauses and the assumptions that agrees with the         *)
(* decisions agrees with the whole trail: the first literal in which it    *)
(* differs would be a decision.                                            *)
LEMMA NoFirstDifference ==
    ASSUME Inv, call.op = "solve", NEW g \in O!ModelsOf(map, call.assumed),
           \A l \in MapLit :
              /\ IsTrue(l)
              /\ call.polarity = "true" => l \in Constraint
              /\ call.polarity = "false" => -l \in Constraint
              => O!Holds(g, l),
           NEW i \in DOMAIN trail
    PROVE  O!Holds(g, trail[i].lit)
<1> DEFINE D == {k \in DOMAIN trail : ~O!Holds(g, trail[k].lit)}
<1>1. Sound /\ call.assumed = ToSet(assumptions) /\ assumptions \in Seq(MapLit)
  BY InvParts DEF CallInProgress, TypeOK
<1>2. g \in Models /\ \A l \in call.assumed : O!Holds(g, l)
  BY OracleConstants DEF O!ModelsOf, Models
<1> SUFFICES ASSUME D # {} PROVE FALSE
  OBVIOUS
<1>3. D \in SUBSET Nat
  BY <1>1, SoundFacts
<1>4. PICK k \in D : \A n \in D : k <= n
  BY <1>3, LeastNat
<1> DEFINE l == trail[k].lit
<1>5. k \in DOMAIN trail /\ k \in Nat /\ ~O!Holds(g, l) /\ l \in MapLit
  BY <1>1, <1>4, SoundFacts
<1>6. ASSUME NEW j \in DOMAIN trail, j < k PROVE O!Holds(g, trail[j].lit)
  <2>1. j \in Nat /\ ~(k <= j)
    BY <1>1, <1>5, <1>6, SoundFacts
  <2>2. QED
    BY <1>4, <2>1
<1> HIDE DEF D
<1>7. CASE trail[k].reason # NoReason
  <2>1. /\ Entails(map, trail[k].reason)
        /\ \A q \in trail[k].reason \ {l} : \E j \in DOMAIN trail : j < k /\ trail[j].lit = -q
    BY <1>1, <1>5, <1>7 DEF Sound, TrailSound, ReasonsSound
  <2>2. PICK q \in trail[k].reason : O!Holds(g, q)
    BY <1>2, <2>1, EntailsIn
  <2>3. q # l /\ q \in MapLit
    BY <1>1, <1>5, <2>2, SoundFacts
  <2>4. PICK j \in DOMAIN trail : j < k /\ trail[j].lit = -q
    BY <2>1, <2>3
  <2>5. O!Holds(g, -q)
    BY <1>6, <2>4
  <2>6. QED
    BY <2>2, <2>3, <2>5, NegHolds
<1>8. CASE trail[k].reason = NoReason /\ LevelAt(k) = 0
  <2>1. LevelIn(trail_lim, k) = 0
    BY <1>8, LevelsAre
  <2>2. Entails(map, {l})
    BY <1>1, <1>5, <2>1 DEF Sound, TrailSound, Level0Implied
  <2>3. QED
    BY <1>2, <1>5, <2>2, EntailsUnit DEF Models
<1>9. CASE trail[k].reason = NoReason /\ LevelAt(k) # 0
  <2> DEFINE n == LevelIn(trail_lim, k)
  <2>1. n \in DOMAIN trail_lim
    <3>1. n \in 0 .. Len(trail_lim) /\ n # 0 /\ DOMAIN trail_lim = 1 .. Len(trail_lim)
          /\ Len(trail_lim) \in Nat
      BY <1>1, <1>5, <1>9, SoundFacts DEF decisionLevel
    <3> HIDE DEF n
    <3>2. QED
      BY ONLY <3>1
  <2> HIDE DEF n
  <2>2. MayOpen(l, n, assumptions, call)
    BY <1>1, <1>5, <1>9, <2>1 DEF Sound, TrailSound, DecisionsFirst, n
  <2>3. CASE n <= Len(assumptions)
    <3>1. n \in DOMAIN assumptions
      <4>1. /\ n \in 1 .. Len(trail_lim) /\ Len(trail_lim) \in Nat
            /\ DOMAIN assumptions = 1 .. Len(assumptions) /\ Len(assumptions) \in Nat
        BY <1>1, <2>1, SoundFacts, SeqFacts
      <4>2. QED
        BY ONLY <2>3, <4>1
    <3>2. l = assumptions[n]
      BY <2>2, <2>3 DEF MayOpen
    <3>3. l \in call.assumed
      BY <1>1, <3>1, <3>2 DEF ToSet
    <3>4. QED
      BY <1>2, <1>5, <3>3
  <2>4. CASE ~(n <= Len(assumptions))
    <3>1. /\ call.polarity = "true" => l \in Constraint
          /\ call.polarity = "false" => -l \in Constraint
      BY <2>2, <2>4 DEF MayOpen
    <3>2. IsTrue(l)
      BY <1>5, TrueFalse
    <3>3. QED
      BY <1>5, <3>1, <3>2
  <2>5. QED
    BY <2>3, <2>4
<1>10. QED
  BY <1>7, <1>8, <1>9

(* The assignment that is returned as a model. *)
LEMMA ModelFacts ==
    ASSUME Inv, pc = "model"
    PROVE  /\ \A l \in MapLit : O!Holds(Assigned \cap Constraint, l) <=> IsTrue(l)
           /\ Assigned \cap Constraint \in O!ModelsOf(map, call.assumed)
<1> DEFINE m == Assigned \cap Constraint
<1>1. /\ Sound /\ ok /\ NothingLost /\ ClausesSound(watches, map) /\ NoMissedUnit
      /\ call.op = "solve" /\ call.assumed = ToSet(assumptions) /\ assumptions \in Seq(MapLit)
      /\ Len(assumptions) <= decisionLevel
      /\ \A c \in Constraint : IsTrue(c) \/ IsFalse(c)
  BY InvParts, NoUnitMissed DEF AnswerKnown, CallInProgress, Settled, TypeOK
<1>2. ASSUME NEW l \in MapLit PROVE ~(IsTrue(l) /\ IsFalse(l)) /\ (IsTrue(l) \/ IsFalse(l))
  <2>1. ASSUME IsTrue(l), IsFalse(l) PROVE FALSE
    <3>1. PICK i \in DOMAIN trail : trail[i].lit = l
      BY <2>1, TrueFalse
    <3>2. PICK j \in DOMAIN trail : trail[j].lit = -l
      BY <2>1, TrueFalse
    <3>3. FalseLit(l)
      BY <1>1, <3>2, FalseLitAt
    <3>4. QED
      BY <1>1, <3>1, <3>3, FalseLitFacts
  <2>2. IsTrue(l) \/ IsFalse(l)
    <3>1. l \in Constraint \/ -l \in Constraint
      BY LitFacts
    <3>2. CASE l \in Constraint
      BY <3>2, <1>1
    <3>3. CASE -l \in Constraint
      <4>1. IsTrue(-l) \/ IsFalse(-l)
        BY <3>3, <1>1
      <4>2. -(-l) = l
        BY LitFacts
      <4>3. QED
        BY <4>1, <4>2 DEF IsTrue, IsFalse
    <3>4. QED
      BY <3>1, <3>2, <3>3
  <2>3. QED
    BY <2>1, <2>2
<1>3. ASSUME NEW l \in MapLit PROVE O!Holds(m, l) <=> IsTrue(l)
  <2>1. l \in Int /\ -(-l) = l /\ (l \in Constraint \/ -l \in Constraint)
    BY LitFacts
  <2>2. CASE l \in Constraint
    <3>1. l > 0
      BY <2>2, MapSolverAssumption DEF Constraint
    <3>2. QED
      BY <2>2, <3>1 DEF O!Holds, IsTrue
  <2>3. CASE -l \in Constraint
    <3>1. ~(l > 0)
      <4>1. -l > 0
        BY <2>3, MapSolverAssumption DEF Constraint
      <4>2. QED
        BY ONLY <2>1, <4>1
    <3>2. O!Holds(m, l) <=> ~IsFalse(l)
      BY <2>3, <3>1 DEF O!Holds, IsFalse
    <3>3. QED
      BY <1>2, <3>2
  <2>4. QED
    BY <2>1, <2>2, <2>3
<1> HIDE DEF m
<1>4. ASSUME NEW cl \in map PROVE O!HoldsAny(m, cl)
  <2>1. cl \subseteq MapLit
    BY InvParts, ClauseFacts DEF TypeOK
  <2>2. CASE \E i \in DOMAIN trail : LevelAt(i) = 0 /\ trail[i].lit \in cl
    <3>1. PICK i \in DOMAIN trail : trail[i].lit \in cl
      BY <2>2
    <3>2. IsTrue(trail[i].lit)
      BY TrueFalse
    <3>3. QED
      BY <1>3, <2>1, <3>1, <3>2 DEF O!HoldsAny
  <2>3. CASE \E c \in Clauses : c \subseteq cl
    <3>1. PICK c \in Clauses : c \subseteq cl
      BY <2>3
    <3>2. c \in DOMAIN watches /\ c \subseteq MapLit
      BY <2>1, <3>1 DEF Clauses
    <3>3. {l \in c : Undefined(l)} = {}
      BY <1>2, <3>2 DEF Undefined
    <3>4. ~(Cardinality({l \in c : Undefined(l)}) >= 2)
      BY <3>3, FS_EmptySet
    <3>5. PICK l \in c : IsTrue(l)
      BY <1>1, <3>2, <3>4 DEF NoMissedUnit
    <3>6. QED
      BY <1>3, <2>1, <3>1, <3>5 DEF O!HoldsAny
  <2>4. QED
    BY <1>1, <2>2, <2>3 DEF NothingLost
<1>5. ASSUME NEW l \in call.assumed PROVE O!Holds(m, l)
  <2>1. PICK n \in DOMAIN assumptions : assumptions[n] = l
    BY <1>1 DEF ToSet
  <2>2. n \in DOMAIN trail_lim
    <3>1. /\ DOMAIN assumptions = 1 .. Len(assumptions) /\ Len(assumptions) \in Nat
          /\ DOMAIN trail_lim = 1 .. Len(trail_lim) /\ Len(trail_lim) \in Nat
      BY <1>1, SeqFacts, SoundFacts
    <3>2. Len(assumptions) <= Len(trail_lim)
      BY <1>1 DEF decisionLevel
    <3>3. QED
      BY ONLY <2>1, <3>1, <3>2
  <2>3. \E i \in DOMAIN trail : trail[i].lit = l
    BY <1>1, <2>1, <2>2 DEF Sound, TrailSound, AssumptionsTrue
  <2>4. IsTrue(l) /\ l \in MapLit
    BY <1>1, <2>1, <2>3, TrueFalse
  <2>5. QED
    BY <1>3, <2>4
<1>6. m \in SUBSET O!Constraint
  BY OracleConstants DEF m
<1>7. m \in O!ModelsOf(map, call.assumed)
  BY <1>4, <1>5, <1>6 DEF O!ModelsOf
<1>8. QED
  BY <1>3, <1>7 DEF m

(* It is a maximal (minimal) one under the polarity asked for. *)
LEMMA ModelPreferred ==
    ASSUME Inv, pc = "model"
    PROVE  Assigned \cap Constraint \in O!Preferred(O!ModelsOf(map, call.assumed), call.polarity)
<1> DEFINE m == Assigned \cap Constraint
           family == O!ModelsOf(map, call.assumed)
<1>1. /\ m \in family /\ \A l \in MapLit : O!Holds(m, l) <=> IsTrue(l)
  BY ModelFacts
<1>2. call.op = "solve" /\ call.polarity \in Polarity /\ \A c \in Constraint : IsTrue(c) \/ IsFalse(c)
  BY InvParts DEF CallInProgress, Settled, AnswerKnown
<1>3. \A c \in Constraint : c \in MapLit /\ -c \in MapLit /\ c > 0 /\ ~(-c > 0) /\ -(-c) = c
  BY MapSolverAssumption DEF Constraint, MapLit
<1>4. m \subseteq Constraint /\ \A g \in family : g \subseteq Constraint
  BY OracleConstants DEF O!ModelsOf
<1> HIDE DEF m
<1>5. ASSUME NEW g \in family, \A l \in MapLit :
                /\ IsTrue(l)
                /\ call.polarity = "true" => l \in Constraint
                /\ call.polarity = "false" => -l \in Constraint
                => O!Holds(g, l)
      PROVE  g = m
  <2>1. \A i \in DOMAIN trail : O!Holds(g, trail[i].lit)
    BY <1>2, <1>5, NoFirstDifference
  <2>2. ASSUME NEW c \in Constraint PROVE c \in g <=> c \in m
    <3>1. CASE IsTrue(c)
      <4>1. O!Holds(g, c) /\ O!Holds(m, c)
        BY <3>1, <1>1, <1>3, <2>1, TrueFalse
      <4>2. QED
        BY <4>1, <1>3 DEF O!Holds
    <3>2. CASE IsFalse(c)
      <4>1. O!Holds(g, -c)
        BY <3>2, <2>1, TrueFalse
      <4>2. IsTrue(-c)
        BY <3>2 DEF IsTrue, IsFalse
      <4>3. O!Holds(m, -c)
        BY <4>2, <1>1, <1>3
      <4>4. QED
        BY <4>1, <4>3, <1>3 DEF O!Holds
    <3>3. QED
      BY <3>1, <3>2, <1>2
  <2>3. g \subseteq Constraint
    BY <1>4
  <2>4. QED
    BY <2>2, <2>3, <1>4
<1> HIDE DEF family
<1>6. CASE call.polarity = "true"
  <2>1. ASSUME NEW g \in family, m \subseteq g PROVE g = m
    <3>1. ASSUME NEW l \in MapLit, IsTrue(l), l \in Constraint PROVE O!Holds(g, l)
      <4>1. l \in m /\ l > 0
        BY <3>1, <1>1, <1>3 DEF O!Holds
      <4>2. QED
        BY <4>1, <2>1 DEF O!Holds
    <3>2. QED
      BY <1>5, <1>6, <3>1
  <2>2. m \in O!Maximal(family)
    BY <1>1, <2>1 DEF O!Maximal
  <2>3. QED
    BY <2>2, <1>6 DEF O!Preferred, m, family
<1>7. CASE call.polarity = "false"
  <2>1. ASSUME NEW g \in family, g \subseteq m PROVE g = m
    <3>1. ASSUME NEW l \in MapLit, IsTrue(l), -l \in Constraint PROVE O!Holds(g, l)
      <4>1. O!Holds(m, l)
        BY <3>1, <1>1
      <4>2. l = -(-l) /\ ~(l > 0)
        BY <1>3, <3>1, LitFacts
      <4>3. -l \notin m
        BY <4>1, <4>2 DEF O!Holds
      <4>4. -l \notin g
        BY <4>3, <2>1
      <4>5. QED
        BY <4>2, <4>4 DEF O!Holds
    <3>2. QED
      BY <1>5, <1>7, <3>1
  <2>2. m \in O!Minimal(family)
    BY <1>1, <2>1 DEF O!Minimal
  <2>3. QED
    BY <2>2, <1>7 DEF O!Preferred, m, family
<1>8. CASE call.polarity = "any"
  BY <1>8, <1>1 DEF O!Preferred, m, family
<1>9. QED
  BY <1>2, <1>6, <1>7, <1>8 DEF Polarity

LEMMA NoModelRight ==
    ASSUME Inv, pc = "no model"
    PROVE  O!ModelsOf(map, call.assumed) = {}
<1> SUFFICES ASSUME NEW f \in O!ModelsOf(map, call.assumed) PROVE FALSE
  OBVIOUS
<1>1. f \in Models /\ \A l \in call.assumed : O!Holds(f, l)
  BY OracleConstants DEF O!ModelsOf, Models
<1>2. CASE ~ok
  <2>1. f \in O!ModelsOf(map, {})
    BY DEF O!ModelsOf
  <2>2. QED
    BY <1>2, <2>1, InvParts DEF AnswerKnown
<1>3. CASE ok
  <2>1. Entails(map, conflict) /\ conflict \subseteq {-a : a \in ToSet(assumptions)}
    BY <1>3, InvParts DEF AnswerKnown
  <2>2. PICK l \in conflict : O!Holds(f, l)
    BY <1>1, <2>1, EntailsIn
  <2>3. PICK a \in ToSet(assumptions) : l = -a
    BY <2>1, <2>2
  <2>4. a \in MapLit
    <3>1. assumptions \in Seq(MapLit)
      BY InvParts DEF TypeOK
    <3>2. PICK n \in DOMAIN assumptions : a = assumptions[n]
      BY <2>3 DEF ToSet
    <3>3. QED
      BY ONLY <3>1, <3>2
  <2>5. call.assumed = ToSet(assumptions)
    BY InvParts DEF CallInProgress
  <2>6. O!Holds(f, a)
    BY <1>1, <2>3, <2>5
  <2>7. QED
    BY <2>2, <2>3, <2>4, <2>6, NegHolds
<1>4. QED
  BY <1>2, <1>3

LEMMA OracleStep ==
    ASSUME Inv, [Next]_solverVars
    PROVE  [O!Next]_(O!oracleVars)
<1>1. CASE AddClause
  <2>1. O!CallAdd(Head(toAdd))
    BY <1>1 DEF AddClause
  <2>2. Head(toAdd) \in SUBSET O!MapLit
    <3>1. Head(toAdd) \in MapClause
      BY <1>1, AddFacts DEF Adds
    <3>2. QED
      BY <3>1, ClauseFacts, OracleConstants
  <2>3. QED
    BY <2>1, <2>2 DEF O!Next
<1>2. CASE AddReturns
  <2>1. pc \in {"added", "inconsistent"} /\ O!Reply([kind |-> pc]) /\ UNCHANGED map
    BY <1>2 DEF AddReturns
  <2>2. call.op = "add" /\ (pc = "inconsistent" => O!ModelsOf(map, {}) = {})
    BY <2>1, InvParts DEF CallInProgress, AnswerKnown
  <2>3. O!ReplyAdd
    BY <2>1, <2>2 DEF O!ReplyAdd
  <2>4. QED
    BY <2>3 DEF O!Next
<1>3. CASE Solve
  <2>1. PICK q \in Queries : O!CallSolve(ToSet(q.assumptions), q.polarity)
    BY <1>3 DEF Solve
  <2>2. q.assumptions \in Seq(MapLit) /\ q.polarity \in {"true", "false", "any"}
    BY MapSolverAssumption DEF Query
  <2>3. ToSet(q.assumptions) \in SUBSET O!MapLit
    BY <2>2, OracleConstants DEF ToSet
  <2>4. QED
    BY <2>1, <2>2, <2>3 DEF O!Next
<1>4. CASE SolveReturns
  <2> DEFINE family == O!ModelsOf(map, call.assumed)
  <2>1. /\ pc \in {"model", "no model"} /\ UNCHANGED map
        /\ O!Reply(IF pc = "model" THEN [kind |-> pc, model |-> Assigned \cap Constraint] ELSE [kind |-> pc])
    BY <1>4 DEF SolveReturns
  <2>2. call.op = "solve"
    BY <2>1, InvParts DEF CallInProgress, Settled
  <2>3. CASE pc = "no model"
    <3>1. family = {} /\ O!Reply([kind |-> "no model"])
      BY <2>1, <2>3, NoModelRight
    <3>2. O!ReplySolve
      BY <2>1, <2>2, <3>1 DEF O!ReplySolve
    <3>3. QED
      BY <3>2 DEF O!Next
  <2>4. CASE pc = "model"
    <3>1. Assigned \cap Constraint \in O!Preferred(family, call.polarity)
      BY <2>4, ModelPreferred
    <3>2. O!Reply([kind |-> "model", model |-> Assigned \cap Constraint])
      BY <2>1, <2>4
    <3>3. O!ReplySolve
      BY <2>1, <2>2, <3>1, <3>2 DEF O!ReplySolve
    <3>4. QED
      BY <3>3 DEF O!Next
  <2>5. QED
    BY <2>1, <2>3, <2>4
<1>5. CASE TakeLiteral \/ Visit \/ Propagated \/ Learn \/ Refuted \/ Restart \/ Simplify \/ ReduceDB
           \/ Assume \/ Decide \/ Finished \/ UNCHANGED solverVars
  <2>1. UNCHANGED oracleVars
    BY <1>5 DEF TakeLiteral, Visit, Propagated, Learn, Refuted, Restart, Simplify, ReduceDB, Assume,
                Decide, Finished, solverVars
  <2>2. QED
    BY <2>1 DEF oracleVars, O!oracleVars
<1>6. QED
  BY <1>1, <1>2, <1>3, <1>4, <1>5 DEF Next

(* Explorer may take the solver for a list of clauses: a query is answered *)
(* with a maximal (minimal, arbitrary) model of the clauses added, or with *)
(* "no model" when there is none, after any number of earlier calls.       *)
THEOREM SolverImplementsOracle == Spec => ImplementsOracle
<1>1. Init => O!Init
  BY DEF Init
<1>2. Inv /\ [Next]_solverVars => [O!Next]_(O!oracleVars)
  BY OracleStep
<1>3. QED
  BY <1>1, <1>2, InvariantHolds, PTL DEF Spec, ImplementsOracle, O!Spec
===========================================================================
