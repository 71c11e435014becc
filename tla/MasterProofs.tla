--------------------------- MODULE MasterProofs ----------------------------
(***************************************************************************)
(* What every enumeration algorithm keeps true of the map and of a call of *)
(* shrink_formula, proved once for all of them: the algorithms add their   *)
(* own control on top.                                                     *)
(***************************************************************************)
EXTENDS Master, FiniteSetTheorems, SequenceTheorems, TLAPS

(* Satisfiability and critical constraints, on which all of them rest. *)

(* CritsSound(cr, f): removing any of cr makes f satisfiable, which is what *)
(* the tool calls a critical constraint of f.                              *)
CritsSound(cr, f) == \A c \in cr : c \in Constraint /\ Sat(f \ {c})

(* A subset of a satisfiable set is satisfiable: what block_down and       *)
(* block_up rely on.                                                       *)
LEMMA SatMonotone ==
    ASSUME NEW f, NEW g \in SUBSET f, Sat(f)
    PROVE  Sat(g)
BY DEF Sat, Models

(* A model of g satisfies every constraint it was asked to, so the grown   *)
(* set of solve() is satisfiable and contains the set asked about.         *)
LEMMA ExtensionsSatisfiable ==
    ASSUME NEW f \in SUBSET Constraint, NEW g \in Extensions(f)
    PROVE  Sat(g) /\ f \subseteq g /\ g \subseteq Constraint
BY DEF Extensions, Sat, Models

(* Every unsatisfiable set contains the constraints critical for it.       *)
LEMMA CriticalInside ==
    ASSUME NEW f, NEW cr, CritsSound(cr, f), ~Sat(f)
    PROVE  cr \subseteq f
<1>1. ASSUME NEW c \in cr, c \notin f PROVE FALSE
  <2>1. f \ {c} = f
    BY <1>1
  <2>2. QED
    BY <2>1, <1>1 DEF CritsSound
<1>2. QED
  BY <1>1

(* Critical constraints stay critical in an unsatisfiable subset.          *)
LEMMA CriticalInSubset ==
    ASSUME NEW f, NEW g \in SUBSET f, NEW cr, CritsSound(cr, f)
    PROVE  CritsSound(cr, g)
<1> SUFFICES ASSUME NEW c \in cr PROVE c \in Constraint /\ Sat(g \ {c})
  BY DEF CritsSound
<1>1. Sat(f \ {c}) /\ g \ {c} \subseteq f \ {c}
  BY DEF CritsSound
<1>2. QED
  BY <1>1, SatMonotone DEF CritsSound

---------------------------------------------------------------------------
Flip(a, l) == IF l > 0 THEN a \cup {l} ELSE a \ {-l}

(* Flipping l in a model of f \ {c} makes c true and can only break the    *)
(* other constraints that contain -l.                                      *)
LEMMA FlipModel ==
    ASSUME CnfTypeOK, hard_clauses = {}, NEW f \in SUBSET Constraint,
           ~Sat(f), NEW c \in Constraint, Sat(f \ {c}),
           NEW l \in clauses[c], NEW h, Hits(l, f) \ {c} \subseteq {h}
    PROVE  Sat(f \ {h})
<1> DEFINE T == f \ {c}
<1>1. PICK a \in SUBSET Var : \A d \in T : Satisfies(a, clauses[d])
  BY DEF Sat, Models
<1>2. l \in Lit /\ \A d \in Constraint : clauses[d] \subseteq Lit
  BY DEF CnfTypeOK
<1>3. Flip(a, l) \in SUBSET Var /\ l # 0 /\ l \in Int
  BY <1>2, SizesAssumption DEF Flip, Lit, Var
<1>4. LitTrue(Flip(a, l), l)
  BY <1>3 DEF Flip, LitTrue
<1>5. ASSUME NEW d \in f \ {h} PROVE Satisfies(Flip(a, l), clauses[d])
  <2>1. CASE l \in clauses[d]
    BY <2>1, <1>4 DEF Satisfies
  <2>2. CASE l \notin clauses[d]
    <3>1. d \in T
      BY <2>2
    <3>2. PICK k \in clauses[d] : LitTrue(a, k)
      BY <3>1, <1>1 DEF Satisfies
    <3>3. -l \notin clauses[d]
      BY <2>2 DEF Hits
    <3>4. k # l /\ k # -l /\ k \in Int /\ k # 0
      BY <3>2, <3>3, <2>2, <1>2, SizesAssumption DEF Lit, Var
    <3>5. LitTrue(Flip(a, l), k)
      BY <3>2, <3>4, <1>3 DEF Flip, LitTrue
    <3>6. QED
      BY <3>2, <3>5 DEF Satisfies
  <2>3. QED
    BY <2>1, <2>2
<1>6. Flip(a, l) \in Models(f \ {h})
  BY <1>3, <1>5 DEF Models
<1>7. QED
  BY <1>6 DEF Sat

(* Without hard clauses critical_extension only adds critical constraints. *)
LEMMA ExtensionSound ==
    ASSUME CnfTypeOK, hard_clauses = {}, NEW f \in SUBSET Constraint,
           ~Sat(f), NEW cr, CritsSound(cr, f)
    PROVE  CritsSound(CriticalExtension(cr, f), f)
<1> DEFINE X == {c \in Constraint : Sat(f \ {c})}
<1>1. cr \subseteq X
  BY DEF CritsSound
<1>2. ExtensionClosed(X, f)
  <2> SUFFICES ASSUME NEW c \in X, NEW l \in clauses[c], NEW h \in f, Hits(l, f) = {h}
               PROVE  h \in X
    BY DEF ExtensionClosed
  <2>1. Sat(f \ {h})
    BY FlipModel
  <2>2. QED
    BY <2>1
<1>3. CriticalExtension(cr, f) \subseteq X
  BY <1>1, <1>2 DEF CriticalExtension
<1>4. QED
  BY <1>3 DEF CritsSound

(* The same for criticals_rotation.                                        *)
LEMMA RotationSound ==
    ASSUME CnfTypeOK, hard_clauses = {}, NEW f \in SUBSET Constraint,
           ~Sat(f), NEW cr, CritsSound(cr, f)
    PROVE  CritsSound(CriticalsRotation(cr, f), f)
<1> DEFINE X == {c \in Constraint : Sat(f \ {c})}
<1>1. cr \subseteq X
  BY DEF CritsSound
<1>2. RotationClosed(X, f)
  <2> SUFFICES ASSUME NEW c \in X \cap f, NEW l \in clauses[c], NEW h \in f,
                      Hits(l, f) \ {c} = {h}
               PROVE  h \in X
    BY DEF RotationClosed
  <2>1. Sat(f \ {h})
    BY FlipModel
  <2>2. QED
    BY <2>1
<1>3. CriticalsRotation(cr, f) \subseteq X
  BY <1>1, <1>2 DEF CriticalsRotation
<1>4. QED
  BY <1>3 DEF CritsSound

---------------------------------------------------------------------------
(* The hypothesis of the theorems.  critical_extension, which is only      *)
(* called with get_implies, looks at the soft clauses alone; with hard     *)
(* clauses it is wrong (run marco_hard_implied): the option must be off.   *)
PlainInputs == get_implies => \A in \in Inputs : in.hard_clauses = {}

(* The part of PlainInputs that a state remembers.                         *)
PlainInv == get_implies => hard_clauses = {}

Weakened(m, K) == {-c : c \in m \ K}

DownSound ==
    /\ \A mcs \in mcses : Sat(Constraint \ mcs)
    /\ \A c \in critical : {c} \in mcses

UpSound == \A m \in blocked_muses : IsMus(m)

(* The clauses of the map are those of the two kinds of blocked sets; a    *)
(* clause of a MUS may have lost constraints that were critical then.      *)
MapClauses ==
    /\ mcses \subseteq solver
    /\ \A m \in blocked_muses : \E K \in SUBSET critical : Weakened(m, K) \in solver
    /\ \A cl \in solver : \/ cl \in mcses
                          \/ \E m \in blocked_muses : \E K \in SUBSET critical :
                                cl = Weakened(m, K)

MapInv == DownSound /\ UpSound /\ MapClauses

(* The arguments and the result of the call of shrink_formula under way.   *)
CallInv ==
    /\ pc \in {"collect", "shrink"} =>
          ~Sat(seed) /\ Unexplored(seed) /\ CritsSound(crits, seed)
    /\ pc \in {"mine", "mark"} => IsMus(mus) /\ mus \subseteq seed /\ Unexplored(mus)

Reported == {muses[i] : i \in DOMAIN muses}

(* Between its push and its mark, the new MUS is the only unblocked one.   *)
ReportInv ==
    Reported = blocked_muses \cup (IF pc \in {"mine", "mark"} THEN {mus} ELSE {})

MasterInv ==
    /\ CnfTypeOK /\ ExplorerTypeOK /\ MasterTypeOK
    /\ PlainInv /\ MapInv /\ CallInv /\ ReportInv

---------------------------------------------------------------------------
(* Nothing writes the formula after it was parsed. *)
LEMMA CnfUnchanged ==
    ASSUME UNCHANGED cnfVars
    PROVE  /\ \A f : Sat(f)' <=> Sat(f)
           /\ \A f : IsMus(f)' <=> IsMus(f)
           /\ \A cr, f : CritsSound(cr, f)' <=> CritsSound(cr, f)
<1>1. \A f : Models(f)' = Models(f)
  BY DEF Models, cnfVars
<1>2. \A f : Sat(f)' <=> Sat(f)
  BY <1>1 DEF Sat
<1>3. QED
  BY <1>2 DEF IsMus, CritsSound

(* Constraint numbers are positive, so a literal of the map tells its sign. *)
LEMMA MapLiterals ==
    ASSUME NEW f \in SUBSET Constraint, NEW c \in Constraint
    PROVE  /\ LitTrue(f, c) <=> c \in f
           /\ LitTrue(f, -c) <=> c \notin f
BY SizesAssumption DEF LitTrue, Constraint

(* A clause of block_down holds in the sets that meet the correction set,  *)
(* one of block_up in those that miss something of the (weakened) MUS.     *)
LEMMA MapClauseMeaning ==
    ASSUME NEW f \in SUBSET Constraint, NEW s \in SUBSET Constraint
    PROVE  /\ Satisfies(f, s) <=> f \cap s # {}
           /\ \A K : Satisfies(f, Weakened(s, K)) <=> ~(s \ K \subseteq f)
BY MapLiterals DEF Satisfies, Weakened

(* An unsatisfiable set meets every correction set that is known.          *)
LEMMA UnsatMeetsMcs ==
    ASSUME NEW f \in SUBSET Constraint, ~Sat(f), DownSound, ExplorerTypeOK
    PROVE  /\ \A mcs \in mcses : Satisfies(f, mcs)
           /\ critical \subseteq f
<1>1. ASSUME NEW mcs \in mcses PROVE f \cap mcs # {}
  <2>1. mcs \in SUBSET Constraint /\ Sat(Constraint \ mcs)
    BY DEF DownSound, ExplorerTypeOK
  <2>2. ~(f \subseteq Constraint \ mcs)
    BY <2>1, SatMonotone
  <2>3. QED
    BY <2>2, <2>1
<1>2. \A mcs \in mcses : mcs \in SUBSET Constraint
  BY DEF ExplorerTypeOK
<1>3. \A c \in critical : c \in f
  BY <1>1 DEF DownSound
<1>4. QED
  BY <1>1, <1>2, <1>3, MapClauseMeaning

(* An unexplored set has every constraint known to be critical.            *)
LEMMA CriticalInUnexplored ==
    ASSUME ExplorerTypeOK, MapInv, NEW f \in SUBSET Constraint, Unexplored(f)
    PROVE  critical \subseteq f
<1> SUFFICES ASSUME NEW c \in critical PROVE c \in f
  OBVIOUS
<1>1. {c} \in solver /\ {c} \in SUBSET Constraint
  BY DEF MapInv, DownSound, MapClauses, ExplorerTypeOK
<1>2. Satisfies(f, {c})
  BY <1>1 DEF Unexplored, SatisfiesAll
<1>3. f \cap {c} # {}
  BY ONLY <1>1, <1>2, f \in SUBSET Constraint, MapClauseMeaning
<1>4. QED
  BY <1>3

(* An unsatisfiable part of an unexplored set is unexplored: unsat cores,  *)
(* and the MUS a shrink finds in its seed.                                 *)
LEMMA UnsatPartUnexplored ==
    ASSUME ExplorerTypeOK, MapInv, NEW f \in SUBSET Constraint, Unexplored(f),
           NEW g \in SUBSET f, ~Sat(g)
    PROVE  Unexplored(g)
<1> SUFFICES ASSUME NEW cl \in solver PROVE Satisfies(g, cl)
  BY DEF Unexplored, SatisfiesAll
<1>1. CASE cl \in mcses
  BY <1>1, UnsatMeetsMcs DEF MapInv
<1>2. ASSUME NEW m \in blocked_muses, NEW K \in SUBSET critical, cl = Weakened(m, K)
      PROVE  Satisfies(g, cl)
  <2>1. m \in SUBSET Constraint
    BY DEF ExplorerTypeOK
  <2>2. ~(m \ K \subseteq f)
    BY <2>1, <1>2, MapClauseMeaning DEF Unexplored, SatisfiesAll
  <2>3. QED
    BY <2>1, <2>2, <1>2, MapClauseMeaning
<1>3. QED
  BY <1>1, <1>2 DEF MapInv, MapClauses

(* A blocked MUS is explored, ... *)
LEMMA BlockedIsExplored ==
    ASSUME ExplorerTypeOK, MapInv, NEW m \in blocked_muses
    PROVE  ~Unexplored(m)
<1>1. PICK K \in SUBSET critical : Weakened(m, K) \in solver
  BY DEF MapInv, MapClauses
<1>2. m \in SUBSET Constraint
  BY DEF ExplorerTypeOK
<1>3. QED
  BY <1>1, <1>2, MapClauseMeaning DEF Unexplored, SatisfiesAll

(* ... and every other MUS still is not, although clauses of block_up were *)
(* weakened: nothing is lost.                                              *)
LEMMA UnblockedIsUnexplored ==
    ASSUME ExplorerTypeOK, MapInv, NEW n, IsMus(n), n \notin blocked_muses
    PROVE  Unexplored(n)
<1>1. n \in SUBSET Constraint /\ ~Sat(n) /\ critical \subseteq n
  BY UnsatMeetsMcs DEF IsMus, MapInv
<1> SUFFICES ASSUME NEW cl \in solver PROVE Satisfies(n, cl)
  BY DEF Unexplored, SatisfiesAll
<1>2. CASE cl \in mcses
  BY <1>1, <1>2, UnsatMeetsMcs DEF MapInv
<1>3. ASSUME NEW m \in blocked_muses, NEW K \in SUBSET critical, cl = Weakened(m, K)
      PROVE  Satisfies(n, cl)
  <2>1. IsMus(m) /\ m \in SUBSET Constraint
    BY DEF MapInv, UpSound, ExplorerTypeOK
  <2>2. ASSUME m \subseteq n PROVE FALSE
    <3>1. PICK c \in n : c \notin m
      BY <2>2
    <3>2. Sat(n \ {c}) /\ m \subseteq n \ {c}
      BY <3>1, <2>2 DEF IsMus
    <3>3. QED
      BY <3>2, <2>1, SatMonotone DEF IsMus
  <2>3. ~(m \ K \subseteq n)
    BY <2>2, <1>1
  <2>4. QED
    BY <2>3, <2>1, <1>1, <1>3, MapClauseMeaning
<1>4. QED
  BY <1>2, <1>3 DEF MapInv, MapClauses

(* Sets of constraints are finite.                                         *)
LEMMA ConstraintsFinite ==
    ASSUME NEW f \in SUBSET Constraint
    PROVE  IsFiniteSet(f) /\ Cardinality(f) \in Nat /\ f \in SUBSET Int
<1>1. IsFiniteSet(Constraint)
  BY FS_Interval, SizesAssumption DEF Constraint
<1>2. IsFiniteSet(f)
  BY <1>1, FS_Subset
<1>3. Cardinality(f) \in Nat
  BY <1>2, FS_CardinalityType
<1>4. f \in SUBSET Int
  BY SizesAssumption DEF Constraint
<1>5. QED
  BY <1>2, <1>3, <1>4

(* Asking for an extreme unexplored set finds one whenever there is any.   *)
LEMMA MinimalExists ==
    ASSUME NEW T \in SUBSET SUBSET Constraint, T # {}
    PROVE  Minimal(T) # {}
<1>1. T \subseteq FiniteSubsetsOf(Constraint)
  BY ConstraintsFinite DEF FiniteSubsetsOf
<1>2. PICK x \in T : \A y \in T : <<y, x>> \notin StrictSubsetOrdering(Constraint)
  BY <1>1, WFMin, FS_StrictSubsetOrderingWellFounded
<1>3. QED
  BY <1>2 DEF StrictSubsetOrdering, Minimal

LEMMA MaximalExists ==
    ASSUME NEW T \in SUBSET SUBSET Constraint, T # {}
    PROVE  Maximal(T) # {}
<1> DEFINE U == {Constraint \ f : f \in T}
<1>1. U \in SUBSET SUBSET Constraint /\ U # {}
  <2>1. PICK f \in T : TRUE
    OBVIOUS
  <2>2. Constraint \ f \in U
    BY <2>1
  <2>3. U \in SUBSET SUBSET Constraint
    OBVIOUS
  <2>4. QED
    BY ONLY <2>2, <2>3
<1>2. PICK u : u \in Minimal(U)
  <2> HIDE DEF U
  <2>1. QED
    BY <1>1, MinimalExists
<1>3. PICK f \in T : u = Constraint \ f
  BY <1>2 DEF Minimal
<1>4. ASSUME NEW g \in T, f \subseteq g PROVE g = f
  <2>1. Constraint \ g \in U /\ Constraint \ g \subseteq u
    BY <1>3, <1>4
  <2>2. Constraint \ g = u
    BY <1>2, <2>1 DEF Minimal
  <2>3. QED
    BY <1>3, <2>2
<1>5. QED
  BY <1>4 DEF Maximal

---------------------------------------------------------------------------
(* The criticals shrink_formula works with are critical for its seed.      *)

LEMMA CriticalSound ==
    ASSUME ExplorerTypeOK, MapInv, NEW f \in SUBSET Constraint
    PROVE  CritsSound(critical, f)
<1> SUFFICES ASSUME NEW c \in critical PROVE c \in Constraint /\ Sat(f \ {c})
  BY DEF CritsSound
<1>1. Sat(Constraint \ {c}) /\ c \in Constraint
  BY DEF MapInv, DownSound, ExplorerTypeOK
<1>2. QED
  BY <1>1, SatMonotone

LEMMA ImpliedSound ==
    ASSUME ExplorerTypeOK, MapInv, NEW f \in SUBSET Constraint,
           NEW cr, CritsSound(cr, f)
    PROVE  CritsSound(Implied(cr, f), f)
<1> SUFFICES ASSUME NEW c \in f, IsCritical(c, f) PROVE Sat(f \ {c})
  BY DEF CritsSound, Implied
<1>1. CASE c \in critical
  BY <1>1, CriticalSound DEF CritsSound
<1>2. ASSUME NEW mcs \in mcses, mcs \cap f \subseteq {c} PROVE Sat(f \ {c})
  <2>1. Sat(Constraint \ mcs) /\ f \ {c} \subseteq Constraint \ mcs
    BY <1>2 DEF MapInv, DownSound
  <2>2. QED
    BY <2>1, SatMonotone
<1>3. QED
  BY <1>1, <1>2 DEF IsCritical

LEMMA KnownCritsSound ==
    ASSUME CnfTypeOK, ExplorerTypeOK, PlainInv, MapInv, seed \in SUBSET Constraint,
           ~Sat(seed), CritsSound(crits, seed)
    PROVE  CritsSound(KnownCrits, seed)
<1> DEFINE implied == Implied(crits, seed)
           rotated == IF criticals_rotation THEN CriticalsRotation(implied, seed)
                                            ELSE implied
<1>1. CASE ~get_implies
  BY <1>1 DEF KnownCrits
<1>2. CASE get_implies
  <2>1. hard_clauses = {}
    BY <1>2 DEF PlainInv
  <2>2. CritsSound(implied, seed)
    BY ImpliedSound
  <2>3. CritsSound(rotated, seed)
    <3> HIDE DEF implied
    <3>1. CritsSound(CriticalsRotation(implied, seed), seed)
      BY <2>1, <2>2, RotationSound
    <3>2. QED
      BY <2>2, <3>1
  <2>4. CritsSound(CriticalExtension(rotated, seed), seed)
    <3> HIDE DEF rotated
    <3>1. QED
      BY <2>1, <2>3, ExtensionSound
  <2>5. QED
    BY <1>2, <2>4 DEF KnownCrits
<1>3. QED
  BY <1>1, <1>2, FlagsAssumption

(* A set of criticals of f as large as f is f. *)
LEMMA AsManyCriticals ==
    ASSUME NEW f \in SUBSET Constraint, NEW cr \in SUBSET f,
           Cardinality(cr) = Cardinality(f)
    PROVE  cr = f
<1>1. IsFiniteSet(f)
  BY ConstraintsFinite
<1>2. QED
  BY <1>1, FS_Subset

(* The three results of shrink_formula are MUSes inside the seed.          *)
LEMMA ShrinkIsMus ==
    ASSUME NEW f \in SUBSET Constraint, ~Sat(f), NEW cr, CritsSound(cr, f),
           NEW m \in ShrinkResults(f, cr)
    PROVE  IsMus(m) /\ m \subseteq f
<1>1. cr \subseteq f
  BY CriticalInside
<1>2. m \subseteq f /\ ~Sat(m) /\ cr \subseteq m /\ \A c \in m \ cr : Sat(m \ {c})
  BY <1>1 DEF ShrinkResults
<1>3. CritsSound(cr, m)
  BY <1>2, CriticalInSubset
<1>4. QED
  BY <1>2, <1>3 DEF IsMus, CritsSound

LEMMA AllCriticalIsMus ==
    ASSUME NEW f \in SUBSET Constraint, ~Sat(f), CritsSound(f, f)
    PROVE  IsMus(f)
BY DEF IsMus, CritsSound

LEMMA CritsAreMus ==
    ASSUME NEW f \in SUBSET Constraint, ~Sat(f), NEW cr, CritsSound(cr, f), ~Sat(cr)
    PROVE  IsMus(cr) /\ cr \subseteq f
<1>1. cr \subseteq f
  BY CriticalInside
<1>2. CritsSound(cr, cr)
  BY <1>1, CriticalInSubset
<1>3. QED
  BY <1>1, <1>2, AllCriticalIsMus

---------------------------------------------------------------------------
(* The two ways the map is written keep its invariant. *)

LEMMA BlockDownStep ==
    ASSUME ExplorerTypeOK, testedForCriticality' \in SUBSET Constraint, MapInv,
           NEW f \in SUBSET Constraint, Sat(f), BlockDown(f), UNCHANGED cnfVars
    PROVE  /\ ExplorerTypeOK' /\ MapInv'
           /\ \A g \in SUBSET Constraint : ~Sat(g) /\ Unexplored(g) => Unexplored(g)'
<1> DEFINE mcs == Constraint \ f
<1>1. mcs \in SUBSET Constraint /\ Constraint \ mcs = f
  OBVIOUS
<1>2. ExplorerTypeOK'
  BY <1>1 DEF ExplorerTypeOK, BlockDown, AfterAnd, MapLit
<1>3. DownSound'
  BY <1>1, CnfUnchanged DEF MapInv, DownSound, BlockDown
<1>4. UpSound'
  BY CnfUnchanged DEF MapInv, UpSound, BlockDown
<1>5. MapClauses'
  BY DEF MapInv, MapClauses, BlockDown, Weakened
<1>6. ASSUME NEW g \in SUBSET Constraint, ~Sat(g), Unexplored(g) PROVE Unexplored(g)'
  <2>1. ~(g \subseteq f)
    BY <1>6, SatMonotone
  <2>2. Satisfies(g, mcs)
    BY <2>1, <1>1, <1>6, MapClauseMeaning
  <2>3. \A cl : Satisfies(g, cl)' <=> Satisfies(g, cl)
    BY DEF Satisfies, LitTrue
  <2>4. QED
    BY <2>2, <2>3, <1>6 DEF BlockDown, Unexplored, SatisfiesAll
<1>7. QED
  BY <1>2, <1>3, <1>4, <1>5, <1>6 DEF MapInv

LEMMA BlockUpStep ==
    ASSUME ExplorerTypeOK, UNCHANGED testedForCriticality, MapInv,
           NEW m, IsMus(m), BlockUp(m), UNCHANGED cnfVars
    PROVE  ExplorerTypeOK' /\ MapInv'
<1>1. m \in SUBSET Constraint
  BY DEF IsMus
<1>2. UpClause(m) \in SUBSET MapLit /\ UpClause(m) = Weakened(m, critical)
  BY <1>1 DEF UpClause, MapLit, Weakened
<1>3. ExplorerTypeOK'
  BY <1>1, <1>2 DEF ExplorerTypeOK, BlockUp, AfterAnd
<1>4. DownSound'
  BY CnfUnchanged DEF MapInv, DownSound, BlockUp
<1>5. UpSound'
  BY CnfUnchanged DEF MapInv, UpSound, BlockUp
<1>6. MapClauses'
  <2>1. \A n \in blocked_muses' : \E K \in SUBSET critical : Weakened(n, K) \in solver'
    BY <1>2 DEF MapInv, MapClauses, BlockUp
  <2>2. \A cl \in solver' : \/ cl \in mcses
                             \/ \E n \in blocked_muses' : \E K \in SUBSET critical :
                                   cl = Weakened(n, K)
    BY <1>2 DEF MapInv, MapClauses, BlockUp
  <2>3. QED
    BY <2>1, <2>2 DEF MapInv, MapClauses, BlockUp, Weakened
<1>7. QED
  BY <1>3, <1>4, <1>5, <1>6 DEF MapInv

(* Steps that leave the map alone. *)
LEMMA MapUnchanged ==
    ASSUME UNCHANGED <<cnfVars, explorerVars>>
    PROVE  /\ CnfTypeOK' <=> CnfTypeOK
           /\ ExplorerTypeOK' <=> ExplorerTypeOK
           /\ PlainInv' <=> PlainInv
           /\ MapInv' <=> MapInv
           /\ \A f : Unexplored(f)' <=> Unexplored(f)
<1>1. \A f : Sat(f)' <=> Sat(f)
  BY CnfUnchanged
<1>2. \A f : IsMus(f)' <=> IsMus(f)
  BY CnfUnchanged
<1>3. \A f : Unexplored(f)' <=> Unexplored(f)
  BY DEF explorerVars, Unexplored, SatisfiesAll, Satisfies, LitTrue
<1>4. MapInv' <=> MapInv
  <2>1. DownSound' <=> DownSound
    BY <1>1 DEF explorerVars, DownSound
  <2>2. UpSound' <=> UpSound
    BY <1>2 DEF explorerVars, UpSound
  <2>3. MapClauses' <=> MapClauses
    BY DEF explorerVars, MapClauses, Weakened
  <2>4. QED
    BY <2>1, <2>2, <2>3 DEF MapInv
<1>5. QED
  BY <1>3, <1>4 DEF cnfVars, explorerVars, CnfTypeOK, ExplorerTypeOK, PlainInv

(* What Append does to the set of the reported MUSes. *)
LEMMA PushReports ==
    ASSUME muses \in Seq(SUBSET Constraint), NEW m \in SUBSET Constraint, Push(m)
    PROVE  /\ muses' \in Seq(SUBSET Constraint)
           /\ Reported' = Reported \cup {m}
           /\ mus' = m
BY DEF Push, Reported

---------------------------------------------------------------------------
(* One call of shrink_formula, step by step. *)

(* A MUS inside the seed was never reported, and pushing it is sound.      *)
LEMMA PushKeepsInv ==
    ASSUME MasterInv, pc \in {"collect", "shrink"}, NEW m, IsMus(m), m \subseteq seed,
           Push(m), pc' \in {"mine", "mark"}, UNCHANGED <<cnfVars, explorerVars>>,
           UNCHANGED <<seed, uni>>, crits' \in SUBSET Constraint, limit' \in Int
    PROVE  MasterInv' /\ m \in AllMuses \ Reported
<1>1. m \in SUBSET Constraint /\ ~Sat(m)
  BY DEF IsMus
<1>2. Unexplored(m)
  BY <1>1, UnsatPartUnexplored DEF MasterInv, MasterTypeOK, CallInv
<1>3. m \notin blocked_muses
  BY <1>2, BlockedIsExplored DEF MasterInv
<1>4. Reported = blocked_muses
  BY DEF MasterInv, ReportInv
<1>5. muses' \in Seq(SUBSET Constraint) /\ Reported' = Reported \cup {m} /\ mus' = m
  BY <1>1, PushReports DEF MasterInv, MasterTypeOK
<1>6. MasterTypeOK'
  BY <1>1, <1>5 DEF MasterInv, MasterTypeOK
<1>7. CallInv'
  <2>1. IsMus(m)' /\ Unexplored(m)'
    BY <1>2, CnfUnchanged, MapUnchanged
  <2>2. QED
    BY <2>1, <1>5 DEF CallInv
<1>8. ReportInv'
  BY <1>4, <1>5 DEF ReportInv, explorerVars
<1>9. (CnfTypeOK /\ ExplorerTypeOK /\ PlainInv /\ MapInv)'
  BY MapUnchanged DEF MasterInv
<1>10. QED
  BY <1>1, <1>3, <1>4, <1>6, <1>7, <1>8, <1>9 DEF MasterInv, AllMuses

LEMMA CollectPushes ==
    ASSUME MasterInv, CollectCrits
    PROVE  /\ CritsSound(crits', seed)
           /\ \/ UNCHANGED <<mus, muses>> /\ pc' = "shrink"
              \/ \E m : IsMus(m) /\ m \subseteq seed /\ Push(m) /\ pc' = "mark"
<1> DEFINE known == KnownCrits
<1>1. seed \in SUBSET Constraint /\ ~Sat(seed) /\ CritsSound(known, seed)
  BY KnownCritsSound DEF CollectCrits, MasterInv, MasterTypeOK, CallInv
<1>2. known \subseteq seed /\ crits' = known
  BY <1>1, CriticalInside DEF CollectCrits
<1> HIDE DEF known
<1>3. CASE EachIsCritical(known) /\ Push(seed) /\ pc' = "mark"
  <2>1. known = seed
    BY <1>1, <1>2, <1>3, AsManyCriticals DEF EachIsCritical
  <2>2. IsMus(seed)
    BY <1>1, <2>1, AllCriticalIsMus
  <2>3. QED
    BY <1>1, <1>2, <1>3, <2>2
<1>4. CASE CritsSuffice(known) /\ Push(known) /\ pc' = "mark"
  <2>1. IsMus(known) /\ known \subseteq seed
    BY <1>1, <1>4, CritsAreMus DEF CritsSuffice
  <2>2. QED
    BY <1>1, <1>2, <1>4, <2>1
<1>5. CASE pc' = "shrink" /\ UNCHANGED <<mus, muses>>
  BY <1>1, <1>2, <1>5
<1>6. QED
  BY <1>3, <1>4, <1>5 DEF CollectCrits, known

LEMMA ShrinkPushes ==
    ASSUME MasterInv, Shrink
    PROVE  /\ \E m : IsMus(m) /\ m \subseteq seed /\ Push(m)
           /\ pc' \in {"mine", "mark"} /\ limit' \in Int
<1>1. seed \in SUBSET Constraint /\ ~Sat(seed) /\ CritsSound(crits, seed)
  BY DEF Shrink, MasterInv, MasterTypeOK, CallInv
<1>2. PICK m \in ShrinkResults(seed, crits) : Push(m)
  BY DEF Shrink
<1>3. IsMus(m) /\ m \subseteq seed
  BY <1>1, ShrinkIsMus
<1>4. MiningQuota \in Int
  <2>1. mus_intersection \in SUBSET Constraint
    BY DEF MasterInv, ExplorerTypeOK
  <2>2. Cardinality(mus_intersection) \in Nat
    BY <2>1, ConstraintsFinite
  <2>3. QED
    BY <2>2 DEF MiningQuota
<1>5. QED
  BY <1>2, <1>3, <1>4 DEF Shrink, MasterInv, MasterTypeOK

LEMMA CollectCritsStep ==
    ASSUME MasterInv, CollectCrits
    PROVE  /\ MasterInv'
           /\ \/ UNCHANGED muses
              \/ \E m \in AllMuses \ Reported : muses' = Append(muses, m)
<1>1. crits' \in SUBSET Constraint /\ limit' \in Int
  BY CollectPushes DEF CritsSound, CollectCrits, MasterInv, MasterTypeOK
<1>2. CASE UNCHANGED <<mus, muses>> /\ pc' = "shrink"
  <2>1. (CnfTypeOK /\ ExplorerTypeOK /\ PlainInv /\ MapInv)'
    BY MapUnchanged DEF MasterInv, CollectCrits
  <2>2. MasterTypeOK'
    BY <1>1, <1>2 DEF MasterInv, MasterTypeOK, CollectCrits
  <2>3. CallInv'
    <3>1. ~Sat(seed)' /\ Unexplored(seed)' /\ CritsSound(crits, seed)'
      BY CollectPushes, CnfUnchanged, MapUnchanged DEF CollectCrits, MasterInv, CallInv
    <3>2. QED
      BY <3>1, <1>2 DEF CallInv, CollectCrits
  <2>4. ReportInv'
    BY <1>2 DEF MasterInv, ReportInv, Reported, CollectCrits, explorerVars
  <2>5. QED
    BY <1>2, <2>1, <2>2, <2>3, <2>4 DEF MasterInv
<1>3. ASSUME NEW m, IsMus(m), m \subseteq seed, Push(m), pc' = "mark"
      PROVE  MasterInv' /\ m \in AllMuses \ Reported /\ muses' = Append(muses, m)
  BY <1>1, <1>3, PushKeepsInv DEF CollectCrits, Push
<1>4. QED
  BY <1>2, <1>3, CollectPushes

LEMMA ShrinkStep ==
    ASSUME MasterInv, Shrink
    PROVE  /\ MasterInv'
           /\ \E m \in AllMuses \ Reported : muses' = Append(muses, m)
<1>1. PICK m : IsMus(m) /\ m \subseteq seed /\ Push(m)
  BY ShrinkPushes
<1>2. crits' \in SUBSET Constraint /\ limit' \in Int /\ pc' \in {"mine", "mark"}
  BY ShrinkPushes DEF Shrink, MasterInv, MasterTypeOK
<1>3. MasterInv' /\ m \in AllMuses \ Reported
  BY <1>1, <1>2, PushKeepsInv DEF Shrink
<1>4. QED
  BY <1>1, <1>3 DEF Push

(* Mining may write the map while the new MUS is not yet blocked: the MUS  *)
(* stays unexplored, because a critical constraint lies in every MUS.      *)
LEMMA MineStep ==
    ASSUME MasterInv, Mine
    PROVE  MasterInv' /\ UNCHANGED muses
<1>1. PICK c \in MiningCandidates :
         IF Sat(Constraint \ {c})
            THEN BlockDown(Constraint \ {c})
            ELSE UNCHANGED <<mcses, critical, blocked_muses, mus_intersection,
                             solver, topSolver, botSolver>>
  BY DEF Mine
<1>2. IsMus(mus) /\ Unexplored(mus) /\ ~Sat(mus) /\ mus \in SUBSET Constraint
  BY DEF Mine, MasterInv, CallInv, IsMus
<1>3. testedForCriticality' \in SUBSET Constraint
  BY <1>2 DEF Mine, MiningCandidates, MasterInv, ExplorerTypeOK
<1>4. ExplorerTypeOK' /\ MapInv' /\ Unexplored(mus)' /\ UNCHANGED blocked_muses
  <2>1. CASE Sat(Constraint \ {c})
    <3>1. BlockDown(Constraint \ {c})
      BY <1>1, <2>1
    <3>2. QED
      BY <1>2, <1>3, <2>1, <3>1, BlockDownStep DEF MasterInv, Mine, BlockDown
  <2>2. CASE ~Sat(Constraint \ {c})
    <3>1. UNCHANGED <<mcses, critical, blocked_muses, mus_intersection,
                      solver, topSolver, botSolver>>
      BY <1>1, <2>2
    <3>2. ExplorerTypeOK'
      BY <1>3, <3>1 DEF MasterInv, ExplorerTypeOK
    <3>3. Unexplored(mus)'
      BY <1>2, <3>1 DEF Mine, Unexplored, SatisfiesAll, Satisfies, LitTrue
    <3>4. \A f : (Sat(f)' <=> Sat(f)) /\ (IsMus(f)' <=> IsMus(f))
      BY CnfUnchanged DEF Mine
    <3>5. DownSound' /\ UpSound'
      BY <3>1, <3>4 DEF MasterInv, MapInv, DownSound, UpSound
    <3>6. MapClauses'
      BY <3>1 DEF MasterInv, MapInv, MapClauses, Weakened
    <3>7. QED
      BY <3>1, <3>2, <3>3, <3>5, <3>6 DEF MapInv
  <2>3. QED
    BY <2>1, <2>2
<1>5. CnfTypeOK' /\ PlainInv' /\ MasterTypeOK'
  BY DEF Mine, MasterInv, CnfTypeOK, PlainInv, MasterTypeOK, cnfVars
<1>6. CallInv'
  <2>1. IsMus(mus)' /\ UNCHANGED <<mus, seed>>
    BY <1>2, CnfUnchanged DEF Mine
  <2>2. QED
    BY <1>4, <2>1 DEF CallInv, Mine, MasterInv
<1>7. ReportInv'
  BY <1>4 DEF MasterInv, ReportInv, Reported, Mine
<1>8. QED
  BY <1>4, <1>5, <1>6, <1>7 DEF MasterInv, Mine

LEMMA MineEndStep ==
    ASSUME MasterInv, MineEnd
    PROVE  MasterInv' /\ UNCHANGED muses
<1>1. (CnfTypeOK /\ ExplorerTypeOK /\ PlainInv /\ MapInv)'
  BY MapUnchanged DEF MasterInv, MineEnd
<1>2. IsMus(mus)' /\ Unexplored(mus)'
  BY CnfUnchanged, MapUnchanged DEF MineEnd, MasterInv, CallInv
<1>3. CallInv'
  BY <1>2 DEF CallInv, MineEnd, MasterInv
<1>4. MasterTypeOK' /\ ReportInv'
  BY DEF MasterInv, MineEnd, MasterTypeOK, ReportInv, Reported, explorerVars
<1>5. QED
  BY <1>1, <1>3, <1>4 DEF MasterInv, MineEnd

(* The whole of shrink_formula.                                            *)
LEMMA ShrinkFormulaStep ==
    ASSUME MasterInv, ShrinkFormula
    PROVE  /\ MasterInv'
           /\ \/ UNCHANGED muses
              \/ \E m \in AllMuses \ Reported : muses' = Append(muses, m)
BY CollectCritsStep, ShrinkStep, MineStep, MineEndStep DEF ShrinkFormula

LEMMA MarkMusStep ==
    ASSUME MasterInv, NEW next, next \notin {"collect", "shrink", "mine", "mark"},
           MarkMus(next)
    PROVE  MasterInv' /\ UNCHANGED muses
<1>1. IsMus(mus) /\ mus \in SUBSET Constraint
  BY DEF MarkMus, MasterInv, CallInv, IsMus
<1>2. ExplorerTypeOK' /\ MapInv'
  BY <1>1, BlockUpStep DEF MarkMus, MasterInv
<1>3. CnfTypeOK' /\ PlainInv' /\ MasterTypeOK'
  BY <1>1 DEF MarkMus, MasterInv, CnfTypeOK, PlainInv, MasterTypeOK, cnfVars
<1>4. CallInv'
  BY DEF MarkMus, CallInv
<1>5. ReportInv'
  BY DEF MarkMus, MasterInv, ReportInv, Reported, BlockUp
<1>6. QED
  BY <1>2, <1>3, <1>4, <1>5 DEF MasterInv, MarkMus

---------------------------------------------------------------------------
(* What the four algorithms do around the calls. *)

InCall == {"collect", "shrink", "mine", "mark"}
Over == {"done", "exit"}

LEMMA InitMasterInv ==
    ASSUME PlainInputs, Parse, ExplorerInit, MasterInit
    PROVE  MasterInv
<1>1. CnfTypeOK /\ PlainInv
  BY InputsAssumption DEF Parse, Input, CnfTypeOK, PlainInputs, PlainInv
<1>2. ExplorerTypeOK /\ MasterTypeOK
  BY DEF ExplorerInit, MasterInit, ExplorerTypeOK, MasterTypeOK
<1>3. MapInv
  BY DEF ExplorerInit, MapInv, DownSound, UpSound, MapClauses
<1>4. CallInv /\ ReportInv
  BY DEF ExplorerInit, MasterInit, CallInv, ReportInv, Reported
<1>5. QED
  BY <1>1, <1>2, <1>3, <1>4 DEF MasterInv

(* A step of the algorithm's own control.                                  *)
LEMMA ControlStep ==
    ASSUME MasterInv, UNCHANGED <<cnfVars, explorerVars>>,
           UNCHANGED <<seed, crits, mus, muses, uni, limit>>,
           pc \notin InCall, pc' \notin InCall
    PROVE  MasterInv'
<1>1. (CnfTypeOK /\ ExplorerTypeOK /\ PlainInv /\ MapInv)'
  BY MapUnchanged DEF MasterInv
<1>2. MasterTypeOK' /\ CallInv'
  BY DEF MasterInv, MasterTypeOK, CallInv, InCall
<1>3. ReportInv'
  BY DEF MasterInv, ReportInv, Reported, explorerVars, InCall
<1>4. QED
  BY <1>1, <1>2, <1>3 DEF MasterInv

LEMMA StutterStep ==
    ASSUME MasterInv, UNCHANGED <<cnfVars, explorerVars, masterVars>>
    PROVE  MasterInv'
<1>1. (CnfTypeOK /\ ExplorerTypeOK /\ PlainInv /\ MapInv)'
  BY MapUnchanged DEF MasterInv
<1>2. UNCHANGED <<pc, seed, crits, mus, muses, uni, limit, blocked_muses>>
  BY DEF masterVars, explorerVars
<1>3. MasterTypeOK' /\ ReportInv'
  BY <1>2 DEF MasterInv, MasterTypeOK, ReportInv, Reported
<1>4. CallInv'
  <2>1. \A cr, f : CritsSound(cr, f)' <=> CritsSound(cr, f)
    BY CnfUnchanged
  <2>2. \A f : Unexplored(f)' <=> Unexplored(f)
    BY MapUnchanged
  <2>3. \A f : (Sat(f)' <=> Sat(f)) /\ (IsMus(f)' <=> IsMus(f))
    BY CnfUnchanged
  <2>4. QED
    BY <1>2, <2>1, <2>2, <2>3 DEF MasterInv, CallInv
<1>5. QED
  BY <1>1, <1>3, <1>4 DEF MasterInv

(* shrink_formula is called with an unexplored unsatisfiable set, and      *)
(* constraints critical for it.                                            *)
LEMMA CallStep ==
    ASSUME MasterInv, pc \notin InCall, UNCHANGED <<cnfVars, explorerVars>>,
           NEW f \in SUBSET Constraint, ~Sat(f), Unexplored(f),
           NEW cr, CritsSound(cr, f), CallShrinkFormula(f, cr)
    PROVE  MasterInv'
<1>1. (CnfTypeOK /\ ExplorerTypeOK /\ PlainInv /\ MapInv)'
  BY MapUnchanged DEF MasterInv
<1>2. MasterTypeOK'
  BY DEF CallShrinkFormula, CritsSound, MasterInv, MasterTypeOK
<1>3. CallInv'
  <2>1. ~Sat(f)' /\ Unexplored(f)' /\ CritsSound(cr, f)'
    BY CnfUnchanged, MapUnchanged DEF CritsSound
  <2>2. seed' = f /\ crits' = cr /\ pc' = "collect"
    BY DEF CallShrinkFormula
  <2>3. ~Sat(seed)' /\ Unexplored(seed)' /\ CritsSound(crits, seed)'
    BY <2>1, <2>2, CnfUnchanged, MapUnchanged DEF CritsSound
  <2>4. QED
    BY <2>2, <2>3 DEF CallInv
<1>4. ReportInv'
  BY DEF MasterInv, ReportInv, Reported, CallShrinkFormula, explorerVars, InCall
<1>5. QED
  BY <1>1, <1>2, <1>3, <1>4 DEF MasterInv

(* A core of a seed is what shrink_formula may be called with.             *)
LEMMA CoreIsCallable ==
    ASSUME MasterInv, NEW S \in SUBSET Constraint, NEW top \in TopUnexplored(S),
           NEW core \in Cores(top)
    PROVE  /\ core \in SUBSET Constraint /\ core \subseteq top /\ top \subseteq S
           /\ ~Sat(core) /\ Unexplored(core)
<1>1. top \in SUBSET S /\ Unexplored(top)
  BY DEF TopUnexplored, Maximal
<1>2. core \subseteq top /\ ~Sat(core)
  BY DEF Cores
<1>3. QED
  BY <1>1, <1>2, UnsatPartUnexplored DEF MasterInv

(* A satisfiable set is blocked down outside a call.                       *)
LEMMA BlockDownOutside ==
    ASSUME MasterInv, NEW f \in SUBSET Constraint, Sat(f), BlockDown(f),
           UNCHANGED <<cnfVars, testedForCriticality>>,
           UNCHANGED <<seed, crits, mus, muses, uni, limit>>,
           pc \notin InCall, pc' \notin InCall
    PROVE  MasterInv'
<1>1. ExplorerTypeOK' /\ MapInv'
  BY BlockDownStep DEF MasterInv, ExplorerTypeOK
<1>2. CnfTypeOK' /\ PlainInv' /\ MasterTypeOK' /\ CallInv'
  BY DEF MasterInv, CnfTypeOK, PlainInv, MasterTypeOK, cnfVars, CallInv, InCall
<1>3. ReportInv'
  BY DEF MasterInv, ReportInv, Reported, BlockDown, InCall
<1>4. QED
  BY <1>1, <1>2, <1>3 DEF MasterInv

(* A satisfiable seed of the subset S that is a maximal unexplored one     *)
(* cannot be extended inside S.                                            *)
LEMMA TopCannotGrow ==
    ASSUME ExplorerTypeOK, MapInv, NEW S \in SUBSET Constraint,
           NEW top \in TopUnexplored(S), NEW g \in SUBSET S, top \subseteq g, Sat(g)
    PROVE  g = top
<1>1. top \in SUBSET S /\ Unexplored(top)
  BY DEF TopUnexplored, Maximal
<1> SUFFICES ASSUME g # top PROVE FALSE
  OBVIOUS
<1>2. PICK cl \in solver : ~Satisfies(g, cl)
  BY DEF TopUnexplored, Maximal, Unexplored, SatisfiesAll
<1>3. Satisfies(top, cl)
  BY <1>1 DEF Unexplored, SatisfiesAll
<1>4. CASE cl \in mcses
  <2>1. cl \in SUBSET Constraint
    BY <1>4 DEF ExplorerTypeOK
  <2>2. top \cap cl # {} /\ g \cap cl = {}
    BY <2>1, <1>1, <1>2, <1>3, MapClauseMeaning
  <2>3. QED
    BY <2>2
<1>5. ASSUME NEW m \in blocked_muses, NEW K \in SUBSET critical, cl = Weakened(m, K)
      PROVE  FALSE
  <2>1. m \in SUBSET Constraint /\ ~Sat(m)
    BY DEF MapInv, UpSound, IsMus
  <2>2. m \ K \subseteq g
    BY <2>1, <1>2, <1>5, MapClauseMeaning
  <2>3. critical \subseteq top
    BY <1>1, CriticalInUnexplored
  <2>4. m \subseteq g
    BY <2>2, <2>3
  <2>5. QED
    BY <2>1, <2>4, SatMonotone
<1>6. QED
  BY <1>4, <1>5 DEF MapInv, MapClauses

(* When the map is exhausted every MUS has been reported.                  *)
LEMMA ExhaustedIsComplete ==
    ASSUME MasterInv, UnexploredSets = {}, pc \notin InCall
    PROVE  AllMuses \subseteq Reported
<1>1. Reported = blocked_muses
  BY DEF MasterInv, ReportInv, InCall
<1>2. ASSUME NEW n \in AllMuses, n \notin blocked_muses PROVE FALSE
  BY <1>2, UnblockedIsUnexplored DEF MasterInv, AllMuses, UnexploredSets
<1>3. QED
  BY <1>1, <1>2

LEMMA NoTopIsExhausted ==
    ASSUME TopUnexplored(Constraint) = {}
    PROVE  UnexploredSets = {}
<1>1. UnexploredSets \in SUBSET SUBSET Constraint
  BY DEF UnexploredSets
<1>2. Maximal(UnexploredSets) = {}
  BY DEF TopUnexplored, UnexploredSets
<1>3. QED
  BY <1>1, <1>2, MaximalExists

LEMMA EnumerateStep ==
    ASSUME MasterInv, Enumerate
    PROVE  /\ MasterInv' /\ UNCHANGED muses /\ pc' \in {"loop", "exit"}
           /\ pc' = "loop" => ~Sat(Constraint)
           /\ pc' = "exit" => AllMuses \subseteq Reported
<1>1. pc' \in {"loop", "exit"} /\ (pc' = "loop" <=> ~Sat(Constraint))
  BY DEF Enumerate
<1>2. Sat(Constraint) => AllMuses = {}
  BY SatMonotone DEF AllMuses, IsMus
<1>3. MasterInv'
  BY <1>1, ControlStep DEF Enumerate, InCall
<1>4. QED
  BY <1>1, <1>2, <1>3 DEF Enumerate

(* The abstract specification is about the same MUSes. *)
LEMMA SameMuses ==
    Abstract!AllMuses = AllMuses /\ Abstract!ReportedMuses = Reported
BY DEF Abstract!AllMuses, AllMuses, Abstract!IsMus, IsMus, Abstract!Sat, Sat,
   Abstract!Models, Models, Abstract!Satisfies, Satisfies, Abstract!LitTrue, LitTrue,
   Abstract!Constraint, Constraint, Abstract!Var, Var, Abstract!ReportedMuses, Reported

(* What a step of an algorithm may look like from outside: nothing, a new  *)
(* MUS, or the end when all MUSes are known.                               *)
Visible ==
    /\ UNCHANGED cnfVars
    /\ \/ UNCHANGED muses /\ (pc' \in Over <=> pc \in Over)
       \/ /\ \E m \in AllMuses \ Reported : muses' = Append(muses, m)
          /\ pc \notin Over /\ pc' \notin Over
       \/ UNCHANGED muses /\ pc \notin Over /\ pc' \in Over /\ AllMuses \subseteq Reported

LEMMA VisibleImplements ==
    ASSUME Visible
    PROVE  [Abstract!EnumNext]_(Abstract!enumVars)
<1>1. UNCHANGED <<clauses, hard_clauses>>
  BY DEF Visible, cnfVars
<1>2. CASE UNCHANGED muses /\ (pc' \in Over <=> pc \in Over)
  BY <1>1, <1>2 DEF Abstract!enumVars, Over
<1>3. CASE /\ \E m \in AllMuses \ Reported : muses' = Append(muses, m)
           /\ pc \notin Over /\ pc' \notin Over
  <2>1. \E m \in Abstract!AllMuses \ Abstract!ReportedMuses : muses' = Append(muses, m)
    BY <1>3, SameMuses
  <2>2. Abstract!Report
    BY <1>1, <1>3, <2>1 DEF Abstract!Report, Over
  <2>3. QED
    BY <2>2 DEF Abstract!EnumNext
<1>4. CASE UNCHANGED muses /\ pc \notin Over /\ pc' \in Over /\ AllMuses \subseteq Reported
  <2>1. Abstract!Complete
    BY <1>1, <1>4, SameMuses DEF Abstract!Complete, Over
  <2>2. QED
    BY <2>1 DEF Abstract!EnumNext
<1>5. QED
  BY <1>2, <1>3, <1>4 DEF Visible

LEMMA InitImplements ==
    ASSUME Parse, MasterInit
    PROVE  Abstract!EnumInit
BY DEF MasterInit, Abstract!EnumInit, Parse, Abstract!Parse

(* A call of shrink_formula, and mark_MUS, seen from outside.              *)
LEMMA ShrinkFormulaVisible ==
    ASSUME MasterInv, ShrinkFormula
    PROVE  MasterInv' /\ Visible /\ pc \in InCall /\ pc' \in InCall /\ seed' = seed
<1>1. pc \in InCall /\ pc' \in InCall /\ UNCHANGED cnfVars /\ seed' = seed
  BY DEF ShrinkFormula, CollectCrits, Shrink, Mine, MineEnd, InCall
<1>2. QED
  BY <1>1, ShrinkFormulaStep DEF Visible, Over, InCall

---------------------------------------------------------------------------
(* Stacks, for the algorithms that call themselves. *)

LEMMA StackPop ==
    ASSUME NEW S, NEW s \in Seq(S), s # <<>>,
           NEW r, r = SubSeq(s, 1, Len(s) - 1)
    PROVE  /\ Len(s) \in Nat /\ Len(s) >= 1
           /\ r \in Seq(S) /\ Len(r) = Len(s) - 1
           /\ \A i \in 1..Len(s) - 1 : r[i] = s[i]
<1>1. Len(s) \in Nat /\ Len(s) >= 1
  BY EmptySeq
<1>2. \A i \in 1..Len(s) - 1 : s[i] \in S
  BY <1>1, ElementOfSeq
<1>3. Len(s) - 1 \in Int
  BY <1>1
<1> DEFINE n == Len(s) - 1
<1>4. /\ r \in Seq(S) /\ Len(r) = IF 1 <= n THEN n - 1 + 1 ELSE 0
      /\ \A i \in 1..n - 1 + 1 : r[i] = s[1 + i - 1]
  <2> HIDE DEF n
  <2>1. n \in Int /\ (\A i \in 1..n : s[i] \in S) /\ r = SubSeq(s, 1, n)
    BY <1>2, <1>3 DEF n
  <2>2. QED
    BY <2>1, SubSeqProperties
<1>5. ASSUME NEW i \in 1..n PROVE r[i] = s[i]
  <2>1. i \in 1..n - 1 + 1 /\ 1 + i - 1 = i
    BY <1>3
  <2>2. r[i] = s[1 + i - 1]
    BY <1>4, <2>1
  <2>3. QED
    BY <2>1, <2>2
<1>6. Len(r) = n
  <2>1. n \in Nat /\ Len(r) = IF 1 <= n THEN n - 1 + 1 ELSE 0
    BY <1>1, <1>4
  <2> HIDE DEF n
  <2>2. QED
    BY ONLY <2>1
<1>7. QED
  BY <1>1, <1>4, <1>5, <1>6

LEMMA StackPush ==
    ASSUME NEW S, NEW s \in Seq(S), NEW x \in S
    PROVE  /\ Len(s) \in Nat
           /\ Append(s, x) \in Seq(S) /\ Len(Append(s, x)) = Len(s) + 1
           /\ Append(s, x) # <<>>
           /\ \A i \in 1..Len(s) : Append(s, x)[i] = s[i]
           /\ Append(s, x)[Len(s) + 1] = x
<1>1. /\ Len(s) \in Nat
      /\ Append(s, x) \in Seq(S) /\ Len(Append(s, x)) = Len(s) + 1
      /\ \A i \in 1..Len(s) : Append(s, x)[i] = s[i]
      /\ Append(s, x)[Len(s) + 1] = x
  OBVIOUS
<1>2. Append(s, x) # <<>>
  <2>1. Len(Append(s, x)) # 0
    BY ONLY <1>1
  <2>2. QED
    BY ONLY <2>1, EmptySeq
<1>3. QED
  BY ONLY <1>1, <1>2
===========================================================================
