------------------------ MODULE GlucoseHandleProofs ------------------------
(***************************************************************************)
(* The handle of glucose is proved to answer like SatOracle: parsing keeps *)
(* the MUSes of the file, and simplification can always be reversed.       *)
(***************************************************************************)
EXTENDS GlucoseHandle, FiniteSetTheorems, SequenceTheorems,
        WellFoundedInduction, TLAPS

SolverLit == S!Var \cup {-v : v \in S!Var}
Controls == {Control(c) : c \in Constraint}
Long(c) == \E k, l \in c : k # l

---------------------------------------------------------------------------
(* What has been read so far: n lines. *)
ReadUpTo(n) ==
    /\ lines = SubSeq(file, n + 1, Len(file))
    /\ clauses_unique_map = {file[i].text : i \in 1..n}
    /\ ToSet(hard_clauses_str) = {file[i].text : i \in {k \in 1..n : file[k].group = 0}}
    /\ ToSet(clauses_str) = {file[i].text : i \in NewSoft(file) \cap 1..n}
    /\ Len(clauses_str) = Cardinality(NewSoft(file) \cap 1..n)

ReadInv ==
    /\ file \in Files
    /\ clauses_str \in Seq(Seq(Lit)) /\ hard_clauses_str \in Seq(Seq(Lit))
    /\ \E n \in 0..Len(file) : ReadUpTo(n)
    /\ Reading => encoded = 0 /\ clauses = <<>> /\ hard_clauses = {}

(* What the constructor has to go by. *)
ParsedInv ==
    ~Reading =>
        /\ lines = <<>>
        /\ clauses = [c \in Constraint |-> ToSet(clauses_str[c])]
        /\ hard_clauses = {ToSet(hard_clauses_str[h]) : h \in DOMAIN hard_clauses_str}
        /\ encoded \in 0..Len(Encoding)

(* The state of a call.  All control variables are frozen in every call,   *)
(* so that none is ever eliminated.                                        *)
Switches(f) == {-Control(c) : c \in f} \cup {Control(c) : c \in Constraint \ f}

CallInv ==
    /\ step \in {"idle", "gather", "subsume", "eliminate", "resolve", "search", "extend", "sat",
                 "unsat"}
    /\ checks \in Nat
    /\ \/ query \in {[kind |-> "parse"], O!NoQuery} /\ step = "idle" /\ assumptions = {}
       \/ /\ \E check \in Checks : /\ query = O!Check(check.f, check.core, check.grow)
                                   /\ assumptions = Switches(check.f)
          /\ step # "idle" /\ frozen = Controls
    /\ step # "idle" => Constructed /\ checks > 0
    /\ checks = 0 \/ Constructed
    /\ checks = 0 => elimclauses = <<>>
    /\ step \notin {"idle", "unsat"} => ok

SolverTypes ==
    /\ ok \in BOOLEAN
    /\ db \in SUBSET SUBSET SolverLit /\ \A c \in db : Long(c) /\ ~S!Tautology(c)
    /\ learnts \in SUBSET SUBSET SolverLit
    /\ trail \in SUBSET SolverLit
    /\ queue \subseteq db
    /\ heap \in SUBSET S!Var
    /\ elimclauses \in Seq([var : S!Var, default : Int, clauses : SUBSET SUBSET SolverLit])
    /\ elim \in [var : Nat, old : SUBSET SUBSET SolverLit, resolvents : SUBSET SUBSET SolverLit]
    /\ S!eliminated \cap Controls = {}
    /\ model \in SUBSET S!Var

(* No clause speaks of a constraint that is switched on. *)
OnlyPositiveControls == \A c \in Constraint : -Control(c) \notin UNION S!Facts

(* Everything is implied by the clauses given. *)
Implied(c) == \A a \in S!ModelsOf(Given) : S!Satisfies(a, c)
Sound ==
    \A a \in S!ModelsOf(Given) :
        /\ ok
        /\ \A c \in db \cup learnts : S!Satisfies(a, c)
        /\ \A l \in trail : S!LitTrue(a, l)

(* What determines the variables that are left. *)
Units == {{l} : l \in {k \in trail : S!VarOf(k) \notin S!eliminated}}
Core == db \cup Units

Old == IF step = "resolve" THEN elim.old ELSE {}

Reversible ==
    ok => /\ \A a \in S!ModelsOf(Core) : S!Extended(a) \in S!ModelsOf(Given)
          /\ \A c \in db \ Old : S!VarsOf(c) \cap S!eliminated = {}

(* The elimination under way.  Its resolvents, those that are still to be  *)
(* added and those that have been, make up for the old clauses.            *)
LastStored == elimclauses[Len(elimclauses)]

MergedAt(l, c, d) == (c \ {-l}) \cup (d \ {l})

Resolving ==
    step = "resolve" =>
        LET e == LastStored IN
        /\ elimclauses # <<>>
        /\ elim.var = e.var /\ e.default \in {e.var, -e.var}
        /\ elim.old \subseteq db /\ \A c \in elim.old : e.var \in c \/ -e.var \in c
        /\ e.clauses = {c \in elim.old : -e.default \in c}
        /\ \A r \in elim.resolvents :
              /\ r \in SUBSET SolverLit /\ ~S!Tautology(r) /\ Implied(r)
              /\ S!VarsOf(r) \cap S!eliminated = {}
              /\ \A c \in Constraint : -Control(c) \notin r
        /\ \A c, d \in elim.old :
              LET m == MergedAt(e.default, c, d) IN
              -e.default \in c /\ e.default \in d =>
                  \/ S!Tautology(m) \/ m \in elim.resolvents
                  \/ \A a \in S!ModelsOf(Core \ elim.old) : S!Satisfies(a, m)

AnswerKnown ==
    /\ step = "extend" => S!Extended(model) \in S!ModelsOf(Given)
    /\ step = "sat" => model \in S!ModelsOf(Given)
    /\ step \in {"extend", "sat"} => \A l \in assumptions : S!LitTrue(model, l)
    /\ step = "unsat" => \/ ~ok
                         \/ conflict \subseteq {Control(c) : c \in query.f} /\ Implied(conflict)

(* Contradictory units are noticed by the constructor. *)
OppositeUnits(text) ==
    \E h, k \in DOMAIN text : \E l \in Lit :
        /\ text[h].group = 0 /\ text[k].group = 0
        /\ ToSet(text[h].text) = {l} /\ ToSet(text[k].text) = {-l}

ContradictionSeen ==
    /\ checks = 0 /\ ok => /\ \A l \in SolverLit : {l} \in Given => l \in trail
                           /\ \A l \in trail : -l \notin trail
    /\ OppositeUnits(file) => /\ Constructed => ~ok
                              /\ conflict = {}

SolverInv ==
    /\ SolverTypes /\ OnlyPositiveControls /\ Sound /\ Reversible /\ Resolving
    /\ AnswerKnown /\ ContradictionSeen

HandleInv == ReadInv /\ ParsedInv /\ CallInv /\ SolverInv

---------------------------------------------------------------------------
(* A set of numbers that is not empty has a least one.                     *)
LEMMA FirstIndex ==
    ASSUME NEW T \in SUBSET Nat, T # {}
    PROVE  \E x \in T : \A y \in T : x <= y
<1>1. PICK x \in T : \A y \in T : ~(<<y, x>> \in OpToRel(<, Nat))
  BY NatLessThanWellFounded, WFMin
<1>2. ASSUME NEW y \in T PROVE x <= y
  <2>1. ~(y < x)
    BY <1>1 DEF OpToRel
  <2>2. QED
    BY <2>1
<1>3. QED
  BY <1>2

(* Lines are read one by one.                                              *)
LEMMA FileType ==
    ASSUME NEW text \in Files
    PROVE  /\ text \in Seq([group : Int, text : Seq(Lit)])
           /\ Len(text) \in Nat /\ DOMAIN text = 1..Len(text)
           /\ \A i \in 1..Len(text) : text[i] \in [group : Int, text : Seq(Lit)]
           /\ NewSoft(text) \subseteq 1..Len(text)
           /\ Cardinality(NewSoft(text)) = dimension
<1>1. text \in Seq([group : Int, text : Seq(Lit)]) /\ Cardinality(NewSoft(text)) = dimension
  BY FilesAssumption
<1>2. /\ Len(text) \in Nat /\ DOMAIN text = 1..Len(text)
      /\ \A i \in 1..Len(text) : text[i] \in [group : Int, text : Seq(Lit)]
  <2> DEFINE X == [group : Int, text : Seq(Lit)]
  <2> HIDE DEF X
  <2>1. text \in Seq(X)
    BY <1>1 DEF X
  <2>2. Len(text) \in Nat /\ DOMAIN text = 1..Len(text) /\ \A i \in 1..Len(text) : text[i] \in X
    BY <2>1
  <2>3. QED
    BY <2>2 DEF X
<1>3. NewSoft(text) \subseteq DOMAIN text
  BY DEF NewSoft
<1>4. QED
  BY ONLY <1>1, <1>2, <1>3

LEMMA AppendSet ==
    ASSUME NEW X, NEW s \in Seq(X), NEW x \in X
    PROVE  ToSet(Append(s, x)) = ToSet(s) \cup {x}
<1>1. /\ DOMAIN Append(s, x) = 1..Len(s) + 1 /\ DOMAIN s = 1..Len(s) /\ Len(s) \in Nat
      /\ \A i \in 1..Len(s) : Append(s, x)[i] = s[i]
      /\ Append(s, x)[Len(s) + 1] = x
  OBVIOUS
<1>2. QED
  BY <1>1 DEF ToSet

LEMMA Suffix ==
    ASSUME NEW X, NEW s \in Seq(X), NEW n \in 0..Len(s)
    PROVE  LET t == SubSeq(s, n + 1, Len(s)) IN
           /\ t \in Seq(X) /\ Len(t) = Len(s) - n
           /\ \A i \in 1..Len(s) - n : t[i] = s[n + i]
           /\ t # <<>> => Tail(t) = SubSeq(s, (n + 1) + 1, Len(s)) /\ n # Len(s)
<1> DEFINE t == SubSeq(s, n + 1, Len(s))
           m == Len(s)
<1>1. m \in Nat /\ n \in Nat /\ n <= m
  OBVIOUS
<1>2. t \in Seq(X) /\ Len(t) = m - n
  BY <1>1, SubSeqProperties
<1>3. \A i \in 1..m - n : t[i] = s[n + i]
  BY <1>1, SubSeqProperties
<1>4. ASSUME t # <<>> PROVE Tail(t) = SubSeq(s, (n + 1) + 1, Len(s)) /\ n # m
  <2>1. n # m
    BY <1>2, <1>4, EmptySeq
  <2>2. n + 1 \in 1..m
    BY <2>1, <1>1
  <2>3. QED
    BY <2>1, <2>2, <1>1, HeadTailOfSubSeq
<1>5. QED
  BY <1>2, <1>3, <1>4

LEMMA NextLine ==
    ASSUME ReadInv, lines # <<>>, NEW n \in 0..Len(file), ReadUpTo(n)
    PROVE  /\ n + 1 \in 1..Len(file)
           /\ Line = file[n + 1]
           /\ Tail(lines) = SubSeq(file, (n + 1) + 1, Len(file))
           /\ {file[i].text : i \in 1..n + 1} = clauses_unique_map \cup {Line.text}
           /\ Line.text \in Seq(Lit)
<1>1. /\ file \in Seq([group : Int, text : Seq(Lit)]) /\ Len(file) \in Nat
      /\ lines = SubSeq(file, n + 1, Len(file))
  BY FileType DEF ReadInv, ReadUpTo
<1>2. /\ Len(lines) = Len(file) - n /\ lines \in Seq([group : Int, text : Seq(Lit)])
      /\ \A i \in 1..Len(file) - n : lines[i] = file[n + i]
      /\ Tail(lines) = SubSeq(file, (n + 1) + 1, Len(file)) /\ n # Len(file)
  BY <1>1, Suffix
<1>3. n + 1 \in 1..Len(file)
  BY <1>1, <1>2
<1>4. Line = file[n + 1]
  BY <1>2, <1>3 DEF Line
<1>5. Tail(lines) = SubSeq(file, (n + 1) + 1, Len(file))
  BY <1>2
<1>6. {file[i].text : i \in 1..n + 1} = clauses_unique_map \cup {Line.text}
  BY <1>4 DEF ReadUpTo
<1>7. QED
  BY <1>3, <1>4, <1>5, <1>6, FileType DEF ReadInv

LEMMA ReadHardStep ==
    ASSUME ReadInv, ReadHard
    PROVE  ReadInv'
<1>1. PICK n \in 0..Len(file) : ReadUpTo(n)
  BY DEF ReadInv
<1>2. /\ lines # <<>> /\ Line.group = 0 /\ Reading
      /\ hard_clauses_str' = Append(hard_clauses_str, Line.text)
      /\ clauses_unique_map' = clauses_unique_map \cup {Line.text}
      /\ lines' = Tail(lines)
      /\ file' = file /\ clauses_str' = clauses_str /\ cnfVars' = cnfVars
      /\ encoded' = encoded /\ query' = query
  BY DEF ReadHard, KeptHard
<1>3. /\ n + 1 \in 1..Len(file) /\ Line = file[n + 1] /\ Line.text \in Seq(Lit)
      /\ lines' = SubSeq(file, (n + 1) + 1, Len(file))
      /\ {file[i].text : i \in 1..n + 1} = clauses_unique_map'
  BY <1>1, <1>2, NextLine
<1>4. hard_clauses_str' \in Seq(Seq(Lit)) /\ clauses_str' \in Seq(Seq(Lit))
  BY <1>2, <1>3 DEF ReadInv
<1>5. ToSet(hard_clauses_str') = {file[i].text : i \in {k \in 1..n + 1 : file[k].group = 0}}
  <2>1. ToSet(hard_clauses_str') = ToSet(hard_clauses_str) \cup {Line.text}
    BY <1>2, <1>3, AppendSet DEF ReadInv
  <2>2. {k \in 1..n + 1 : file[k].group = 0} = {k \in 1..n : file[k].group = 0} \cup {n + 1}
    BY <1>2, <1>3
  <2>3. QED
    BY <2>1, <2>2, <1>3, <1>1 DEF ReadUpTo
<1>6. NewSoft(file) \cap 1..n + 1 = NewSoft(file) \cap 1..n
  BY <1>2, <1>3 DEF NewSoft
<1>7. ReadUpTo(n + 1)'
  BY <1>1, <1>2, <1>3, <1>5, <1>6 DEF ReadUpTo
<1>8. n + 1 \in 0..Len(file)
  BY <1>3
<1>9. encoded = 0 /\ clauses = <<>> /\ hard_clauses = {} /\ file \in Files
  BY <1>2 DEF ReadInv
<1>10. QED
  BY <1>2, <1>4, <1>7, <1>8, <1>9 DEF ReadInv, cnfVars

LEMMA ReadSoftStep ==
    ASSUME ReadInv, ReadSoft
    PROVE  ReadInv'
<1>1. PICK n \in 0..Len(file) : ReadUpTo(n)
  BY DEF ReadInv
<1>2. /\ lines # <<>> /\ Line.group # 0 /\ Reading
      /\ clauses_str' = IF Seen THEN clauses_str ELSE Append(clauses_str, Line.text)
      /\ clauses_unique_map' = clauses_unique_map \cup {Line.text}
      /\ lines' = Tail(lines)
      /\ file' = file /\ hard_clauses_str' = hard_clauses_str /\ cnfVars' = cnfVars
      /\ encoded' = encoded /\ query' = query
  BY DEF ReadSoft
<1>3. /\ n + 1 \in 1..Len(file) /\ Line = file[n + 1] /\ Line.text \in Seq(Lit)
      /\ lines' = SubSeq(file, (n + 1) + 1, Len(file))
      /\ {file[i].text : i \in 1..n + 1} = clauses_unique_map'
  BY <1>1, <1>2, NextLine
<1>4. hard_clauses_str' \in Seq(Seq(Lit)) /\ clauses_str' \in Seq(Seq(Lit))
  BY <1>2, <1>3 DEF ReadInv
<1>5. {k \in 1..n + 1 : file[k].group = 0} = {k \in 1..n : file[k].group = 0}
  BY <1>2, <1>3
<1>6. DOMAIN file = 1..Len(file) /\ Len(file) \in Nat
  BY FileType DEF ReadInv
<1>7. Seen <=> n + 1 \notin NewSoft(file)
  <2>1. Seen <=> \E k \in 1..n : file[k].text = file[n + 1].text
    BY <1>1, <1>3 DEF Seen, ReadUpTo
  <2>2. n + 1 \in DOMAIN file /\ (n + 1) - 1 = n
    BY <1>3, <1>6
  <2>3. QED
    BY <2>1, <2>2, <1>2, <1>3 DEF NewSoft
<1>8. /\ ToSet(clauses_str') = {file[i].text : i \in NewSoft(file) \cap 1..n + 1}
      /\ Len(clauses_str') = Cardinality(NewSoft(file) \cap 1..n + 1)
  <2>1. CASE Seen
    <3>1. NewSoft(file) \cap 1..n + 1 = NewSoft(file) \cap 1..n
      BY <1>7, <2>1, <1>3
    <3>2. QED
      BY <3>1, <2>1, <1>1, <1>2 DEF ReadUpTo
  <2>2. CASE ~Seen
    <3>1. NewSoft(file) \cap 1..n + 1 = (NewSoft(file) \cap 1..n) \cup {n + 1}
      BY <1>7, <2>2, <1>3
    <3>2. IsFiniteSet(NewSoft(file) \cap 1..n) /\ n + 1 \notin NewSoft(file) \cap 1..n
      <4>1. IsFiniteSet(1..n)
        BY FS_Interval
      <4>2. QED
        BY <4>1, FS_Subset
    <3>3. Cardinality(NewSoft(file) \cap 1..n + 1) = Cardinality(NewSoft(file) \cap 1..n) + 1
      BY <3>1, <3>2, FS_AddElement
    <3>4. ToSet(clauses_str') = ToSet(clauses_str) \cup {Line.text}
      BY <2>2, <1>2, <1>3, AppendSet DEF ReadInv
    <3>5. Len(clauses_str') = Len(clauses_str) + 1
      BY <2>2, <1>2, <1>3 DEF ReadInv
    <3>6. QED
      BY <3>1, <3>3, <3>4, <3>5, <1>1, <1>3 DEF ReadUpTo
  <2>3. QED
    BY <2>1, <2>2
<1>9. ReadUpTo(n + 1)'
  BY <1>1, <1>2, <1>3, <1>5, <1>8 DEF ReadUpTo
<1>10. n + 1 \in 0..Len(file)
  BY <1>3
<1>11. encoded = 0 /\ clauses = <<>> /\ hard_clauses = {} /\ file \in Files
  BY <1>2 DEF ReadInv
<1>12. QED
  BY <1>2, <1>4, <1>9, <1>10, <1>11 DEF ReadInv, cnfVars

(* At the end all lines have been read.                                    *)
LEMMA AllRead ==
    ASSUME ReadInv, lines = <<>>
    PROVE  /\ DOMAIN file = 1..Len(file) /\ Len(file) \in Nat
           /\ ToSet(hard_clauses_str) = {file[i].text : i \in HardLines}
           /\ ToSet(clauses_str) = {file[i].text : i \in NewSoft(file)}
           /\ Len(clauses_str) = dimension /\ DOMAIN clauses_str = Constraint
<1>1. PICK n \in 0..Len(file) : ReadUpTo(n)
  BY DEF ReadInv
<1>2. /\ file \in Seq([group : Int, text : Seq(Lit)]) /\ Len(file) \in Nat
      /\ DOMAIN file = 1..Len(file) /\ NewSoft(file) \subseteq 1..Len(file)
      /\ Cardinality(NewSoft(file)) = dimension
  BY FileType DEF ReadInv
<1>3. n = Len(file)
  <2>1. Len(SubSeq(file, n + 1, Len(file))) = Len(file) - n
    BY <1>2, Suffix
  <2>2. SubSeq(file, n + 1, Len(file)) = <<>>
    BY <1>1 DEF ReadUpTo
  <2>3. Len(file) - n = 0
    BY <2>1, <2>2
  <2>4. QED
    BY <2>3, <1>2
<1>4. {k \in 1..n : file[k].group = 0} = HardLines
  BY <1>2, <1>3 DEF HardLines, SoftLines
<1>5. NewSoft(file) \cap 1..n = NewSoft(file)
  BY <1>2, <1>3
<1>6. ToSet(hard_clauses_str) = {file[i].text : i \in HardLines}
  BY <1>1, <1>4 DEF ReadUpTo
<1>7. ToSet(clauses_str) = {file[i].text : i \in NewSoft(file)} /\ Len(clauses_str) = dimension
  BY <1>1, <1>2, <1>5 DEF ReadUpTo
<1>8. DOMAIN clauses_str = Constraint
  BY <1>7 DEF ReadInv, Constraint
<1>9. QED
  BY <1>2, <1>6, <1>7, <1>8

(* What the constructor adds. *)
EncodingOf(cs, hs) ==
    [c \in DOMAIN cs |-> cs[c] \cup {Control(c)}] \o [h \in DOMAIN hs |-> ToSet(hs[h])]

LEMMA EncodingFacts ==
    ASSUME NEW cs \in [Constraint -> SUBSET Lit], NEW hs \in Seq(Seq(Lit))
    PROVE  /\ EncodingOf(cs, hs) \in Seq(SUBSET SolverLit)
           /\ Len(EncodingOf(cs, hs)) \in Nat
           /\ ToSet(EncodingOf(cs, hs)) = {cs[c] \cup {Control(c)} : c \in Constraint}
                                            \cup {ToSet(hs[h]) : h \in DOMAIN hs}
<1> DEFINE soft == [c \in DOMAIN cs |-> cs[c] \cup {Control(c)}]
           hard == [h \in DOMAIN hs |-> ToSet(hs[h])]
<1>1. Lit \subseteq SolverLit /\ \A c \in Constraint : Control(c) \in SolverLit
  BY SizesAssumption DEF Lit, Var, SolverLit, S!Var, Control, Constraint
<1>2. soft = [c \in 1..dimension |-> cs[c] \cup {Control(c)}]
  BY DEF Constraint
<1>3. soft \in Seq(SUBSET SolverLit) /\ Len(soft) = dimension /\ DOMAIN soft = Constraint
  <2>1. \A c \in 1..dimension : cs[c] \cup {Control(c)} \in SUBSET SolverLit
    BY <1>1 DEF Constraint
  <2>2. QED
    BY <1>2, <2>1, SizesAssumption DEF Constraint
<1>4. hard \in Seq(SUBSET SolverLit) /\ Len(hard) = Len(hs) /\ DOMAIN hard = DOMAIN hs
  <2>1. \A h \in 1..Len(hs) : ToSet(hs[h]) \in SUBSET SolverLit
    BY <1>1 DEF ToSet
  <2>2. hard = [h \in 1..Len(hs) |-> ToSet(hs[h])] /\ Len(hs) \in Nat
    OBVIOUS
  <2>3. QED
    BY <2>1, <2>2
<1> HIDE DEF soft, hard
<1>5. soft \o hard \in Seq(SUBSET SolverLit) /\ Len(soft \o hard) \in Nat
  BY <1>3, <1>4
<1>6. ToSet(soft \o hard) = ToSet(soft) \cup ToSet(hard)
  <2>1. /\ Len(soft \o hard) = Len(soft) + Len(hard)
        /\ DOMAIN (soft \o hard) = 1..Len(soft) + Len(hard)
        /\ DOMAIN soft = 1..Len(soft) /\ DOMAIN hard = 1..Len(hard)
        /\ Len(soft) \in Nat /\ Len(hard) \in Nat
    BY <1>3, <1>4
  <2>2. \A i \in 1..Len(soft) : (soft \o hard)[i] = soft[i]
    BY <1>3, <1>4
  <2>3. \A i \in 1..Len(hard) : (soft \o hard)[Len(soft) + i] = hard[i]
    BY <1>3, <1>4
  <2>4. \A i \in 1..Len(soft) + Len(hard) : i \in 1..Len(soft)
            \/ \E k \in 1..Len(hard) : i = Len(soft) + k
    <3>1. \A i \in 1..Len(soft) + Len(hard) : i \notin 1..Len(soft)
              => i - Len(soft) \in 1..Len(hard) /\ i = Len(soft) + (i - Len(soft))
      BY ONLY <2>1
    <3>2. QED
      BY ONLY <3>1
  <2>5. \A k \in 1..Len(hard) : Len(soft) + k \in 1..Len(soft) + Len(hard)
    BY ONLY <2>1
  <2>6. \A k \in 1..Len(soft) : k \in 1..Len(soft) + Len(hard)
    BY ONLY <2>1
  <2>7. ASSUME NEW x PROVE x \in ToSet(soft \o hard) <=> x \in ToSet(soft) \/ x \in ToSet(hard)
    <3>1. x \in ToSet(soft \o hard) => x \in ToSet(soft) \/ x \in ToSet(hard)
      BY ONLY <2>1, <2>2, <2>3, <2>4 DEF ToSet
    <3>2. x \in ToSet(soft) => x \in ToSet(soft \o hard)
      BY ONLY <2>1, <2>2, <2>6 DEF ToSet
    <3>3. x \in ToSet(hard) => x \in ToSet(soft \o hard)
      BY ONLY <2>1, <2>3, <2>5 DEF ToSet
    <3>4. QED
      BY <3>1, <3>2, <3>3
  <2>8. QED
    BY <2>7
<1>7. ToSet(soft) = {cs[c] \cup {Control(c)} : c \in Constraint}
  <2>1. \A c \in Constraint : soft[c] = cs[c] \cup {Control(c)}
    BY DEF soft
  <2>2. QED
    BY <2>1, <1>3 DEF ToSet
<1>8. ToSet(hard) = {ToSet(hs[h]) : h \in DOMAIN hs}
  <2>1. \A h \in DOMAIN hs : hard[h] = ToSet(hs[h])
    BY DEF hard
  <2>2. ASSUME NEW x PROVE x \in ToSet(hard) <=> \E h \in DOMAIN hs : x = ToSet(hs[h])
    BY <2>1, <1>4 DEF ToSet
  <2>3. QED
    BY <2>2
<1>9. EncodingOf(cs, hs) = soft \o hard
  BY DEF EncodingOf, soft, hard
<1>10. QED
  BY <1>5, <1>6, <1>7, <1>8, <1>9

LEMMA ParseEndsStep ==
    ASSUME ReadInv, ParseEnds
    PROVE  ReadInv' /\ ParsedInv'
<1>1. /\ Reading /\ lines = <<>> /\ lines' = lines /\ file' = file
      /\ clauses_str' = clauses_str /\ hard_clauses_str' = hard_clauses_str
      /\ clauses_unique_map' = clauses_unique_map /\ encoded' = encoded
      /\ clauses' = [c \in 1..Len(clauses_str) |-> ToSet(clauses_str[c])]
      /\ hard_clauses' = {ToSet(hard_clauses_str[h]) : h \in DOMAIN hard_clauses_str}
      /\ query' = [kind |-> "none"]
  BY DEF ParseEnds, fileVars, O!NoQuery
<1>2. ~Reading'
  BY <1>1 DEF Reading
<1>3. ReadInv'
  <2>1. PICK n \in 0..Len(file) : ReadUpTo(n)
    BY DEF ReadInv
  <2>2. ReadUpTo(n)'
    BY <2>1, <1>1 DEF ReadUpTo
  <2>3. QED
    BY <2>2, <1>1, <1>2 DEF ReadInv
<1>4. clauses' = [c \in Constraint |-> ToSet(clauses_str[c])]
  BY <1>1, AllRead DEF Constraint
<1>5. encoded' \in 0..Len(Encoding)'
  <2>1. encoded' = 0
    BY <1>1 DEF ReadInv
  <2>2. clauses' \in [Constraint -> SUBSET Lit]
    <3>1. \A c \in Constraint : clauses_str[c] \in Seq(Lit)
      BY <1>1, AllRead DEF ReadInv
    <3>2. \A c \in Constraint : ToSet(clauses_str[c]) \in SUBSET Lit
      BY <3>1 DEF ToSet
    <3>3. QED
      BY <3>2, <1>4
  <2>3. Encoding' = EncodingOf(clauses', hard_clauses_str')
    BY DEF Encoding, EncodingOf
  <2>4. Len(Encoding') \in Nat
    BY <2>2, <2>3, <1>1, EncodingFacts DEF ReadInv
  <2>5. QED
    BY <2>1, <2>4
<1>6. QED
  BY <1>1, <1>3, <1>4, <1>5 DEF ParsedInv

---------------------------------------------------------------------------
(* Minimal unsatisfiable sets of clauses out of U, beside H.               *)
Unsatisfiable(cls) == \A a \in SUBSET Var : \E c \in cls : ~Satisfies(a, c)

MinimalSets(U, H) ==
    {D \in SUBSET U : /\ Unsatisfiable(D \cup H)
                      /\ \A d \in D : ~Unsatisfiable((D \ {d}) \cup H)}

Labels(f, g) == {f[n] : n \in g}

MinimalIndices(f, I, H) ==
    {g \in SUBSET I : /\ Unsatisfiable(Labels(f, g) \cup H)
                      /\ \A n \in g : ~Unsatisfiable(Labels(f, g \ {n}) \cup H)}

LEMMA MoreIsUnsat ==
    ASSUME NEW C, NEW D, C \subseteq D, Unsatisfiable(C)
    PROVE  Unsatisfiable(D)
BY DEF Unsatisfiable

(* Numbered clauses have the same minimal sets, even if some come twice.   *)
LEMMA LabelledMuses ==
    ASSUME NEW f, NEW I, NEW H
    PROVE  {Labels(f, g) : g \in MinimalIndices(f, I, H)} = MinimalSets(Labels(f, I), H)
<1>1. ASSUME NEW g \in MinimalIndices(f, I, H)
      PROVE  Labels(f, g) \in MinimalSets(Labels(f, I), H)
  <2>1. /\ g \subseteq I /\ Unsatisfiable(Labels(f, g) \cup H)
        /\ \A n \in g : ~Unsatisfiable(Labels(f, g \ {n}) \cup H)
    BY DEF MinimalIndices
  <2>2. ASSUME NEW d \in Labels(f, g) PROVE ~Unsatisfiable((Labels(f, g) \ {d}) \cup H)
    <3>1. PICK n \in g : d = f[n]
      BY DEF Labels
    <3>2. (Labels(f, g) \ {d}) \cup H \subseteq Labels(f, g \ {n}) \cup H
      BY <3>1 DEF Labels
    <3>3. ~Unsatisfiable(Labels(f, g \ {n}) \cup H)
      BY <2>1
    <3>4. QED
      BY ONLY <3>2, <3>3, MoreIsUnsat
  <2>3. Labels(f, g) \subseteq Labels(f, I)
    BY <2>1 DEF Labels
  <2>4. QED
    BY <2>1, <2>2, <2>3 DEF MinimalSets
<1>2. ASSUME NEW D \in MinimalSets(Labels(f, I), H)
      PROVE  \E g \in MinimalIndices(f, I, H) : D = Labels(f, g)
  <2> DEFINE rep(d) == CHOOSE n \in I : f[n] = d
             g == {rep(d) : d \in D}
  <2>1. /\ D \subseteq Labels(f, I) /\ Unsatisfiable(D \cup H)
        /\ \A d \in D : ~Unsatisfiable((D \ {d}) \cup H)
    BY DEF MinimalSets
  <2>2. \A d \in D : rep(d) \in I /\ f[rep(d)] = d
    BY <2>1 DEF Labels
  <2> HIDE DEF rep
  <2>3. Labels(f, g) = D /\ g \subseteq I
    BY <2>2 DEF Labels
  <2>4. ASSUME NEW n \in g PROVE ~Unsatisfiable(Labels(f, g \ {n}) \cup H)
    <3>1. PICK d \in D : n = rep(d)
      OBVIOUS
    <3>2. Labels(f, g \ {n}) \cup H \subseteq (D \ {d}) \cup H
      BY <3>1, <2>2 DEF Labels
    <3>3. QED
      BY <3>2, <2>1, MoreIsUnsat
  <2>5. g \in MinimalIndices(f, I, H)
    BY <2>1, <2>3, <2>4 DEF MinimalIndices
  <2>6. QED
    BY <2>3, <2>5
<1>3. QED
  BY <1>1, <1>2

(* A clause that is hard as well is in no minimal set.                     *)
LEMMA HardIsRedundant ==
    ASSUME NEW U, NEW V, NEW H, U \ H = V \ H
    PROVE  MinimalSets(U, H) \subseteq MinimalSets(V, H)
<1>1. SUFFICES ASSUME NEW D \in MinimalSets(U, H) PROVE D \in MinimalSets(V, H)
  OBVIOUS
<1>2. D \subseteq U /\ Unsatisfiable(D \cup H) /\ \A d \in D : ~Unsatisfiable((D \ {d}) \cup H)
  BY DEF MinimalSets
<1>3. ASSUME NEW d \in D PROVE d \notin H
  <2>1. SUFFICES ASSUME d \in H PROVE FALSE
    OBVIOUS
  <2>2. (D \ {d}) \cup H = D \cup H
    BY <2>1
  <2>3. QED
    BY <2>2, <1>2
<1>4. D \subseteq V
  BY <1>2, <1>3
<1>5. QED
  BY <1>2, <1>4 DEF MinimalSets

LEMMA ParsedMuses ==
    ASSUME ReadInv, ParsedInv, ~Reading
    PROVE  MusesKept
<1> DEFINE texts == [n \in SoftLines |-> ToSet(file[n].text)]
           H == hard_clauses
<1>1. /\ DOMAIN file = 1..Len(file) /\ Len(file) \in Nat
      /\ ToSet(hard_clauses_str) = {file[i].text : i \in HardLines}
      /\ ToSet(clauses_str) = {file[i].text : i \in NewSoft(file)}
      /\ DOMAIN clauses_str = Constraint
  BY AllRead DEF ParsedInv
<1>2. /\ clauses = [c \in Constraint |-> ToSet(clauses_str[c])]
      /\ hard_clauses = {ToSet(hard_clauses_str[h]) : h \in DOMAIN hard_clauses_str}
  BY DEF ParsedInv
<1>3. H = ClausesAt(HardLines)
  <2>1. hard_clauses = {ToSet(t) : t \in ToSet(hard_clauses_str)}
    BY <1>2 DEF ToSet
  <2>2. QED
    BY <2>1, <1>1 DEF ClausesAt
<1>4. Labels(clauses, Constraint) = {ToSet(file[i].text) : i \in NewSoft(file)}
  <2>1. Labels(clauses, Constraint) = {ToSet(t) : t \in ToSet(clauses_str)}
    BY <1>1, <1>2 DEF ToSet, Labels
  <2>2. QED
    BY <2>1, <1>1
<1>5. Labels(texts, SoftLines) = {ToSet(file[i].text) : i \in SoftLines}
  BY DEF Labels
<1>6. Labels(clauses, Constraint) \ H = Labels(texts, SoftLines) \ H
  <2>1. NewSoft(file) \subseteq SoftLines
    BY DEF NewSoft, SoftLines
  <2>2. ASSUME NEW i \in SoftLines
        PROVE  ToSet(file[i].text) \in H \cup Labels(clauses, Constraint)
    <3> DEFINE same == {k \in 1..Len(file) : file[k].text = file[i].text}
    <3>1. i \in same /\ same \in SUBSET Nat
      BY <1>1 DEF SoftLines
    <3>2. PICK k \in same : \A j \in same : k <= j
      BY ONLY <3>1, FirstIndex
    <3>3. k \in DOMAIN file /\ file[k].text = file[i].text
      BY <3>2, <1>1
    <3>4. CASE k \in SoftLines
      <4>1. \A j \in 1..k - 1 : j \in 1..Len(file) /\ ~(k <= j)
        BY <3>3, <1>1
      <4>2. k \in NewSoft(file)
        BY <4>1, <3>2, <3>3, <3>4 DEF NewSoft, SoftLines
      <4>3. QED
        BY <4>2, <3>3, <1>4
    <3>5. CASE k \notin SoftLines
      <4>1. k \in HardLines
        BY <3>3, <3>5 DEF HardLines
      <4>2. QED
        BY <4>1, <3>3, <1>3 DEF ClausesAt
    <3>6. QED
      BY <3>4, <3>5
  <2>3. QED
    BY <2>1, <2>2, <1>4, <1>5
<1>7. MinimalSets(Labels(clauses, Constraint), H) = MinimalSets(Labels(texts, SoftLines), H)
  <2> DEFINE U == Labels(clauses, Constraint)
             V == Labels(texts, SoftLines)
  <2>1. U \ H = V \ H
    BY <1>6
  <2> HIDE DEF U, V, H
  <2>2. MinimalSets(U, H) \subseteq MinimalSets(V, H)
    BY ONLY <2>1, HardIsRedundant
  <2>3. V \ H = U \ H
    BY ONLY <2>1
  <2>4. MinimalSets(V, H) \subseteq MinimalSets(U, H)
    BY ONLY <2>3, HardIsRedundant
  <2>5. MinimalSets(U, H) = MinimalSets(V, H)
    BY ONLY <2>2, <2>4
  <2>6. QED
    BY ONLY <2>5 DEF U, V
<1>8. AllMuses = MinimalIndices(clauses, Constraint, H)
  <2>1. ASSUME NEW g \in SUBSET Constraint
        PROVE  Sat(g) <=> ~Unsatisfiable(Labels(clauses, g) \cup H)
    BY DEF Sat, Models, Unsatisfiable, Labels
  <2>2. \A g \in SUBSET Constraint : \A c \in g : g \ {c} \in SUBSET Constraint
    OBVIOUS
  <2>3. QED
    BY <2>1, <2>2 DEF AllMuses, IsMus, MinimalIndices
<1>9. MusesOfFile = {Labels(texts, g) : g \in MinimalIndices(texts, SoftLines, H)}
  <2>1. \A g \in SUBSET SoftLines : /\ ClausesAt(g \cup HardLines) = Labels(texts, g) \cup H
                                    /\ ClausesAt(g) = Labels(texts, g)
    BY <1>3 DEF ClausesAt, Labels
  <2>2. \A g \in SUBSET SoftLines :
            (\A a \in SUBSET Var : \E c \in ClausesAt(g \cup HardLines) : ~Satisfies(a, c))
                <=> Unsatisfiable(Labels(texts, g) \cup H)
    BY <2>1 DEF Unsatisfiable
  <2>3. {h \in SUBSET SoftLines :
            /\ \A a \in SUBSET Var : \E c \in ClausesAt(h \cup HardLines) : ~Satisfies(a, c)
            /\ \A n \in h : ~(\A a \in SUBSET Var :
                    \E c \in ClausesAt((h \ {n}) \cup HardLines) : ~Satisfies(a, c))}
            = MinimalIndices(texts, SoftLines, H)
    <3>1. \A h \in SUBSET SoftLines : \A n \in h : h \ {n} \in SUBSET SoftLines
      OBVIOUS
    <3>2. QED
      BY <3>1, <2>2 DEF MinimalIndices
  <2>4. \A g \in MinimalIndices(texts, SoftLines, H) : ClausesAt(g) = Labels(texts, g)
    BY <2>1 DEF MinimalIndices
  <2>5. MusesOfFile = {ClausesAt(g) : g \in MinimalIndices(texts, SoftLines, H)}
    BY <2>3 DEF MusesOfFile
  <2> HIDE DEF texts, H
  <2>6. QED
    BY ONLY <2>4, <2>5
<1>10. MusesOfFile = {Labels(clauses, g) : g \in AllMuses}
  <2> HIDE DEF texts, H
  <2>1. MusesOfFile = MinimalSets(Labels(texts, SoftLines), H)
    BY ONLY <1>9, LabelledMuses
  <2>2. {Labels(clauses, g) : g \in AllMuses} = MinimalSets(Labels(clauses, Constraint), H)
    BY ONLY <1>8, LabelledMuses
  <2>3. QED
    BY ONLY <2>1, <2>2, <1>7
<1>11. QED
  BY <1>10 DEF MusesKept, Labels

---------------------------------------------------------------------------
(* Literals, clauses and assignments of the solver.                        *)
LEMMA LiteralFacts ==
    ASSUME NEW l \in SolverLit
    PROVE  /\ l \in Int /\ l # 0 /\ -l \in SolverLit /\ -(-l) = l /\ -l # l
           /\ S!VarOf(l) \in S!Var /\ S!VarOf(-l) = S!VarOf(l)
           /\ l = S!VarOf(l) \/ l = -S!VarOf(l)
           /\ \A a : S!LitTrue(a, -l) <=> ~S!LitTrue(a, l)
BY SizesAssumption DEF SolverLit, S!Var, S!VarOf, S!LitTrue

LEMMA SameVar ==
    ASSUME NEW k \in SolverLit, NEW l \in SolverLit
    PROVE  S!VarOf(k) = S!VarOf(l) <=> k = l \/ k = -l
BY SizesAssumption DEF SolverLit, S!Var, S!VarOf

LEMMA LitFinite == IsFiniteSet(SolverLit)
<1>1. IsFiniteSet(1..(vars + dimension)) /\ IsFiniteSet(-(vars + dimension)..(vars + dimension))
  BY SizesAssumption, FS_Interval
<1>2. SolverLit \subseteq -(vars + dimension)..(vars + dimension)
  BY SizesAssumption DEF SolverLit, S!Var
<1>3. QED
  BY <1>1, <1>2, FS_Subset

LEMMA SameCardinality == \A X : S!Cardinality(X) = Cardinality(X)
BY DEF S!Cardinality, Cardinality

(* Clauses are empty, have one literal, or more. *)
LEMMA ClauseSize ==
    ASSUME NEW c \in SUBSET SolverLit
    PROVE  /\ S!Cardinality(c) \in Nat
           /\ S!Cardinality(c) = 1 <=> \E l : c = {l}
           /\ S!Cardinality(c) > 1 <=> Long(c)
<1>1. IsFiniteSet(c)
  BY LitFinite, FS_Subset
<1>2. Cardinality(c) \in Nat
  BY <1>1, FS_CardinalityType
<1>3. Cardinality(c) = 0 <=> c = {}
  BY <1>1, FS_EmptySet
<1>4. Cardinality(c) = 1 <=> \E l : c = {l}
  BY <1>1, FS_Singleton
<1>5. Cardinality(c) > 1 <=> Long(c)
  <2>1. Cardinality(c) > 1 <=> Cardinality(c) # 0 /\ Cardinality(c) # 1
    BY <1>2
  <2>2. Long(c) <=> c # {} /\ ~\E l : c = {l}
    BY DEF Long
  <2>3. QED
    BY <2>1, <2>2, <1>3, <1>4
<1>6. QED
  BY <1>2, <1>4, <1>5, SameCardinality

LEMMA ModelsOfMore ==
    ASSUME NEW C, NEW D, C \subseteq D
    PROVE  S!ModelsOf(D) \subseteq S!ModelsOf(C)
BY DEF S!ModelsOf

---------------------------------------------------------------------------
(* Functions that are defined from one number to the next.                 *)
Steps(X, n, F, x, g) ==
    g \in [0..n -> X] /\ g[0] = x /\ \A i \in 1..n : g[i] = F[i][g[i - 1]]

StepsIn(X, n) == [1..n -> [X -> X]]

LEMMA IterationExists ==
    ASSUME NEW X, NEW n \in Nat, NEW F \in StepsIn(X, n), NEW x \in X
    PROVE  \E g : Steps(X, n, F, x, g)
<1> DEFINE Upto(m, g) == Steps(X, m, F, x, g)
           T == {m \in 0..n : ~\E g : Upto(m, g)}
<1> USE DEF Steps, StepsIn
<1>1. SUFFICES ASSUME T # {} PROVE FALSE
  <2>1. n \notin T
    BY <1>1
  <2>2. QED
    BY <2>1
<1>2. PICK m \in T : \A k \in T : m <= k
  <2>1. T \in SUBSET Nat
    OBVIOUS
  <2>2. QED
    BY ONLY <2>1, <1>1, FirstIndex
<1>3. m # 0
  <2>1. Upto(0, [i \in 0..0 |-> x])
    OBVIOUS
  <2>2. QED
    BY <2>1
<1>4. m - 1 \in 0..n /\ m - 1 \notin T /\ m \in 1..n
  BY <1>2, <1>3
<1>5. PICK g : Upto(m - 1, g)
  BY <1>4
<1>6. Upto(m, [i \in 0..m |-> IF i = m THEN F[m][g[m - 1]] ELSE g[i]])
  <2> DEFINE h == [i \in 0..m |-> IF i = m THEN F[m][g[m - 1]] ELSE g[i]]
  <2>1. g[m - 1] \in X /\ F[m] \in [X -> X]
    BY <1>4, <1>5
  <2>2. h \in [0..m -> X] /\ h[0] = x
    BY <2>1, <1>4, <1>5
  <2>3. ASSUME NEW i \in 1..m PROVE h[i] = F[i][h[i - 1]]
    <3>1. i - 1 \in 0..m /\ i - 1 # m /\ i - 1 \in 0..m - 1 /\ i \in 0..m
      BY <1>4
    <3>2. h[i - 1] = g[i - 1]
      BY <3>1
    <3>3. CASE i = m
      BY <3>2, <3>3, <3>1
    <3>4. CASE i # m
      <4>1. i \in 1..m - 1
        BY <3>4, <1>4
      <4>2. QED
        BY <4>1, <3>1, <3>2, <3>4, <1>5
    <3>5. QED
      BY <3>3, <3>4
  <2>4. QED
    BY <2>2, <2>3
<1>7. QED
  BY <1>2, <1>6

(* What holds at 0 and is kept by every step holds everywhere.             *)
LEMMA IterationKeeps ==
    ASSUME NEW n \in Nat, NEW P \in SUBSET (0..n), 0 \in P,
           \A i \in 1..n : i - 1 \in P => i \in P
    PROVE  n \in P
<1> DEFINE T == {i \in 0..n : i \notin P}
<1>1. SUFFICES ASSUME T # {} PROVE FALSE
  BY <1>1
<1>2. PICK m \in T : \A k \in T : m <= k
  <2>1. T \in SUBSET Nat
    OBVIOUS
  <2>2. QED
    BY ONLY <2>1, <1>1, FirstIndex
<1>3. m \in 1..n /\ m - 1 \in 0..n /\ ~(m <= m - 1)
  BY <1>2
<1>4. QED
  BY <1>2, <1>3

---------------------------------------------------------------------------
(* Unit propagation only derives what follows.                             *)
LEMMA PropagatedRounds ==
    ASSUME NEW cls \in SUBSET SUBSET SolverLit, NEW lits \in SUBSET SolverLit
    PROVE  \E g \in [0..2 * (vars + dimension) -> SUBSET SolverLit] :
              /\ g[0] = lits
              /\ \A i \in 1..2 * (vars + dimension) : g[i] = S!Derived(cls, g[i - 1])
              /\ S!Propagated(cls, lits) = g[2 * (vars + dimension)]
<1> DEFINE n == 2 * (vars + dimension)
           X == SUBSET SolverLit
           F == [i \in 1..n |-> [d \in X |-> S!Derived(cls, d)]]
<1>1. n \in Nat
  BY SizesAssumption
<1>2. \A d \in X : S!Derived(cls, d) \in X
  BY DEF S!Derived
<1>3. F \in [1..n -> [X -> X]]
  BY <1>2
<1>4. PICK g \in [0..n -> X] : g[0] = lits /\ \A i \in 1..n : g[i] = F[i][g[i - 1]]
  <2>1. lits \in X
    BY DEF X
  <2> HIDE DEF F, X, n
  <2>2. F \in StepsIn(X, n)
    BY <1>3 DEF StepsIn
  <2>3. \E g : Steps(X, n, F, lits, g)
    BY ONLY <1>1, <2>1, <2>2, IterationExists
  <2>4. QED
    BY ONLY <2>3 DEF Steps
<1>5. \A i \in 1..n : g[i] = S!Derived(cls, g[i - 1])
  <2>1. ASSUME NEW i \in 1..n PROVE g[i] = S!Derived(cls, g[i - 1])
    <3>1. i - 1 \in 0..n
      BY <1>1
    <3>2. g[i - 1] \in X /\ F[i] = [d \in X |-> S!Derived(cls, d)]
      BY <3>1
    <3>3. QED
      BY <3>2, <1>4
  <2>2. QED
    BY <2>1
<1> HIDE DEF F
<1>6. \E h : h = [i \in 0..n |-> IF i = 0 THEN lits
                    ELSE UNION {S!Derived(cls, before) : before \in {h[i - 1]}}]
  <2>1. \A i \in 0..n : g[i] = IF i = 0 THEN lits
                ELSE UNION {S!Derived(cls, before) : before \in {g[i - 1]}}
    <3>1. \A i \in 0..n : i # 0 => i \in 1..n
      BY <1>1
    <3>2. \A i : UNION {S!Derived(cls, before) : before \in {g[i - 1]}} = S!Derived(cls, g[i - 1])
      OBVIOUS
    <3>3. QED
      BY <3>1, <3>2, <1>4, <1>5
  <2>2. g = [i \in 0..n |-> g[i]]
    BY <1>4
  <2>3. QED
    BY <2>1, <2>2
<1> DEFINE h == CHOOSE h : h = [i \in 0..n |-> IF i = 0 THEN lits
                    ELSE UNION {S!Derived(cls, before) : before \in {h[i - 1]}}]
<1>7. h = [i \in 0..n |-> IF i = 0 THEN lits
                    ELSE UNION {S!Derived(cls, before) : before \in {h[i - 1]}}]
  BY <1>6
<1>8. S!Propagated(cls, lits) = h[n]
  BY DEF S!Propagated
<1> HIDE DEF h
<1>9. h[0] = lits /\ \A i \in 1..n : h[i] = S!Derived(cls, h[i - 1])
  <2>1. 0 \in 0..n /\ \A i \in 1..n : i \in 0..n /\ i # 0
    BY <1>1
  <2>2. \A i : UNION {S!Derived(cls, before) : before \in {h[i - 1]}} = S!Derived(cls, h[i - 1])
    OBVIOUS
  <2>3. QED
    BY <2>1, <2>2, <1>7
<1>10. h \in [0..n -> X]
  <2>1. h = [i \in 0..n |-> h[i]]
    BY <1>7
  <2>2. \A i \in 0..n : h[i] \in X
    <3> DEFINE P == {i \in 0..n : \A k \in 0..i : h[k] \in X}
    <3>1. 0 \in P
      BY <1>9, <1>1
    <3>2. ASSUME NEW i \in 1..n, i - 1 \in P PROVE i \in P
      <4>1. h[i - 1] \in X
        BY <3>2
      <4>2. h[i] \in X
        BY <4>1, <1>9, <1>2
      <4>3. QED
        BY <4>2, <3>2
    <3>3. P \in SUBSET (0..n)
      OBVIOUS
    <3> HIDE DEF P
    <3>4. n \in P
      BY ONLY <1>1, <3>1, <3>2, <3>3, IterationKeeps
    <3>5. QED
      BY <3>4 DEF P
  <2>3. QED
    BY <2>1, <2>2
<1>11. QED
  BY <1>8, <1>9, <1>10

LEMMA PropagatedSound ==
    ASSUME NEW cls \in SUBSET SUBSET SolverLit, NEW lits \in SUBSET SolverLit
    PROVE  LET p == S!Propagated(cls, lits) IN
           /\ p \in SUBSET SolverLit /\ lits \subseteq p /\ p \subseteq lits \cup UNION cls
           /\ \A a : (\A c \in cls : S!Satisfies(a, c)) /\ (\A l \in lits : S!LitTrue(a, l))
                        => \A l \in p : S!LitTrue(a, l)
<1> DEFINE n == 2 * (vars + dimension)
<1>1. PICK g \in [0..n -> SUBSET SolverLit] :
              /\ g[0] = lits
              /\ \A i \in 1..n : g[i] = S!Derived(cls, g[i - 1])
              /\ S!Propagated(cls, lits) = g[n]
  BY PropagatedRounds
<1> DEFINE Fine(s) ==
              /\ lits \subseteq s /\ s \subseteq lits \cup UNION cls
              /\ \A a : (\A c \in cls : S!Satisfies(a, c)) /\ (\A l \in lits : S!LitTrue(a, l))
                            => \A l \in s : S!LitTrue(a, l)
           P == {i \in 0..n : Fine(g[i])}
<1>2. n \in Nat
  BY SizesAssumption
<1>3. 0 \in P
  BY <1>1, <1>2
<1>4. ASSUME NEW i \in 1..n, i - 1 \in P PROVE i \in P
  <2>1. Fine(g[i - 1]) /\ g[i] = S!Derived(cls, g[i - 1]) /\ g[i - 1] \in SUBSET SolverLit
    BY <1>4, <1>1
  <2>2. ASSUME NEW a, \A c \in cls : S!Satisfies(a, c), \A k \in lits : S!LitTrue(a, k),
               NEW l \in g[i]
        PROVE  S!LitTrue(a, l)
    <3>1. \A k \in g[i - 1] : S!LitTrue(a, k)
      BY <2>1, <2>2
    <3>2. CASE l \in g[i - 1]
      BY <3>1, <3>2
    <3>3. CASE l \notin g[i - 1]
      <4>1. PICK c \in cls : l \in c /\ \A k \in c \ {l} : -k \in g[i - 1]
        BY <2>1, <3>3 DEF S!Derived
      <4>2. \A k \in c \ {l} : ~S!LitTrue(a, k)
        BY <4>1, <3>1, LiteralFacts
      <4>3. QED
        BY <4>1, <4>2, <2>2 DEF S!Satisfies
    <3>4. QED
      BY <3>2, <3>3
  <2>3. lits \subseteq g[i] /\ g[i] \subseteq lits \cup UNION cls
    BY <2>1 DEF S!Derived
  <2>4. i \in 0..n
    BY <1>2
  <2>5. QED
    BY <2>2, <2>3, <2>4
<1>5. P \in SUBSET (0..n)
  OBVIOUS
<1> HIDE DEF P
<1>6. n \in P
  BY ONLY <1>2, <1>3, <1>4, <1>5, IterationKeeps
<1>7. Fine(g[n]) /\ g[n] \in SUBSET SolverLit
  BY <1>6, <1>1, <1>2 DEF P
<1>8. QED
  BY <1>7, <1>1

---------------------------------------------------------------------------
(* extendModel undoes the eliminations, the last one first.                *)
Entry == [var : S!Var, default : Int, clauses : SUBSET SUBSET SolverLit]

ExtendedBy(es, a) ==
    LET last == Len(es)
        ext[n \in 0..last] == IF n = 0 THEN a ELSE S!Rebuilt(es[last + 1 - n], ext[n - 1])
    IN  ext[last]

LEMMA ExtendedSame ==
    \A a : S!Extended(a) = ExtendedBy(elimclauses, a)
BY DEF S!Extended, ExtendedBy

Undoes(es, a, g) ==
    /\ g[0] = a
    /\ \A i \in 1..Len(es) : g[i] = S!Rebuilt(es[Len(es) + 1 - i], g[i - 1])

ExtendsBy(es, a, g) == g \in [0..Len(es) -> SUBSET S!Var] /\ Undoes(es, a, g)

LEMMA RebuiltType ==
    ASSUME NEW e \in Entry, NEW a \in SUBSET S!Var
    PROVE  /\ S!Rebuilt(e, a) \in SUBSET S!Var
           /\ \A v : v # e.var => (v \in S!Rebuilt(e, a) <=> v \in a)
BY DEF Entry, S!Rebuilt

LEMMA ExtendsExists ==
    ASSUME NEW es \in Seq(Entry), NEW a \in SUBSET S!Var
    PROVE  \E g : ExtendsBy(es, a, g)
<1> DEFINE n == Len(es)
           X == SUBSET S!Var
           F == [i \in 1..n |-> [b \in X |-> S!Rebuilt(es[n + 1 - i], b)]]
<1>1. n \in Nat
  OBVIOUS
<1>2. \A i \in 1..n : \A b \in X : S!Rebuilt(es[n + 1 - i], b) \in X
  <2>1. \A i \in 1..n : n + 1 - i \in 1..n
    BY <1>1
  <2>2. \A i \in 1..n : es[n + 1 - i] \in Entry
    BY <2>1
  <2>3. QED
    BY <2>2, RebuiltType
<1>3. F \in StepsIn(X, n)
  BY <1>2 DEF StepsIn
<1>4. PICK g : Steps(X, n, F, a, g)
  <2>1. a \in X
    BY DEF X
  <2> HIDE DEF F, X, n
  <2>2. QED
    BY ONLY <1>1, <1>3, <2>1, IterationExists
<1>5. g \in [0..n -> X] /\ g[0] = a /\ \A i \in 1..n : g[i] = F[i][g[i - 1]]
  BY <1>4 DEF Steps
<1>6. \A i \in 1..n : g[i] = S!Rebuilt(es[n + 1 - i], g[i - 1])
  <2>1. ASSUME NEW i \in 1..n PROVE g[i] = S!Rebuilt(es[n + 1 - i], g[i - 1])
    <3>1. i - 1 \in 0..n
      BY <1>1
    <3>2. g[i - 1] \in X /\ F[i] = [b \in X |-> S!Rebuilt(es[n + 1 - i], b)]
      BY <3>1, <1>5
    <3>3. QED
      BY <3>2, <1>5
  <2>2. QED
    BY <2>1
<1>7. QED
  BY <1>5, <1>6 DEF ExtendsBy, Undoes

LEMMA ExtendsUnique ==
    ASSUME NEW es \in Seq(Entry), NEW a, NEW g, NEW h, Undoes(es, a, g), Undoes(es, a, h)
    PROVE  g[Len(es)] = h[Len(es)]
<1> DEFINE m == Len(es)
           P == {i \in 0..m : g[i] = h[i]}
<1> USE DEF Undoes
<1>1. m \in Nat /\ 0 \in P /\ P \in SUBSET (0..m)
  OBVIOUS
<1>2. ASSUME NEW i \in 1..m, i - 1 \in P PROVE i \in P
  <2>1. g[i - 1] = h[i - 1] /\ i \in 0..m
    BY <1>2
  <2>2. QED
    BY <2>1
<1> HIDE DEF P
<1>3. m \in P
  <2> HIDE DEF m
  <2>1. QED
    BY ONLY <1>1, <1>2, IterationKeeps
<1>4. QED
  BY <1>3 DEF P

LEMMA ExtendedByIs ==
    ASSUME NEW es \in Seq(Entry), NEW a \in SUBSET S!Var, NEW g, ExtendsBy(es, a, g)
    PROVE  ExtendedBy(es, a) = g[Len(es)]
<1> DEFINE n == Len(es)
           IsExt(h) == h = [i \in 0..n |-> IF i = 0 THEN a ELSE S!Rebuilt(es[n + 1 - i], h[i - 1])]
           ext == CHOOSE h : IsExt(h)
<1>1. n \in Nat /\ n \in 0..n
  OBVIOUS
<1>2. g \in [0..n -> SUBSET S!Var] /\ g[0] = a
      /\ \A i \in 1..n : g[i] = S!Rebuilt(es[n + 1 - i], g[i - 1])
  BY DEF ExtendsBy, Undoes
<1>3. IsExt(g)
  <2>1. \A i \in 0..n : i # 0 => i \in 1..n
    BY <1>1
  <2>2. \A i \in 0..n : g[i] = IF i = 0 THEN a ELSE S!Rebuilt(es[n + 1 - i], g[i - 1])
    BY <2>1, <1>2
  <2>3. g = [i \in 0..n |-> g[i]]
    BY <1>2
  <2>4. QED
    BY <2>2, <2>3
<1>4. IsExt(ext)
  BY <1>3
<1>5. ExtendedBy(es, a) = ext[n]
  BY DEF ExtendedBy
<1>6. ext[0] = a /\ \A i \in 1..n : ext[i] = S!Rebuilt(es[n + 1 - i], ext[i - 1])
  <2>1. 0 \in 0..n /\ \A i \in 1..n : i \in 0..n /\ i # 0
    BY <1>1
  <2> HIDE DEF ext
  <2>2. QED
    BY <2>1, <1>4
<1> HIDE DEF ext
<1>7. ext[n] = g[n]
  <2>1. Undoes(es, a, ext) /\ Undoes(es, a, g)
    BY <1>2, <1>6 DEF Undoes
  <2>2. QED
    BY ONLY <2>1, ExtendsUnique, es \in Seq(Entry)
<1>8. QED
  BY <1>5, <1>7

LEMMA ExtendedType ==
    ASSUME NEW es \in Seq(Entry), NEW a \in SUBSET S!Var
    PROVE  /\ ExtendedBy(es, a) \in SUBSET S!Var
           /\ \A v : (\A i \in 1..Len(es) : es[i].var # v)
                        => (v \in ExtendedBy(es, a) <=> v \in a)
<1> DEFINE n == Len(es)
<1>1. PICK g : ExtendsBy(es, a, g)
  BY ExtendsExists
<1>2. ExtendedBy(es, a) = g[n]
  BY <1>1, ExtendedByIs
<1>3. /\ g \in [0..n -> SUBSET S!Var] /\ g[0] = a /\ n \in Nat
      /\ \A i \in 1..n : g[i] = S!Rebuilt(es[n + 1 - i], g[i - 1])
  BY <1>1 DEF ExtendsBy, Undoes
<1>4. ASSUME NEW v, \A i \in 1..n : es[i].var # v PROVE v \in g[n] <=> v \in a
  <2> DEFINE P == {i \in 0..n : v \in g[i] <=> v \in a}
  <2>1. 0 \in P /\ P \in SUBSET (0..n)
    BY <1>3
  <2>2. ASSUME NEW i \in 1..n, i - 1 \in P PROVE i \in P
    <3>1. i - 1 \in 0..n /\ n + 1 - i \in 1..n /\ i \in 0..n
      BY <1>3
    <3>2. g[i - 1] \in SUBSET S!Var /\ es[n + 1 - i] \in Entry /\ es[n + 1 - i].var # v
      BY <3>1, <1>3, <1>4
    <3>3. v \in S!Rebuilt(es[n + 1 - i], g[i - 1]) <=> v \in g[i - 1]
      BY <3>2, RebuiltType
    <3>4. QED
      BY <3>1, <3>3, <2>2, <1>3
  <2> HIDE DEF P
  <2>3. n \in P
    BY ONLY <1>3, <2>1, <2>2, IterationKeeps
  <2>4. QED
    BY <2>3 DEF P
<1>5. n \in 0..n
  BY <1>3
<1>6. QED
  BY <1>2, <1>3, <1>4, <1>5

LEMMA ExtendedByNone ==
    ASSUME NEW a \in SUBSET S!Var
    PROVE  ExtendedBy(<<>>, a) = a
<1>1. <<>> \in Seq(Entry) /\ Len(<<>>) = 0
  BY EmptySeq
<1>2. PICK g : ExtendsBy(<<>>, a, g)
  BY <1>1, ExtendsExists
<1>3. QED
  BY <1>1, <1>2, ExtendedByIs DEF ExtendsBy, Undoes

(* The entry stored last is used first.                                    *)
LEMMA ExtendedByAppend ==
    ASSUME NEW es \in Seq(Entry), NEW e \in Entry, NEW a \in SUBSET S!Var
    PROVE  ExtendedBy(Append(es, e), a) = ExtendedBy(es, S!Rebuilt(e, a))
<1> DEFINE n == Len(es)
           fs == Append(es, e)
           b == S!Rebuilt(e, a)
<1>1. /\ n \in Nat /\ fs \in Seq(Entry) /\ Len(fs) = n + 1 /\ fs[n + 1] = e
      /\ \A i \in 1..n : fs[i] = es[i]
  OBVIOUS
<1>2. b \in SUBSET S!Var
  BY RebuiltType
<1> HIDE DEF fs, b
<1>3. PICK g : ExtendsBy(es, b, g)
  BY <1>2, ExtendsExists
<1>4. ExtendedBy(es, b) = g[n]
  BY <1>2, <1>3, ExtendedByIs
<1>5. /\ g \in [0..n -> SUBSET S!Var] /\ g[0] = b
      /\ \A i \in 1..n : g[i] = S!Rebuilt(es[n + 1 - i], g[i - 1])
  BY <1>3 DEF ExtendsBy, Undoes
<1> DEFINE h == [i \in 0..n + 1 |-> IF i = 0 THEN a ELSE g[i - 1]]
<1>6. h \in [0..n + 1 -> SUBSET S!Var] /\ h[0] = a
  <2>1. \A i \in 0..n + 1 : i # 0 => i - 1 \in 0..n
    BY <1>1
  <2>2. QED
    BY <2>1, <1>1, <1>5
<1>7. ASSUME NEW i \in 1..n + 1 PROVE h[i] = S!Rebuilt(fs[n + 1 + 1 - i], h[i - 1])
  <2>1. i \in 0..n + 1 /\ i # 0 /\ i - 1 \in 0..n + 1
    BY <1>1
  <2>2. CASE i = 1
    <3>1. h[1] = b /\ h[0] = a /\ n + 1 + 1 - 1 = n + 1
      BY <2>1, <2>2, <1>1, <1>5
    <3>2. QED
      BY <3>1, <2>2, <1>1 DEF b
  <2>3. CASE i # 1
    <3>1. i - 1 \in 1..n /\ n + 1 - (i - 1) \in 1..n /\ n + 1 + 1 - i = n + 1 - (i - 1)
      BY <2>3, <1>1
    <3>2. fs[n + 1 + 1 - i] = es[n + 1 - (i - 1)]
      BY <3>1, <1>1
    <3>3. h[i] = g[i - 1] /\ h[i - 1] = g[(i - 1) - 1]
      BY <2>1, <2>3, <3>1
    <3>4. QED
      BY <3>1, <3>2, <3>3, <1>5
  <2>4. QED
    BY <2>2, <2>3
<1>8. ExtendsBy(fs, a, h)
  <2> HIDE DEF h
  <2>1. QED
    BY <1>1, <1>6, <1>7 DEF ExtendsBy, Undoes
<1>9. ExtendedBy(fs, a) = h[n + 1]
  <2> HIDE DEF h
  <2>1. QED
    BY <1>1, <1>8, ExtendedByIs
<1>10. h[n + 1] = g[n]
  BY <1>1
<1>11. QED
  BY <1>4, <1>9, <1>10 DEF fs, b

---------------------------------------------------------------------------
(* What extendModel makes of a model for the variable eliminated last.     *)
Forced(e, a) == \E c \in e.clauses : \A l \in c : S!VarOf(l) = e.var \/ ~S!LitTrue(a, l)

LEMMA RebuiltFacts ==
    ASSUME NEW e \in Entry, e.default \in {e.var, -e.var}, NEW a \in SUBSET S!Var
    PROVE  LET b == S!Rebuilt(e, a) IN
           /\ b \in SUBSET S!Var
           /\ \A l \in SolverLit : S!VarOf(l) # e.var => (S!LitTrue(b, l) <=> S!LitTrue(a, l))
           /\ e.default \in SolverLit /\ e.var \in S!Var
           /\ S!LitTrue(b, e.default) <=> ~Forced(e, a)
           /\ S!Rebuilt(e, b) = b
<1> DEFINE b == S!Rebuilt(e, a)
<1>1. e.var \in S!Var /\ e.clauses \in SUBSET SUBSET SolverLit
  BY DEF Entry
<1>2. e.var \in Int /\ e.var > 0 /\ e.default \in SolverLit
  BY <1>1, SizesAssumption DEF SolverLit, S!Var
<1>3. \A x : S!Rebuilt(e, x) = IF e.default > 0 <=> ~Forced(e, x)
                                THEN x \cup {e.var} ELSE x \ {e.var}
  BY DEF S!Rebuilt, Forced
<1>4. b \in SUBSET S!Var
  BY <1>1, <1>3
<1>5. ASSUME NEW l \in SolverLit, S!VarOf(l) # e.var
      PROVE  S!LitTrue(b, l) <=> S!LitTrue(a, l)
  <2>1. l # e.var /\ -l # e.var
    BY <1>5, <1>2, LiteralFacts, SizesAssumption DEF S!VarOf, SolverLit, S!Var
  <2>2. QED
    BY <2>1, <1>3 DEF S!LitTrue
<1>6. S!LitTrue(b, e.default) <=> ~Forced(e, a)
  <2>1. CASE Forced(e, a)
    <3>1. b = IF e.default > 0 THEN a \ {e.var} ELSE a \cup {e.var}
      BY <2>1, <1>3
    <3>2. QED
      BY <3>1, <2>1, <1>2 DEF S!LitTrue
  <2>2. CASE ~Forced(e, a)
    <3>1. b = IF e.default > 0 THEN a \cup {e.var} ELSE a \ {e.var}
      BY <2>2, <1>3
    <3>2. QED
      BY <3>1, <2>2, <1>2 DEF S!LitTrue
  <2>3. QED
    BY <2>1, <2>2
<1>7. Forced(e, b) <=> Forced(e, a)
  <2>1. \A c \in e.clauses : \A l \in c : S!VarOf(l) = e.var
            \/ (S!LitTrue(b, l) <=> S!LitTrue(a, l))
    BY <1>1, <1>5
  <2> HIDE DEF b
  <2>2. QED
    BY <2>1 DEF Forced
<1>8. S!Rebuilt(e, b) = b
  <2>1. \/ b = a \cup {e.var} /\ (e.default > 0 <=> ~Forced(e, a))
        \/ b = a \ {e.var} /\ ~(e.default > 0 <=> ~Forced(e, a))
    BY <1>3
  <2>2. S!Rebuilt(e, b) = IF e.default > 0 <=> ~Forced(e, b)
                          THEN b \cup {e.var} ELSE b \ {e.var}
    BY <1>3
  <2> HIDE DEF b
  <2>3. QED
    BY <2>1, <2>2, <1>7
<1>9. QED
  BY <1>2, <1>1, <1>4, <1>5, <1>6, <1>8

(* A model of all clauses remains one.                                     *)
LEMMA RebuiltKeepsModels ==
    ASSUME NEW e \in Entry, e.default \in {e.var, -e.var}, NEW a,
           NEW cls \in SUBSET SUBSET SolverLit, \A c \in cls : ~S!Tautology(c),
           e.clauses = {c \in cls : -e.default \in c},
           a \in S!ModelsOf(cls)
    PROVE  S!Rebuilt(e, a) \in S!ModelsOf(cls)
<1> DEFINE b == S!Rebuilt(e, a)
           p == e.default
<1>1. a \in SUBSET S!Var /\ \A c \in cls : \E l \in c : S!LitTrue(a, l)
  BY DEF S!ModelsOf, S!Satisfies
<1>2. /\ b \in SUBSET S!Var /\ p \in SolverLit /\ e.var \in S!Var
      /\ \A l \in SolverLit : S!VarOf(l) # e.var => (S!LitTrue(b, l) <=> S!LitTrue(a, l))
      /\ S!LitTrue(b, p) <=> ~Forced(e, a)
  BY <1>1, RebuiltFacts
<1>3. \A l \in SolverLit : S!VarOf(l) = e.var => l = p \/ l = -p
  <2>1. e.var \in SolverLit /\ S!VarOf(e.var) = e.var /\ -(-e.var) = e.var
    BY <1>2, SizesAssumption DEF SolverLit, S!Var, S!VarOf
  <2>2. QED
    BY <2>1, SameVar
<1>4. \A x : S!LitTrue(x, -p) <=> ~S!LitTrue(x, p)
  BY <1>2, LiteralFacts
<1> HIDE DEF b
<1>5. ASSUME NEW c \in cls PROVE S!Satisfies(b, c)
  <2>1. PICK l \in c : S!LitTrue(a, l)
    BY <1>1
  <2>2. l \in SolverLit /\ ~S!Tautology(c) /\ c \in SUBSET SolverLit
    OBVIOUS
  <2>3. CASE S!VarOf(l) # e.var
    BY <2>1, <2>2, <2>3, <1>2 DEF S!Satisfies
  <2>4. CASE l = p
    <3>1. ~Forced(e, a)
      <4>1. SUFFICES ASSUME Forced(e, a) PROVE FALSE
        OBVIOUS
      <4>2. PICK d \in e.clauses : \A k \in d : S!VarOf(k) = e.var \/ ~S!LitTrue(a, k)
        BY <4>1 DEF Forced
      <4>3. d \in cls /\ -p \in d /\ ~S!Tautology(d) /\ d \in SUBSET SolverLit
        BY <4>2
      <4>4. PICK k \in d : S!LitTrue(a, k)
        BY <4>3, <1>1
      <4>5. k = p \/ k = -p
        BY <4>2, <4>3, <4>4, <1>3
      <4>6. k # p
        BY <4>3 DEF S!Tautology
      <4>7. QED
        BY <4>4, <4>5, <4>6, <2>1, <2>4, <1>4
    <3>2. QED
      BY <3>1, <2>4, <1>2 DEF S!Satisfies
  <2>5. CASE l = -p
    <3>1. CASE Forced(e, a)
      BY <3>1, <2>5, <1>2, <1>4 DEF S!Satisfies
    <3>2. CASE ~Forced(e, a)
      <4>1. c \in e.clauses
        BY <2>1, <2>5
      <4>2. PICK k \in c : S!VarOf(k) # e.var /\ S!LitTrue(a, k)
        BY <4>1, <3>2 DEF Forced
      <4>3. QED
        BY <4>2, <2>2, <1>2 DEF S!Satisfies
    <3>3. QED
      BY <3>1, <3>2
  <2>6. QED
    BY <2>2, <2>3, <2>4, <2>5, <1>3
<1>6. QED
  BY <1>2, <1>5 DEF S!ModelsOf, b

(* A model of the resolvents becomes one of the clauses they come from.    *)
LEMMA RebuiltSatisfiesOld ==
    ASSUME NEW e \in Entry, e.default \in {e.var, -e.var}, NEW a,
           NEW rest \in SUBSET SUBSET SolverLit,
           \A c \in rest : e.var \notin S!VarsOf(c),
           NEW old \in SUBSET SUBSET SolverLit, \A c \in old : ~S!Tautology(c),
           \A c \in old : e.var \in c \/ -e.var \in c,
           e.clauses = {c \in old : -e.default \in c},
           \A c, d \in old : -e.default \in c /\ e.default \in d =>
                LET m == MergedAt(e.default, c, d) IN S!Tautology(m) \/ S!Satisfies(a, m),
           a \in S!ModelsOf(rest)
    PROVE  S!Rebuilt(e, a) \in S!ModelsOf(rest \cup old)
<1> DEFINE b == S!Rebuilt(e, a)
           p == e.default
<1>1. a \in SUBSET S!Var /\ \A c \in rest : \E l \in c : S!LitTrue(a, l)
  BY DEF S!ModelsOf, S!Satisfies
<1>2. /\ b \in SUBSET S!Var /\ p \in SolverLit /\ e.var \in S!Var
      /\ \A l \in SolverLit : S!VarOf(l) # e.var => (S!LitTrue(b, l) <=> S!LitTrue(a, l))
      /\ S!LitTrue(b, p) <=> ~Forced(e, a)
  BY <1>1, RebuiltFacts
<1>3. /\ \A l \in SolverLit : S!VarOf(l) = e.var => l = p \/ l = -p
      /\ p = e.var \/ (p = -e.var /\ -p = e.var)
  <2>1. e.var \in SolverLit /\ S!VarOf(e.var) = e.var /\ -(-e.var) = e.var
    BY <1>2, SizesAssumption DEF SolverLit, S!Var, S!VarOf
  <2>2. QED
    BY <2>1, SameVar
<1>4. \A x : S!LitTrue(x, -p) <=> ~S!LitTrue(x, p)
  BY <1>2, LiteralFacts
<1>5. \A c \in old : p \in c \/ -p \in c
  BY <1>3
<1> HIDE DEF b
<1>6. ASSUME NEW c \in rest PROVE S!Satisfies(b, c)
  <2>1. PICK l \in c : S!LitTrue(a, l)
    BY <1>1
  <2>2. l \in SolverLit /\ S!VarOf(l) # e.var
    BY DEF S!VarsOf
  <2>3. QED
    BY <2>1, <2>2, <1>2 DEF S!Satisfies
<1>7. ASSUME NEW d \in old PROVE S!Satisfies(b, d)
  <2>1. d \in SUBSET SolverLit /\ ~S!Tautology(d)
    OBVIOUS
  <2>2. CASE ~Forced(e, a)
    <3>1. CASE p \in d
      BY <3>1, <2>2, <1>2 DEF S!Satisfies
    <3>2. CASE -p \in d
      <4>1. d \in e.clauses
        BY <3>2
      <4>2. PICK k \in d : S!VarOf(k) # e.var /\ S!LitTrue(a, k)
        BY <4>1, <2>2 DEF Forced
      <4>3. QED
        BY <4>2, <2>1, <1>2 DEF S!Satisfies
    <3>3. QED
      BY <3>1, <3>2, <1>5
  <2>3. CASE Forced(e, a)
    <3>1. PICK c \in e.clauses : \A l \in c : S!VarOf(l) = e.var \/ ~S!LitTrue(a, l)
      BY <2>3 DEF Forced
    <3>2. c \in old /\ -p \in c /\ c \in SUBSET SolverLit /\ ~S!Tautology(c)
      BY <3>1
    <3>3. S!LitTrue(b, -p)
      BY <2>3, <1>2, <1>4
    <3>4. CASE -p \in d
      BY <3>3, <3>4 DEF S!Satisfies
    <3>5. CASE p \in d
      <4> DEFINE m == MergedAt(p, c, d)
      <4>1. S!Tautology(m) \/ S!Satisfies(a, m)
        BY <3>2, <3>5
      <4>2. \A l \in c \ {-p} : ~S!LitTrue(a, l)
        <5>1. p \notin c
          BY <3>2, <1>2, LiteralFacts DEF S!Tautology
        <5>2. \A l \in c \ {-p} : S!VarOf(l) # e.var
          BY <5>1, <3>2, <1>3
        <5>3. QED
          BY <5>2, <3>1
      <4>3. ASSUME NEW k \in d \ {p}, S!LitTrue(a, k) PROVE S!Satisfies(b, d)
        <5>1. k \in SolverLit /\ k # -p
          BY <3>5, <2>1, <1>2, LiteralFacts DEF S!Tautology
        <5>2. QED
          BY <5>1, <4>3, <1>2, <1>3 DEF S!Satisfies
      <4>4. CASE S!Satisfies(a, m)
        <5>1. PICK k \in m : S!LitTrue(a, k)
          BY <4>4 DEF S!Satisfies
        <5>2. k \in d \ {p}
          BY <5>1, <4>2 DEF MergedAt
        <5>3. QED
          BY <5>1, <5>2, <4>3
      <4>5. CASE S!Tautology(m)
        <5>1. PICK k \in m : -k \in m
          BY <4>5 DEF S!Tautology
        <5>2. k \in SolverLit /\ -(-k) = k
          BY <5>1, <3>2, <2>1, LiteralFacts DEF MergedAt
        <5>3. CASE k \in c \ {-p} /\ -k \in d \ {p}
          BY <5>2, <5>3, <4>2, <4>3, LiteralFacts
        <5>4. CASE -k \in c \ {-p} /\ k \in d \ {p}
          BY <5>2, <5>4, <4>2, <4>3, LiteralFacts
        <5>5. ~(k \in c /\ -k \in c) /\ ~(k \in d /\ -k \in d)
          BY <3>2, <2>1 DEF S!Tautology
        <5>6. QED
          BY <5>1, <5>3, <5>4, <5>5 DEF MergedAt
      <4>6. QED
        BY <4>1, <4>4, <4>5
    <3>6. QED
      BY <3>4, <3>5, <1>5
  <2>4. QED
    BY <2>2, <2>3
<1>8. QED
  BY <1>2, <1>6, <1>7 DEF S!ModelsOf, b

---------------------------------------------------------------------------
(* What a step of a call leaves alone.                                     *)
callerVars == <<cnfVars, fileVars, encoded, checks, query, assumptions, frozen>>

LEMMA GivenSame ==
    ASSUME UNCHANGED <<cnfVars, fileVars, encoded>>
    PROVE  /\ Encoding' = Encoding /\ Given' = Given
           /\ \A c : Implied(c)' <=> Implied(c)
<1>1. Encoding' = Encoding
  BY DEF Encoding, cnfVars, fileVars
<1>2. Given' = Given
  BY <1>1 DEF Given
<1>3. QED
  BY <1>1, <1>2 DEF Implied

LEMMA ReadUnchanged ==
    ASSUME ReadInv, ParsedInv, UNCHANGED <<cnfVars, fileVars, encoded>>, Reading' <=> Reading
    PROVE  ReadInv' /\ ParsedInv'
<1>1. /\ clauses' = clauses /\ hard_clauses' = hard_clauses /\ file' = file /\ lines' = lines
      /\ clauses_str' = clauses_str /\ hard_clauses_str' = hard_clauses_str
      /\ clauses_unique_map' = clauses_unique_map /\ encoded' = encoded
  BY DEF cnfVars, fileVars
<1>2. PICK n \in 0..Len(file) : ReadUpTo(n)
  BY DEF ReadInv
<1>3. ReadUpTo(n)'
  BY <1>1, <1>2 DEF ReadUpTo
<1>4. ReadInv'
  BY <1>1, <1>3 DEF ReadInv
<1>5. ParsedInv'
  BY <1>1, GivenSame DEF ParsedInv
<1>6. QED
  BY <1>4, <1>5

LEMMA CallGoesOn ==
    ASSUME CallInv, step # "idle", UNCHANGED callerVars,
           step' \in {"gather", "subsume", "eliminate", "resolve", "search", "extend", "sat",
                      "unsat"},
           step' # "unsat" => ok'
    PROVE  CallInv'
<1>1. Encoding' = Encoding /\ Constructed' = Constructed
  BY GivenSame DEF callerVars, Constructed, Reading
<1>2. Constructed /\ checks > 0 /\ checks \in Nat
  BY DEF CallInv
<1>3. PICK check \in Checks : /\ query = O!Check(check.f, check.core, check.grow)
                              /\ assumptions = Switches(check.f)
  BY DEF CallInv
<1>4. /\ checks' = checks /\ query' = query /\ assumptions' = assumptions /\ frozen' = frozen
      /\ frozen = Controls
  BY DEF callerVars, CallInv
<1>5. (query = O!Check(check.f, check.core, check.grow))'
  BY <1>3, <1>4 DEF O!Check
<1>6. QED
  BY <1>1, <1>2, <1>3, <1>4, <1>5 DEF CallInv

(* A call that works on has clauses without opposite units. *)
LEMMA NoContradiction ==
    ASSUME CallInv, ContradictionSeen, step \notin {"idle", "unsat"}, UNCHANGED callerVars
    PROVE  ok /\ Constructed /\ checks > 0 /\ ContradictionSeen'
<1>1. ok /\ Constructed /\ checks > 0
  BY DEF CallInv
<1>2. ~OppositeUnits(file)
  BY <1>1 DEF ContradictionSeen
<1>3. ~OppositeUnits(file)'
  BY <1>2 DEF OppositeUnits, callerVars, fileVars
<1>4. checks' # 0
  BY <1>1 DEF callerVars
<1>5. QED
  BY <1>1, <1>3, <1>4 DEF ContradictionSeen

LEMMA StrongerCore ==
    ASSUME UNCHANGED <<cnfVars, fileVars, encoded, elimclauses>>, ok, Reversible,
           S!ModelsOf(Core)' \subseteq S!ModelsOf(Core)
    PROVE  \A a \in S!ModelsOf(Core)' : S!Extended(a)' \in S!ModelsOf(Given)'
<1>1. Given' = Given /\ S!ModelsOf(Given)' = S!ModelsOf(Given)
  BY GivenSame DEF S!ModelsOf
<1>2. ASSUME NEW a \in S!ModelsOf(Core)' PROVE S!Extended(a)' \in S!ModelsOf(Given)'
  <2>1. S!Extended(a) \in S!ModelsOf(Given)
    BY <1>2 DEF Reversible
  <2>2. S!Extended(a)' = S!Extended(a)
    BY DEF S!Extended
  <2>3. QED
    BY <2>1, <2>2, <1>1
<1>3. QED
  BY <1>2

LEMMA QuietStep ==
    ASSUME SolverInv, CallInv, UNCHANGED callerVars,
           UNCHANGED <<ok, db, learnts, trail, elimclauses, elim, model, conflict>>,
           queue' \subseteq db, heap' \in SUBSET S!Var,
           step \in {"gather", "subsume", "eliminate"},
           step' \in {"gather", "subsume", "eliminate", "search"}
    PROVE  SolverInv'
<1>1. /\ Given' = Given /\ \A c : Implied(c)' <=> Implied(c)
  BY GivenSame DEF callerVars
<1>2. S!eliminated' = S!eliminated /\ S!Facts' = S!Facts /\ Core' = Core
  BY DEF S!eliminated, S!Facts, Core, Units
<1>3. SolverTypes'
  BY <1>2 DEF SolverInv, SolverTypes
<1>4. OnlyPositiveControls'
  BY <1>2 DEF SolverInv, OnlyPositiveControls
<1>5. Sound'
  BY <1>1, <1>2 DEF SolverInv, Sound
<1>6. Reversible'
  <2>1. ok /\ \A a \in S!ModelsOf(Core)' : S!Extended(a)' \in S!ModelsOf(Given)'
    BY <1>2, StrongerCore, NoContradiction DEF SolverInv, callerVars, S!ModelsOf
  <2>2. Old = {} /\ Old' = {}
    BY DEF Old
  <2>3. QED
    BY <2>1, <2>2, <1>2 DEF Reversible, SolverInv
<1>7. Resolving' /\ AnswerKnown'
  BY DEF Resolving, AnswerKnown
<1>8. ContradictionSeen'
  BY NoContradiction DEF SolverInv
<1>9. QED
  BY <1>3, <1>4, <1>5, <1>6, <1>7, <1>8 DEF SolverInv

---------------------------------------------------------------------------
(* Backward subsumption.                                                   *)
ShorterBy(c, d) == d \ {-l : l \in S!Resolved(c, d)}

LEMMA ShorterFacts ==
    ASSUME NEW c \in SUBSET SolverLit, ~S!Tautology(c),
           NEW d \in SUBSET SolverLit, ~S!Tautology(d), Long(d), S!Resolved(c, d) # {}
    PROVE  /\ ShorterBy(c, d) \subseteq d /\ ShorterBy(c, d) # {}
           /\ \A a : S!Satisfies(a, c) /\ S!Satisfies(a, d) => S!Satisfies(a, ShorterBy(c, d))
<1>1. PICK l \in S!Resolved(c, d) : TRUE
  OBVIOUS
<1>2. l \in c /\ -l \in d /\ c \ {l} \subseteq d
  BY <1>1 DEF S!Resolved
<1>3. ASSUME NEW k \in S!Resolved(c, d) PROVE k = l
  <2>1. SUFFICES ASSUME k # l PROVE FALSE
    OBVIOUS
  <2>2. k \in d /\ -k \in d
    BY <2>1, <1>2 DEF S!Resolved
  <2>3. QED
    BY <2>2 DEF S!Tautology
<1>4. ShorterBy(c, d) = d \ {-l}
  BY <1>1, <1>3 DEF ShorterBy
<1>5. ShorterBy(c, d) # {}
  BY <1>4 DEF Long
<1>6. ASSUME NEW a, S!Satisfies(a, c), S!Satisfies(a, d)
      PROVE  S!Satisfies(a, d \ {-l})
  <2>1. PICK k \in c : S!LitTrue(a, k)
    BY <1>6 DEF S!Satisfies
  <2>2. CASE k = l
    <3>1. ~S!LitTrue(a, -l)
      BY <2>1, <2>2, LiteralFacts
    <3>2. QED
      BY <3>1, <1>6 DEF S!Satisfies
  <2>3. CASE k # l
    <3>1. k \in d /\ k # -l
      BY <2>3, <1>2 DEF S!Tautology
    <3>2. QED
      BY <3>1, <2>1 DEF S!Satisfies
  <2>4. QED
    BY <2>2, <2>3
<1>7. QED
  BY <1>4, <1>5, <1>6

Follows(cls, lits, t) ==
    /\ t \in SUBSET SolverLit /\ lits \subseteq t /\ t \subseteq lits \cup UNION cls
    /\ \A a : (\A c \in cls : S!Satisfies(a, c)) /\ (\A l \in lits : S!LitTrue(a, l))
                    => \A l \in t : S!LitTrue(a, l) /\ -l \notin t

LEMMA EnqueueFacts ==
    ASSUME NEW cls \in SUBSET SUBSET SolverLit, NEW lits \in SUBSET SolverLit
    PROVE  Follows(cls, lits, S!Propagated(cls, lits))
<1> DEFINE t == S!Propagated(cls, lits)
<1>1. /\ t \in SUBSET SolverLit /\ lits \subseteq t /\ t \subseteq lits \cup UNION cls
      /\ \A a : (\A c \in cls : S!Satisfies(a, c)) /\ (\A l \in lits : S!LitTrue(a, l))
                        => \A l \in t : S!LitTrue(a, l)
  BY PropagatedSound
<1> HIDE DEF t
<1>2. ASSUME NEW a, \A l \in t : S!LitTrue(a, l) PROVE \A l \in t : -l \notin t
  BY <1>1, <1>2, LiteralFacts
<1>3. Follows(cls, lits, t)
  BY <1>1, <1>2 DEF Follows
<1>4. QED
  BY <1>3 DEF t

LEMMA UnitTrue == \A a, l : S!Satisfies(a, {l}) <=> S!LitTrue(a, l)
BY DEF S!Satisfies

LEMMA VarsType ==
    ASSUME NEW c \in SUBSET SolverLit
    PROVE  S!VarsOf(c) \in SUBSET S!Var
BY LiteralFacts DEF S!VarsOf

LEMMA FactsUnion ==
    /\ UNION S!Facts = (UNION db) \cup (UNION learnts) \cup trail
    /\ UNION S!Facts' = (UNION db') \cup (UNION learnts') \cup trail'
BY DEF S!Facts

LEMMA BackwardStep ==
    ASSUME SolverInv, CallInv, step = "subsume", UNCHANGED callerVars,
           NEW c, c \in queue \/ \E l \in trail : c = {l}, S!Backward(c)
    PROVE  SolverInv' /\ step' \in {"subsume", "unsat"} /\ (step' # "unsat" => ok')
<1> DEFINE Shorter(d) == ShorterBy(c, d)
           subsumed == {d \in db \ {c} : c \subseteq d}
           longer == {d \in db \ {c} : S!Resolved(c, d) # {}}
           shorter == {Shorter(d) : d \in longer}
           added == {d \in shorter : S!Cardinality(d) > 1}
           units == UNION {d \in shorter : S!Cardinality(d) = 1}
           removed == subsumed \cup {d \in longer : S!Cardinality(d) = 2}
           vs == UNION ({S!VarsOf(d) : d \in removed} \cup {S!VarsOf(d \ Shorter(d)) : d \in longer})
<1>1. /\ db' = (db \ (subsumed \cup longer)) \cup added
      /\ queue' = (queue \ ({c} \cup subsumed \cup longer)) \cup added
      /\ heap' = heap \cup S!Requeued(vs)
      /\ trail' = S!Propagated(db' \cup learnts, trail \cup units)
      /\ ok' = (\A l \in trail' : -l \notin trail')
      /\ step' = IF ok' THEN "subsume" ELSE "unsat"
      /\ UNCHANGED <<learnts, elim, elimclauses, model, conflict>>
  <2>1. /\ db' = (db \ (subsumed \cup longer)) \cup added
        /\ queue' = (queue \ ({c} \cup subsumed \cup longer)) \cup added
    BY DEF S!Backward, ShorterBy
  <2>2. heap' = heap \cup S!Requeued(vs)
    BY DEF S!Backward, ShorterBy
  <2>3. S!Enqueue(db' \cup learnts, units)
    BY DEF S!Backward, ShorterBy
  <2>4. /\ trail' = S!Propagated(db' \cup learnts, trail \cup units)
        /\ ok' = (\A l \in trail' : -l \notin trail')
    BY <2>3 DEF S!Enqueue
  <2>5. /\ step' = IF ok' THEN "subsume" ELSE "unsat"
        /\ UNCHANGED <<learnts, elim, elimclauses, model, conflict>>
    BY DEF S!Backward, S!resultVars
  <2>6. QED
    BY <2>1, <2>2, <2>4, <2>5
<1>2. /\ db \in SUBSET SUBSET SolverLit /\ \A d \in db : Long(d) /\ ~S!Tautology(d)
      /\ learnts \in SUBSET SUBSET SolverLit /\ trail \in SUBSET SolverLit /\ queue \subseteq db
      /\ heap \in SUBSET S!Var
  BY DEF SolverInv, SolverTypes
<1>3. /\ ok /\ Given' = Given /\ elimclauses' = elimclauses /\ S!eliminated' = S!eliminated
      /\ UNCHANGED <<cnfVars, fileVars, encoded, elimclauses>>
  BY <1>1, GivenSame DEF CallInv, callerVars, S!eliminated
<1>4. \A d \in db : S!VarsOf(d) \cap S!eliminated = {}
  BY <1>3 DEF SolverInv, Reversible, Old
<1>5. c \in SUBSET SolverLit /\ ~S!Tautology(c)
  <2>1. CASE c \in queue
    BY <2>1, <1>2
  <2>2. CASE \E l \in trail : c = {l}
    BY <2>2, <1>2, LiteralFacts DEF S!Tautology
  <2>3. QED
    BY <2>1, <2>2
<1>6. \A a \in S!ModelsOf(Given) : S!Satisfies(a, c)
  <2>1. CASE c \in queue
    BY <2>1, <1>2 DEF SolverInv, Sound
  <2>2. CASE \E l \in trail : c = {l}
    BY <2>2, UnitTrue DEF SolverInv, Sound
  <2>3. QED
    BY <2>1, <2>2
<1>7. ASSUME NEW d \in longer
      PROVE  /\ d \in db /\ Shorter(d) \subseteq d /\ Shorter(d) # {}
             /\ Shorter(d) \in SUBSET SolverLit /\ ~S!Tautology(Shorter(d))
             /\ S!VarsOf(Shorter(d)) \cap S!eliminated = {}
             /\ \A a : S!Satisfies(a, c) /\ S!Satisfies(a, d) => S!Satisfies(a, Shorter(d))
  <2>1. d \in db /\ d \in SUBSET SolverLit /\ Long(d) /\ ~S!Tautology(d)
    BY <1>2
  <2>2. /\ Shorter(d) \subseteq d /\ Shorter(d) # {}
        /\ \A a : S!Satisfies(a, c) /\ S!Satisfies(a, d) => S!Satisfies(a, Shorter(d))
    BY <2>1, <1>5, ShorterFacts
  <2>3. ~S!Tautology(Shorter(d))
    BY <2>1, <2>2 DEF S!Tautology
  <2>4. S!VarsOf(Shorter(d)) \cap S!eliminated = {}
    BY <2>1, <2>2, <1>4 DEF S!VarsOf
  <2>5. QED
    BY <2>1, <2>2, <2>3, <2>4
<1> HIDE DEF Shorter
<1>8. ASSUME NEW s \in added
      PROVE  /\ s \in SUBSET SolverLit /\ Long(s) /\ ~S!Tautology(s)
             /\ S!VarsOf(s) \cap S!eliminated = {} /\ s \subseteq UNION db
             /\ \A a \in S!ModelsOf(Given) : S!Satisfies(a, s)
  <2>1. PICK d \in longer : s = Shorter(d)
    OBVIOUS
  <2>2. s \in SUBSET SolverLit /\ S!Cardinality(s) > 1
    BY <2>1, <1>7
  <2>3. Long(s)
    BY <2>2, ClauseSize
  <2>4. \A a \in S!ModelsOf(Given) : S!Satisfies(a, s)
    BY <2>1, <1>6, <1>7 DEF SolverInv, Sound
  <2>5. QED
    BY <2>1, <2>2, <2>3, <2>4, <1>7
<1>9. ASSUME NEW l \in units
      PROVE  /\ l \in SolverLit /\ l \in UNION db
             /\ \A a \in S!ModelsOf(Given) : S!LitTrue(a, l)
  <2>1. PICK d \in longer : S!Cardinality(Shorter(d)) = 1 /\ l \in Shorter(d)
    OBVIOUS
  <2>2. Shorter(d) = {l} /\ l \in SolverLit
    <3>1. \E k : Shorter(d) = {k}
      BY <2>1, <1>7, ClauseSize
    <3>2. QED
      BY <2>1, <3>1, <1>7
  <2>3. \A a \in S!ModelsOf(Given) : S!Satisfies(a, Shorter(d))
    BY <1>6, <1>7 DEF SolverInv, Sound
  <2>4. QED
    BY <2>1, <2>2, <2>3, <1>7, UnitTrue
<1>10. db' \in SUBSET SUBSET SolverLit /\ \A d \in db' : Long(d) /\ ~S!Tautology(d)
  BY <1>1, <1>2, <1>8
<1>11. units \in SUBSET SolverLit
  BY <1>9
<1> DEFINE cls == db' \cup learnts
           lits == trail \cup units
<1>12. /\ trail' \in SUBSET SolverLit /\ lits \subseteq trail'
       /\ trail' \subseteq lits \cup UNION cls
       /\ ok' \in BOOLEAN
       /\ \A a : (\A d \in cls : S!Satisfies(a, d)) /\ (\A l \in lits : S!LitTrue(a, l))
                    => ok' /\ \A l \in trail' : S!LitTrue(a, l)
  <2>1. cls \in SUBSET SUBSET SolverLit /\ lits \in SUBSET SolverLit
    BY <1>2, <1>10, <1>11
  <2>2. trail' = S!Propagated(cls, lits)
    BY <1>1
  <2> HIDE DEF cls, lits
  <2>3. Follows(cls, lits, trail')
    BY ONLY <2>1, <2>2, EnqueueFacts
  <2>4. ok' = (\A l \in trail' : -l \notin trail')
    BY <1>1
  <2>5. QED
    BY ONLY <2>3, <2>4 DEF Follows
<1>13. SolverTypes'
  <2>1. heap' \in SUBSET S!Var
    <3>1. removed \subseteq SUBSET SolverLit /\ longer \subseteq SUBSET SolverLit
      BY <1>2
    <3>2. vs \in SUBSET S!Var
      BY <3>1, VarsType
    <3>3. QED
      BY <3>2, <1>1, <1>2 DEF S!Requeued
  <2>2. queue' \subseteq db'
    BY <1>1, <1>2
  <2>3. QED
    BY <2>1, <2>2, <1>1, <1>2, <1>3, <1>10, <1>12 DEF SolverInv, SolverTypes
<1>14. OnlyPositiveControls'
  <2>1. UNION db' \subseteq UNION db
    BY <1>1, <1>8
  <2>2. UNION S!Facts' \subseteq UNION S!Facts
    BY <2>1, <1>1, <1>9, <1>12, FactsUnion
  <2>3. QED
    BY <2>2 DEF SolverInv, OnlyPositiveControls
<1>15. Sound'
  <2>1. ASSUME NEW a \in S!ModelsOf(Given)
        PROVE  /\ \A d \in db' \cup learnts : S!Satisfies(a, d)
               /\ \A l \in trail' : S!LitTrue(a, l)
               /\ ok'
    <3>1. \A d \in cls : S!Satisfies(a, d)
      BY <1>1, <1>8 DEF SolverInv, Sound
    <3>2. \A l \in lits : S!LitTrue(a, l)
      BY <1>9 DEF SolverInv, Sound
    <3>3. QED
      BY <3>1, <3>2, <1>12
  <2>2. S!ModelsOf(Given)' = S!ModelsOf(Given)
    BY <1>3 DEF S!ModelsOf
  <2>3. QED
    BY <2>1, <2>2, <1>1 DEF Sound
<1>16. Reversible'
  <2>1. S!ModelsOf(Core)' \subseteq S!ModelsOf(Core)
    <3>1. SUFFICES ASSUME NEW a \in S!ModelsOf(Core') PROVE a \in S!ModelsOf(Core)
      BY DEF S!ModelsOf
    <3>2. a \in SUBSET S!Var /\ \A d \in Core' : S!Satisfies(a, d)
      BY DEF S!ModelsOf
    <3>3. /\ \A d \in db' : d \in Core'
          /\ \A l \in trail' : S!VarOf(l) \notin S!eliminated => {l} \in Core'
      BY <1>3 DEF Core, Units
    <3>4. ASSUME NEW d \in db PROVE S!Satisfies(a, d)
      <4>1. CASE d \in db'
        BY <4>1, <3>2, <3>3
      <4>2. CASE d \in subsumed
        <5>1. S!Satisfies(a, c)
          <6>1. CASE c \in queue
            <7>1. c \in db'
              BY <6>1, <1>1, <1>2
            <7>2. QED
              BY <7>1, <3>2, <3>3
          <6>2. CASE \E l \in trail : c = {l}
            <7>1. PICK l \in trail : c = {l}
              BY <6>2
            <7>2. S!VarOf(l) \notin S!eliminated
              BY <7>1, <4>2, <1>4 DEF S!VarsOf
            <7>3. {l} \in Core'
              BY <7>2, <3>3, <1>12
            <7>4. QED
              BY <7>1, <7>3, <3>2
          <6>3. QED
            BY <6>1, <6>2
        <5>2. QED
          BY <5>1, <4>2 DEF S!Satisfies
      <4>3. CASE d \in longer
        <5>1. S!Satisfies(a, Shorter(d))
          <6>1. CASE S!Cardinality(Shorter(d)) > 1
            <7>1. Shorter(d) \in db'
              BY <6>1, <4>3, <1>1
            <7>2. QED
              BY <7>1, <3>2, <3>3
          <6>2. CASE S!Cardinality(Shorter(d)) = 1
            <7>1. PICK l : Shorter(d) = {l}
              BY <6>2, <4>3, <1>7, ClauseSize
            <7>2. l \in units
              BY <7>1, <6>2, <4>3
            <7>3. S!VarOf(l) \notin S!eliminated
              BY <7>1, <4>3, <1>7 DEF S!VarsOf
            <7>4. {l} \in Core'
              BY <7>2, <7>3, <3>3, <1>12
            <7>5. QED
              BY <7>1, <7>4, <3>2
          <6>3. S!Cardinality(Shorter(d)) > 1 \/ S!Cardinality(Shorter(d)) = 1
            <7>1. Shorter(d) \in SUBSET SolverLit /\ Shorter(d) # {}
              BY <4>3, <1>7
            <7>2. QED
              BY <7>1, ClauseSize DEF Long
          <6>4. QED
            BY <6>1, <6>2, <6>3
        <5>2. QED
          BY <5>1, <4>3, <1>7 DEF S!Satisfies
      <4>4. QED
        BY <4>1, <4>2, <4>3, <1>1
    <3>5. ASSUME NEW l \in trail, S!VarOf(l) \notin S!eliminated PROVE S!Satisfies(a, {l})
      BY <3>5, <3>2, <3>3, <1>12
    <3>6. QED
      BY <3>2, <3>4, <3>5 DEF Core, Units, S!ModelsOf
  <2>2. \A a \in S!ModelsOf(Core)' : S!Extended(a)' \in S!ModelsOf(Given)'
    BY <2>1, <1>3, StrongerCore DEF SolverInv
  <2>3. \A d \in db' : S!VarsOf(d) \cap S!eliminated = {}
    BY <1>1, <1>4, <1>8
  <2>4. Old' = {}
    BY <1>1 DEF Old
  <2>5. QED
    BY <2>2, <2>3, <2>4, <1>3 DEF Reversible
<1>17. Resolving' /\ AnswerKnown'
  BY <1>1 DEF Resolving, AnswerKnown
<1>18. ContradictionSeen'
  BY NoContradiction DEF SolverInv
<1>19. QED
  BY <1>1, <1>13, <1>14, <1>15, <1>16, <1>17, <1>18 DEF SolverInv

LEMMA SubsumeStep ==
    ASSUME SolverInv, CallInv, UNCHANGED callerVars, S!Subsume
    PROVE  SolverInv' /\ CallInv'
<1>1. step = "subsume"
  BY DEF S!Subsume
<1>2. PICK c : (c \in queue \/ \E l \in trail : c = {l}) /\ S!Backward(c)
  <2>1. CASE \E c \in queue : S!Backward(c)
    BY <2>1
  <2>2. CASE \E l \in trail \ swept : S!Backward({l})
    BY <2>2
  <2>3. QED
    BY <2>1, <2>2 DEF S!Subsume
<1>3. SolverInv' /\ step' \in {"subsume", "unsat"} /\ (step' # "unsat" => ok')
  BY <1>1, <1>2, BackwardStep
<1>4. CallInv'
  BY <1>1, <1>3, CallGoesOn
<1>5. QED
  BY <1>3, <1>4

---------------------------------------------------------------------------
(* addClause: what follows is kept, what is added makes the clause true.   *)
AddedTypes(c) ==
    /\ db \subseteq db' /\ queue' \subseteq db' /\ trail \subseteq trail'
    /\ trail' \in SUBSET SolverLit /\ ok' \in BOOLEAN
    /\ \A d \in db' \ db : d \subseteq c /\ Long(d) /\ ~S!Tautology(d)
    /\ trail' \subseteq trail \cup (UNION db) \cup (UNION learnts) \cup c

FitsAll(a) ==
    /\ \A d \in db \cup learnts : S!Satisfies(a, d)
    /\ \A l \in trail : S!LitTrue(a, l)

AddedFollows(c) == \A a : ok /\ FitsAll(a) /\ S!Satisfies(a, c) /\ learnts' = learnts
                                => ok' /\ FitsAll(a)'

AddedEnough(c) ==
    ok' => S!Tautology(c) \/ (\E l \in c : l \in trail') \/ (\E d \in db' : d \subseteq c)

Added(c) ==
    /\ AddedTypes(c) /\ AddedFollows(c) /\ AddedEnough(c)
    /\ ok' /\ (\A l \in trail : -l \notin trail) => \A l \in trail' : -l \notin trail'
    /\ ok' => ok \/ \A l \in trail' : -l \notin trail'

LEMMA AddClauseFacts ==
    ASSUME SolverTypes, NEW c \in SUBSET SolverLit, S!AddClause(c)
    PROVE  Added(c)
<1> DEFINE rest == {l \in c : -l \notin trail}
<1>1. /\ db \in SUBSET SUBSET SolverLit /\ learnts \in SUBSET SUBSET SolverLit
      /\ trail \in SUBSET SolverLit /\ queue \subseteq db /\ ok \in BOOLEAN
  BY DEF SolverTypes
<1>2. CASE (\E l \in c : l \in trail \/ -l \in c) /\ UNCHANGED <<ok, db, trail, queue>>
  <2>1. S!Tautology(c) \/ \E l \in c : l \in trail'
    BY <1>2 DEF S!Tautology
  <2>2. AddedTypes(c) /\ AddedFollows(c)
    BY <1>1, <1>2 DEF AddedTypes, AddedFollows, FitsAll
  <2>3. AddedEnough(c)
    BY <2>1 DEF AddedEnough
  <2>4. QED
    BY <1>2, <2>2, <2>3 DEF Added
<1>3. CASE /\ \A l \in c : l \notin trail /\ -l \notin c
           /\ IF rest = {} THEN ok' = FALSE /\ UNCHANGED trail
              ELSE IF S!Cardinality(rest) = 1 THEN S!Enqueue(db \cup learnts, rest)
              ELSE UNCHANGED <<ok, trail>>
           /\ IF S!Cardinality(rest) > 1 THEN db' = db \cup {rest} /\ queue' = queue \cup {rest}
              ELSE UNCHANGED <<db, queue>>
  <2>1. rest \in SUBSET SolverLit /\ rest \subseteq c /\ ~S!Tautology(rest)
    BY <1>3 DEF S!Tautology
  <2>2. ASSUME NEW a, \A l \in trail : S!LitTrue(a, l), S!Satisfies(a, c)
        PROVE  S!Satisfies(a, rest)
    <3>1. PICK l \in c : S!LitTrue(a, l)
      BY <2>2 DEF S!Satisfies
    <3>2. ~S!LitTrue(a, -l)
      BY <3>1, LiteralFacts
    <3>3. l \in rest
      BY <3>2, <2>2
    <3>4. QED
      BY <3>1, <3>3 DEF S!Satisfies
  <2>3. /\ S!Cardinality(rest) \in Nat
        /\ S!Cardinality(rest) = 1 <=> \E l : rest = {l}
        /\ S!Cardinality(rest) > 1 <=> Long(rest)
    BY <2>1, ClauseSize
  <2> HIDE DEF rest
  <2>4. CASE rest = {}
    <3>1. ok' = FALSE /\ trail' = trail /\ db' = db /\ queue' = queue
      BY <2>4, <2>3, <1>3 DEF Long
    <3>2. \A a : (\A l \in trail : S!LitTrue(a, l)) => ~S!Satisfies(a, c)
      BY <2>2, <2>4 DEF S!Satisfies
    <3>3. AddedTypes(c)
      BY <3>1, <1>1 DEF AddedTypes
    <3>4. AddedFollows(c)
      BY <3>2 DEF AddedFollows, FitsAll
    <3>5. AddedEnough(c)
      BY <3>1 DEF AddedEnough
    <3>6. QED
      BY <3>1, <3>3, <3>4, <3>5 DEF Added
  <2>5. CASE \E l : rest = {l}
    <3>1. PICK k : rest = {k}
      BY <2>5
    <3>2. S!Enqueue(db \cup learnts, rest) /\ db' = db /\ queue' = queue /\ k \in c
      <4>1. S!Cardinality(rest) = 1 /\ ~(S!Cardinality(rest) > 1) /\ rest # {}
        BY <2>3, <2>5, <3>1
      <4>2. QED
        BY <4>1, <1>3, <2>1, <3>1
    <3>3. /\ trail' = S!Propagated(db \cup learnts, trail \cup rest)
          /\ ok' = (\A l \in trail' : -l \notin trail')
      BY <3>2 DEF S!Enqueue
    <3>4. Follows(db \cup learnts, trail \cup rest, trail')
      <4> DEFINE cls == db \cup learnts
                 lits == trail \cup rest
      <4>1. cls \in SUBSET SUBSET SolverLit /\ lits \in SUBSET SolverLit
        BY <1>1, <2>1
      <4>2. trail' = S!Propagated(cls, lits)
        BY <3>3
      <4> HIDE DEF cls, lits
      <4>3. Follows(cls, lits, trail')
        BY ONLY <4>1, <4>2, EnqueueFacts
      <4>4. QED
        BY <4>3 DEF cls, lits
    <3>5. /\ trail' \in SUBSET SolverLit /\ trail \subseteq trail' /\ k \in trail'
          /\ trail' \subseteq trail \cup (UNION db) \cup (UNION learnts) \cup c
          /\ \A a : (\A d \in db \cup learnts : S!Satisfies(a, d))
                        /\ (\A l \in trail \cup rest : S!LitTrue(a, l))
                        => \A l \in trail' : S!LitTrue(a, l) /\ -l \notin trail'
      BY <3>4, <3>1, <2>1 DEF Follows
    <3>6. ASSUME NEW a, \A d \in db \cup learnts : S!Satisfies(a, d),
                 \A l \in trail : S!LitTrue(a, l), S!Satisfies(a, c)
          PROVE  ok' /\ \A l \in trail' : S!LitTrue(a, l)
      <4>1. S!LitTrue(a, k)
        BY <2>2, <3>6, <3>1, UnitTrue
      <4>2. \A l \in trail' : S!LitTrue(a, l) /\ -l \notin trail'
        BY <4>1, <3>1, <3>5, <3>6
      <4>3. QED
        BY <4>2, <3>3
    <3>7. ok' \in BOOLEAN
      BY <3>3
    <3>8. AddedTypes(c)
      BY <3>2, <3>5, <3>7, <1>1 DEF AddedTypes
    <3>9. AddedFollows(c)
      BY <3>2, <3>6 DEF AddedFollows, FitsAll
    <3>10. AddedEnough(c)
      BY <3>2, <3>5 DEF AddedEnough
    <3>11. QED
      BY <3>3, <3>8, <3>9, <3>10 DEF Added
  <2>6. CASE Long(rest)
    <3>1. ok' = ok /\ trail' = trail /\ db' = db \cup {rest} /\ queue' = queue \cup {rest}
      <4>1. S!Cardinality(rest) > 1 /\ S!Cardinality(rest) # 1 /\ rest # {}
        BY <2>6, <2>3 DEF Long
      <4>2. QED
        BY <4>1, <1>3
    <3>2. AddedTypes(c)
      BY <3>1, <2>1, <2>6, <1>1 DEF AddedTypes
    <3>3. AddedFollows(c)
      BY <3>1, <2>2 DEF AddedFollows, FitsAll
    <3>4. AddedEnough(c)
      BY <3>1, <2>1 DEF AddedEnough
    <3>5. QED
      BY <3>1, <3>2, <3>3, <3>4, <1>1 DEF Added
  <2>7. rest = {} \/ (\E l : rest = {l}) \/ Long(rest)
    BY DEF Long
  <2>8. QED
    BY <2>4, <2>5, <2>6, <2>7
<1>4. QED
  BY <1>2, <1>3 DEF S!AddClause


---------------------------------------------------------------------------
(* Steps that touch neither the clauses nor what is stored.                *)
LEMMA QuietSteps ==
    ASSUME SolverInv, CallInv, UNCHANGED callerVars,
           S!Gather \/ S!Simplified \/ S!SubsumeEnds \/ S!KeepVar \/ S!HeapEmpty
    PROVE  SolverInv' /\ CallInv'
<1>1. queue \subseteq db /\ heap \in SUBSET S!Var /\ ok \in BOOLEAN
  BY DEF SolverInv, SolverTypes
<1>2. /\ UNCHANGED <<ok, db, learnts, trail, elimclauses, elim, model, conflict>>
      /\ queue' \subseteq db /\ heap' \in SUBSET S!Var
      /\ step \in {"gather", "subsume", "eliminate"}
      /\ step' \in {"gather", "subsume", "eliminate", "search"}
  <2>1. CASE S!Gather
    BY <2>1, <1>1 DEF S!Gather, S!dbVars, S!resultVars
  <2>2. CASE S!Simplified
    BY <2>2, <1>1 DEF S!Simplified, S!dbVars, S!workVars, S!resultVars
  <2>3. CASE S!SubsumeEnds
    BY <2>3, <1>1 DEF S!SubsumeEnds, S!dbVars, S!workVars, S!resultVars
  <2>4. CASE S!KeepVar
    BY <2>4, <1>1 DEF S!KeepVar, S!dbVars, S!resultVars, S!Popped
  <2>5. CASE S!HeapEmpty
    BY <2>5, <1>1 DEF S!HeapEmpty, S!dbVars, S!workVars, S!resultVars
  <2>6. QED
    BY <2>1, <2>2, <2>3, <2>4, <2>5
<1>3. SolverInv'
  BY <1>2, QuietStep
<1>4. CallInv'
  BY <1>2, CallGoesOn DEF CallInv
<1>5. QED
  BY <1>3, <1>4

---------------------------------------------------------------------------
(* A variable is eliminated.                                               *)
LEMMA EliminatedAppend ==
    ASSUME NEW es \in Seq(Entry), NEW e \in Entry
    PROVE  {d.var : d \in S!ToSet(Append(es, e))} = {d.var : d \in S!ToSet(es)} \cup {e.var}
<1>1. /\ DOMAIN Append(es, e) = 1..Len(es) + 1 /\ DOMAIN es = 1..Len(es) /\ Len(es) \in Nat
      /\ \A i \in 1..Len(es) : Append(es, e)[i] = es[i]
      /\ Append(es, e)[Len(es) + 1] = e
  OBVIOUS
<1>2. S!ToSet(Append(es, e)) = S!ToSet(es) \cup {e}
  BY <1>1 DEF S!ToSet
<1>3. QED
  BY <1>2

LEMMA StoredFacts ==
    ASSUME NEW v \in S!Var, SolverTypes
    PROVE  LET e == S!Stored(v) IN
           /\ e \in Entry /\ e.var = v
           /\ (e.default = v /\ -e.default = -v) \/ (e.default = -v /\ -e.default = v)
           /\ e.clauses = {c \in db : -e.default \in c}
<1>1. v \in Int /\ -v \in Int /\ -(-v) = v
  BY SizesAssumption DEF S!Var
<1>2. \A l : S!With(l) \in SUBSET SUBSET SolverLit
  BY DEF S!With, SolverTypes
<1>3. CASE S!Cardinality(S!With(v)) > S!Cardinality(S!With(-v))
  <2>1. S!Stored(v) = [var |-> v, default |-> v, clauses |-> S!With(-v)]
    BY <1>3 DEF S!Stored
  <2>2. S!Stored(v) \in Entry
    BY <2>1, <1>1, <1>2 DEF Entry
  <2>3. QED
    BY <2>1, <2>2 DEF S!With
<1>4. CASE ~(S!Cardinality(S!With(v)) > S!Cardinality(S!With(-v)))
  <2>1. S!Stored(v) = [var |-> v, default |-> -v, clauses |-> S!With(v)]
    BY <1>4 DEF S!Stored
  <2>2. S!Stored(v) \in Entry
    BY <2>1, <1>1, <1>2 DEF Entry
  <2>3. QED
    BY <2>1, <2>2, <1>1 DEF S!With
<1>5. QED
  BY <1>3, <1>4

(* A resolvent follows from the two clauses it is made of.                 *)
LEMMA MergedFollows ==
    ASSUME NEW v \in SolverLit, NEW c \in SUBSET SolverLit, NEW d \in SUBSET SolverLit,
           ~S!Tautology(c), ~S!Tautology(d), v \in c, -v \in d
    PROVE  LET m == S!Merged(v, <<c, d>>) IN
           /\ m \in SUBSET SolverLit /\ v \notin m /\ -v \notin m /\ m \subseteq c \cup d
           /\ \A a : S!Satisfies(a, c) /\ S!Satisfies(a, d) => S!Satisfies(a, m)
<1>1. S!Merged(v, <<c, d>>) = (c \ {v}) \cup (d \ {-v})
  BY DEF S!Merged
<1>2. -(-v) = v /\ v # -v /\ -v \notin c /\ v \notin d
  BY LiteralFacts DEF S!Tautology
<1>3. ASSUME NEW a, S!Satisfies(a, c), S!Satisfies(a, d)
      PROVE  S!Satisfies(a, (c \ {v}) \cup (d \ {-v}))
  <2>1. PICK k \in c : S!LitTrue(a, k)
    BY <1>3 DEF S!Satisfies
  <2>2. PICK l \in d : S!LitTrue(a, l)
    BY <1>3 DEF S!Satisfies
  <2>3. k # v \/ l # -v
    BY <2>1, <2>2, LiteralFacts
  <2>4. QED
    BY <2>1, <2>2, <2>3 DEF S!Satisfies
<1>4. QED
  BY <1>1, <1>2, <1>3

LEMMA EliminateStep ==
    ASSUME SolverInv, CallInv, UNCHANGED callerVars, S!EliminateVar
    PROVE  SolverInv' /\ CallInv'
<1>1. PICK v \in S!Cheapest : /\ S!Eliminable(v) /\ heap' = S!Popped(v)
                              /\ elimclauses' = Append(elimclauses, S!Stored(v))
                              /\ elim' = [var |-> v, old |-> S!With(v) \cup S!With(-v),
                                    resolvents |-> {S!Merged(v, pair) : pair \in S!Pairs(v)}]
  BY DEF S!EliminateVar
<1>2. /\ step = "eliminate" /\ step' = "resolve"
      /\ UNCHANGED <<ok, db, learnts, trail, queue, model, conflict>>
  BY DEF S!EliminateVar, S!dbVars, S!resultVars
<1>3. /\ db \in SUBSET SUBSET SolverLit /\ \A d \in db : Long(d) /\ ~S!Tautology(d)
      /\ trail \in SUBSET SolverLit /\ queue \subseteq db /\ heap \in SUBSET S!Var
      /\ elimclauses \in Seq(Entry) /\ S!eliminated \cap Controls = {} /\ SolverTypes
  BY DEF SolverInv, SolverTypes, Entry
<1>4. /\ v \in S!Var /\ v \notin S!eliminated /\ v \notin S!VarsOf(trail) /\ v \notin Controls
      /\ v \in SolverLit /\ -v \in SolverLit /\ -(-v) = v
      /\ S!VarOf(v) = v /\ S!VarOf(-v) = v
      /\ \A l \in SolverLit : S!VarOf(l) = v => l = v \/ l = -v
  <2>1. v \in S!Var
    BY <1>3 DEF S!Cheapest
  <2>2. v \in SolverLit /\ -v \in SolverLit /\ -(-v) = v /\ S!VarOf(v) = v /\ S!VarOf(-v) = v
    BY <2>1, SizesAssumption DEF SolverLit, S!Var, S!VarOf
  <2>3. v \notin S!eliminated /\ v \notin S!VarsOf(trail) /\ v \notin Controls
    BY <1>1, <1>2 DEF S!Eliminable, S!Assigned, CallInv
  <2>4. QED
    BY <2>1, <2>2, <2>3, SameVar
<1> DEFINE e == S!Stored(v)
<1>5. /\ e \in Entry /\ e.var = v /\ e.default \in {e.var, -e.var}
      /\ (e.default = v /\ -e.default = -v) \/ (e.default = -v /\ -e.default = v)
      /\ e.clauses = {c \in db : -e.default \in c}
  BY <1>3, <1>4, StoredFacts
<1> HIDE DEF e
<1>6. /\ elimclauses' = Append(elimclauses, e) /\ elimclauses' \in Seq(Entry)
      /\ LastStored' = e /\ elimclauses' # <<>>
      /\ S!eliminated' = S!eliminated \cup {v}
  <2>1. elimclauses' = Append(elimclauses, e)
    BY <1>1 DEF e
  <2>2. S!eliminated' = S!eliminated \cup {v}
    BY <2>1, <1>3, <1>5, EliminatedAppend DEF S!eliminated
  <2>3. QED
    BY <2>1, <2>2, <1>3, <1>5 DEF LastStored
<1>7. /\ ok /\ Given' = Given /\ S!ModelsOf(Given)' = S!ModelsOf(Given)
      /\ S!Facts' = S!Facts /\ \A c : Implied(c)' <=> Implied(c)
  BY <1>2, GivenSame DEF CallInv, callerVars, S!ModelsOf, S!Facts
<1>8. \A d \in db : S!VarsOf(d) \cap S!eliminated = {}
  BY <1>2, <1>7 DEF SolverInv, Reversible, Old
<1>9. Core' = Core
  <2>1. \A k \in trail : S!VarOf(k) # v
    BY <1>4 DEF S!VarsOf
  <2>2. Units' = Units
    BY <2>1, <1>2, <1>6 DEF Units
  <2>3. QED
    BY <2>2, <1>2 DEF Core
<1>10. SolverTypes'
  <2>1. S!eliminated' \cap Controls' = {}
    BY <1>3, <1>4, <1>6 DEF Controls, Control
  <2>2. heap' \in SUBSET S!Var
    BY <1>1, <1>3 DEF S!Popped
  <2>3. elim' \in [var : Nat, old : SUBSET SUBSET SolverLit, resolvents : SUBSET SUBSET SolverLit]
    <3>1. v \in Nat
      BY <1>4, SizesAssumption DEF S!Var
    <3>2. S!With(v) \cup S!With(-v) \in SUBSET SUBSET SolverLit
      BY <1>3 DEF S!With
    <3>3. \A pair \in S!Pairs(v) : S!Merged(v, pair) \in SUBSET SolverLit
      BY <1>3 DEF S!Merged, S!Pairs, S!With
    <3>4. QED
      BY <3>1, <3>2, <3>3, <1>1
  <2>4. QED
    BY <2>1, <2>2, <2>3, <1>2, <1>3, <1>6 DEF SolverTypes, Entry
<1>11. OnlyPositiveControls' /\ Sound'
  BY <1>2, <1>7 DEF SolverInv, OnlyPositiveControls, Sound
<1>12. Reversible'
  <2>1. ASSUME NEW a \in S!ModelsOf(Core)
        PROVE  S!Extended(a)' \in S!ModelsOf(Given)
    <3>1. Core \in SUBSET SUBSET SolverLit /\ \A c \in Core : ~S!Tautology(c)
      <4>1. \A k \in trail : ~S!Tautology({k})
        BY <1>3, LiteralFacts DEF S!Tautology
      <4>2. QED
        BY <4>1, <1>3 DEF Core, Units
    <3>2. e.clauses = {c \in Core : -e.default \in c}
      <4>1. \A c \in Units : -e.default \notin c
        BY <1>4, <1>5 DEF Units, S!VarsOf
      <4>2. QED
        BY <4>1, <1>5 DEF Core
    <3>3. S!Rebuilt(e, a) \in S!ModelsOf(Core)
      BY <3>1, <3>2, <1>5, RebuiltKeepsModels
    <3>4. S!Extended(S!Rebuilt(e, a)) \in S!ModelsOf(Given)
      BY <3>3, <1>7 DEF SolverInv, Reversible
    <3>5. a \in SUBSET S!Var
      BY DEF S!ModelsOf
    <3>6. S!Extended(a)' = ExtendedBy(Append(elimclauses, e), a)
      BY <1>6 DEF S!Extended, ExtendedBy
    <3>7. S!Extended(S!Rebuilt(e, a)) = ExtendedBy(elimclauses, S!Rebuilt(e, a))
      BY ExtendedSame
    <3>8. QED
      BY <3>4, <3>5, <3>6, <3>7, <1>3, <1>5, ExtendedByAppend
  <2>2. ASSUME NEW c \in db \ (S!With(v) \cup S!With(-v))
        PROVE  S!VarsOf(c) \cap S!eliminated' = {}
    <3>1. \A l \in c : S!VarOf(l) # v
      BY <1>3, <1>4 DEF S!With
    <3>2. QED
      BY <3>1, <1>6, <1>8 DEF S!VarsOf
  <2>3. Old' = S!With(v) \cup S!With(-v)
    BY <1>1, <1>2 DEF Old
  <2>4. S!ModelsOf(Core)' = S!ModelsOf(Core)
    BY <1>9 DEF S!ModelsOf
  <2>5. QED
    BY <2>1, <2>2, <2>3, <2>4, <1>2, <1>7 DEF Reversible
<1>13. Resolving'
  <2>1. ASSUME NEW pair \in S!Pairs(v)
        PROVE  LET r == S!Merged(v, pair) IN
               /\ r \in SUBSET SolverLit /\ ~S!Tautology(r) /\ Implied(r)
               /\ S!VarsOf(r) \cap S!eliminated' = {}
               /\ \A c \in Constraint : -Control(c) \notin r
    <3> DEFINE r == S!Merged(v, pair)
    <3>1. PICK c \in S!With(v), d \in S!With(-v) : pair = <<c, d>>
      BY DEF S!Pairs
    <3>2. c \in db /\ d \in db /\ v \in c /\ -v \in d
      BY DEF S!With
    <3>3. /\ r \in SUBSET SolverLit /\ v \notin r /\ -v \notin r /\ r \subseteq c \cup d
          /\ \A a : S!Satisfies(a, c) /\ S!Satisfies(a, d) => S!Satisfies(a, r)
      BY <3>1, <3>2, <1>3, <1>4, MergedFollows
    <3>4. ~S!Tautology(r)
      BY DEF S!Pairs
    <3> HIDE DEF r
    <3>5. Implied(r)
      BY <3>2, <3>3 DEF SolverInv, Sound, Implied
    <3>6. S!VarsOf(r) \cap S!eliminated' = {}
      <4>1. \A l \in r : S!VarOf(l) # v
        BY <3>3, <1>4
      <4>2. QED
        BY <4>1, <3>2, <3>3, <1>6, <1>8 DEF S!VarsOf
    <3>7. \A k \in Constraint : -Control(k) \notin r
      BY <3>2, <3>3 DEF SolverInv, OnlyPositiveControls, S!Facts
    <3>8. QED
      BY <3>3, <3>4, <3>5, <3>6, <3>7 DEF r
  <2>2. ASSUME NEW c \in elim'.old, NEW d \in elim'.old, -e.default \in c, e.default \in d
        PROVE  S!Tautology(MergedAt(e.default, c, d)) \/ MergedAt(e.default, c, d) \in elim'.resolvents
    <3>1. c \in db /\ d \in db
      BY <1>1 DEF S!With
    <3>2. CASE e.default = v /\ -e.default = -v
      <4>1. <<d, c>> \in S!With(v) \X S!With(-v)
        BY <3>1, <3>2, <2>2 DEF S!With
      <4>2. MergedAt(e.default, c, d) = S!Merged(v, <<d, c>>)
        BY <3>2 DEF MergedAt, S!Merged
      <4>3. QED
        BY <4>1, <4>2, <1>1 DEF S!Pairs
    <3>3. CASE e.default = -v /\ -e.default = v
      <4>1. <<c, d>> \in S!With(v) \X S!With(-v)
        BY <3>1, <3>3, <2>2 DEF S!With
      <4>2. MergedAt(e.default, c, d) = S!Merged(v, <<c, d>>)
        BY <3>3 DEF MergedAt, S!Merged
      <4>3. QED
        BY <4>1, <4>2, <1>1 DEF S!Pairs
    <3>4. QED
      BY <3>2, <3>3, <1>5
  <2>3. elim'.var = v /\ elim'.old = S!With(v) \cup S!With(-v)
        /\ elim'.resolvents = {S!Merged(v, pair) : pair \in S!Pairs(v)}
    BY <1>1
  <2>4. elim'.old \subseteq db' /\ \A c \in elim'.old : v \in c \/ -v \in c
    BY <2>3, <1>2 DEF S!With
  <2>5. e.clauses = {c \in elim'.old : -e.default \in c}
    BY <2>3, <1>5 DEF S!With
  <2>6. ASSUME NEW r \in elim'.resolvents
        PROVE  /\ r \in SUBSET SolverLit /\ ~S!Tautology(r) /\ Implied(r)'
               /\ S!VarsOf(r) \cap S!eliminated' = {}
               /\ \A c \in Constraint : -Control(c) \notin r
    BY <2>1, <2>3, <1>7
  <2>7. QED
    BY <2>2, <2>3, <2>4, <2>5, <2>6, <1>2, <1>5, <1>6 DEF Resolving
<1>14. AnswerKnown'
  BY <1>2 DEF AnswerKnown
<1>15. ContradictionSeen'
  BY <1>2, NoContradiction DEF SolverInv
<1>16. SolverInv'
  BY <1>10, <1>11, <1>12, <1>13, <1>14, <1>15 DEF SolverInv
<1>17. CallInv'
  BY <1>2, <1>7, CallGoesOn
<1>18. QED
  BY <1>16, <1>17

---------------------------------------------------------------------------
(* A resolvent is added.                                                   *)
LEMMA LastIsEliminated ==
    ASSUME SolverTypes, elimclauses # <<>>
    PROVE  /\ LastStored \in Entry /\ LastStored.var \in S!eliminated
           /\ elimclauses \in Seq(Entry)
<1>1. elimclauses \in Seq(Entry)
  BY DEF SolverTypes, Entry
<1>2. /\ Len(elimclauses) \in 1..Len(elimclauses) /\ DOMAIN elimclauses = 1..Len(elimclauses)
      /\ elimclauses[Len(elimclauses)] \in Entry
  BY <1>1
<1>3. QED
  BY <1>1, <1>2 DEF LastStored, S!eliminated, S!ToSet

LEMMA AddResolventStep ==
    ASSUME SolverInv, CallInv, UNCHANGED callerVars, S!AddResolvent
    PROVE  SolverInv' /\ CallInv'
<1>1. PICK r \in elim.resolvents :
            S!AddClause(r) /\ elim' = [elim EXCEPT !.resolvents = @ \ {r}]
  BY DEF S!AddResolvent
<1>2. /\ step = "resolve" /\ step' = IF ok' THEN "resolve" ELSE "unsat"
      /\ UNCHANGED <<learnts, heap, elimclauses, model, conflict>>
  BY DEF S!AddResolvent, S!resultVars
<1> DEFINE e == LastStored
           old == elim.old
<1>3. /\ db \in SUBSET SUBSET SolverLit /\ \A d \in db : Long(d) /\ ~S!Tautology(d)
      /\ SolverTypes /\ ok
      /\ UNCHANGED <<cnfVars, fileVars, encoded, elimclauses>>
  BY <1>2 DEF SolverInv, SolverTypes, CallInv, callerVars
<1>4. /\ elimclauses # <<>> /\ elim.var = e.var /\ e.default \in {e.var, -e.var}
      /\ old \subseteq db /\ \A c \in old : e.var \in c \/ -e.var \in c
      /\ e.clauses = {c \in old : -e.default \in c}
  BY <1>2 DEF SolverInv, Resolving
<1>5. /\ r \in SUBSET SolverLit /\ ~S!Tautology(r) /\ Implied(r)
      /\ S!VarsOf(r) \cap S!eliminated = {}
      /\ \A c \in Constraint : -Control(c) \notin r
  BY <1>1, <1>2 DEF SolverInv, Resolving
<1>6. AddedTypes(r) /\ AddedFollows(r) /\ AddedEnough(r)
  BY <1>1, <1>3, <1>5, AddClauseFacts DEF Added
<1>7. /\ db \subseteq db' /\ queue' \subseteq db' /\ trail \subseteq trail'
      /\ trail' \in SUBSET SolverLit /\ ok' \in BOOLEAN
      /\ \A d \in db' \ db : d \subseteq r /\ Long(d) /\ ~S!Tautology(d)
      /\ trail' \subseteq trail \cup (UNION db) \cup (UNION learnts) \cup r
  BY <1>6 DEF AddedTypes
<1>8. db' \in SUBSET SUBSET SolverLit /\ \A d \in db' : Long(d) /\ ~S!Tautology(d)
  BY <1>3, <1>5, <1>7
<1>9. /\ elim'.var = elim.var /\ elim'.old = old /\ elim'.resolvents = elim.resolvents \ {r}
      /\ elim' \in [var : Nat, old : SUBSET SUBSET SolverLit,
                    resolvents : SUBSET SUBSET SolverLit]
  BY <1>1, <1>3 DEF SolverTypes
<1>10. /\ Given' = Given /\ S!ModelsOf(Given)' = S!ModelsOf(Given)
       /\ S!eliminated' = S!eliminated /\ LastStored' = e
       /\ \A c : Implied(c)' <=> Implied(c)
  BY <1>3, GivenSame DEF S!eliminated, S!ModelsOf, LastStored
<1> HIDE DEF e, old
<1>11. SolverTypes'
  <2>1. S!eliminated' \cap Controls' = {}
    BY <1>3, <1>10 DEF SolverTypes, Controls, Control
  <2>2. QED
    BY <2>1, <1>2, <1>3, <1>7, <1>8, <1>9 DEF SolverTypes
<1>12. OnlyPositiveControls'
  <2>1. UNION S!Facts' \subseteq (UNION S!Facts) \cup r
    <3>1. UNION db' \subseteq (UNION db) \cup r
      BY <1>7
    <3>2. QED
      BY <3>1, <1>2, <1>7, FactsUnion
  <2>2. QED
    BY <2>1, <1>5 DEF SolverInv, OnlyPositiveControls
<1>13. Sound'
  <2>1. ASSUME NEW a \in S!ModelsOf(Given) PROVE ok' /\ FitsAll(a)'
    <3>1. FitsAll(a) /\ S!Satisfies(a, r)
      BY <1>5 DEF SolverInv, Sound, FitsAll, Implied
    <3>2. QED
      BY <3>1, <1>2, <1>3, <1>6 DEF AddedFollows
  <2>2. QED
    BY <2>1, <1>10 DEF Sound, FitsAll
<1>14. Core \subseteq Core'
  BY <1>7, <1>10 DEF Core, Units
<1>15. Reversible'
  <2>1. S!ModelsOf(Core)' \subseteq S!ModelsOf(Core)
    BY <1>14 DEF S!ModelsOf
  <2>2. \A a \in S!ModelsOf(Core)' : S!Extended(a)' \in S!ModelsOf(Given)'
    BY <2>1, <1>3, StrongerCore DEF SolverInv
  <2>3. ASSUME ok', NEW d \in db' \ Old' PROVE S!VarsOf(d) \cap S!eliminated = {}
    <3>1. Old' = old /\ Old = old
      BY <2>3, <1>2, <1>9 DEF Old, old
    <3>2. CASE d \in db
      BY <3>1, <3>2, <2>3, <1>3 DEF SolverInv, Reversible
    <3>3. CASE d \notin db
      BY <3>3, <2>3, <1>5, <1>7 DEF S!VarsOf
    <3>4. QED
      BY <3>2, <3>3
  <2>4. QED
    BY <2>2, <2>3, <1>10 DEF Reversible
<1>16. ASSUME ok', NEW a \in S!ModelsOf(Core' \ old) PROVE S!Satisfies(a, r)
  <2>1. \A d \in Core' \ old : S!Satisfies(a, d)
    BY <1>16 DEF S!ModelsOf
  <2>2. CASE \E l \in r : l \in trail'
    <3>1. PICK l \in r : l \in trail'
      BY <2>2
    <3>2. S!VarOf(l) \notin S!eliminated
      BY <3>1, <1>5 DEF S!VarsOf
    <3>3. {l} \in Core'
      BY <3>1, <3>2, <1>10 DEF Core, Units
    <3>4. {l} \notin old
      <4>1. ~Long({l})
        BY DEF Long
      <4>2. QED
        BY <4>1, <1>3, <1>4
    <3>5. QED
      BY <3>1, <3>3, <3>4, <2>1, UnitTrue DEF S!Satisfies
  <2>3. CASE \E d \in db' : d \subseteq r
    <3>1. PICK d \in db' : d \subseteq r
      BY <2>3
    <3>2. d \notin old
      <4>1. e.var \in S!eliminated /\ e.var \in S!Var
        BY <1>3, <1>4, LastIsEliminated DEF Entry, e
      <4>2. S!VarOf(e.var) = e.var /\ S!VarOf(-e.var) = e.var
        BY <4>1, SizesAssumption DEF S!Var, S!VarOf
      <4>3. e.var \notin r /\ -e.var \notin r
        BY <4>1, <4>2, <1>5 DEF S!VarsOf
      <4>4. QED
        BY <4>3, <3>1, <1>4
    <3>3. QED
      BY <3>1, <3>2, <2>1 DEF Core, S!Satisfies
  <2>4. QED
    BY <2>2, <2>3, <1>5, <1>6, <1>16 DEF AddedEnough
<1>17. Resolving'
  <2>1. SUFFICES ASSUME step' = "resolve" PROVE Resolving'
    BY DEF Resolving
  <2>2. ok'
    BY <2>1, <1>2
  <2>3. ASSUME NEW c \in old, NEW d \in old, -e.default \in c, e.default \in d
        PROVE  \/ S!Tautology(MergedAt(e.default, c, d))
               \/ MergedAt(e.default, c, d) \in elim'.resolvents
               \/ \A a \in S!ModelsOf(Core' \ old) : S!Satisfies(a, MergedAt(e.default, c, d))
    <3> DEFINE m == MergedAt(e.default, c, d)
    <3>1. S!Tautology(m) \/ m \in elim.resolvents
            \/ \A a \in S!ModelsOf(Core \ old) : S!Satisfies(a, m)
      BY <2>3, <1>2 DEF SolverInv, Resolving, e, old
    <3>2. S!ModelsOf(Core' \ old) \subseteq S!ModelsOf(Core \ old)
      <4>1. Core \ old \subseteq Core' \ old
        BY <1>14
      <4>2. QED
        BY <4>1, ModelsOfMore
    <3> HIDE DEF m
    <3>3. m = r => \A a \in S!ModelsOf(Core' \ old) : S!Satisfies(a, m)
      BY <2>2, <1>16
    <3>4. m # r /\ m \in elim.resolvents => m \in elim'.resolvents
      BY <1>9
    <3>5. \/ S!Tautology(m) \/ m \in elim'.resolvents
          \/ \A a \in S!ModelsOf(Core' \ old) : S!Satisfies(a, m)
      BY <3>1, <3>2, <3>3, <3>4
    <3>6. QED
      BY <3>5 DEF m
  <2>4. elim'.old \subseteq db' /\ elim'.var = e.var
    BY <1>4, <1>7, <1>9
  <2>5. ASSUME NEW q \in elim'.resolvents
        PROVE  /\ q \in SUBSET SolverLit /\ ~S!Tautology(q) /\ Implied(q)'
               /\ S!VarsOf(q) \cap S!eliminated' = {}
               /\ \A c \in Constraint : -Control(c) \notin q
    <3>1. q \in elim.resolvents
      BY <1>9
    <3>2. QED
      BY <3>1, <1>2, <1>10 DEF SolverInv, Resolving
  <2>6. elimclauses' # <<>>
    BY <1>3, <1>4
  <2>7. QED
    BY <2>3, <2>4, <2>5, <2>6, <1>4, <1>9, <1>10 DEF Resolving
<1>18. AnswerKnown'
  BY <1>2 DEF AnswerKnown
<1>19. ContradictionSeen'
  BY <1>2, NoContradiction DEF SolverInv
<1>20. SolverInv'
  BY <1>11, <1>12, <1>13, <1>15, <1>17, <1>18, <1>19 DEF SolverInv
<1>21. CallInv'
  BY <1>2, CallGoesOn
<1>22. QED
  BY <1>20, <1>21

---------------------------------------------------------------------------
(* The clauses with the variable eliminated are removed.                   *)
LEMMA LastAppended ==
    ASSUME NEW es \in Seq(Entry), es # <<>>
    PROVE  \E front \in Seq(Entry) : es = Append(front, es[Len(es)])
<1> DEFINE n == Len(es)
           front == [i \in 1..n - 1 |-> es[i]]
<1>1. n \in Nat /\ n # 0 /\ \A i \in 1..n : es[i] \in Entry
  BY EmptySeq
<1>2. front \in Seq(Entry) /\ Len(front) = n - 1
  <2>1. n - 1 \in Nat /\ \A i \in 1..n - 1 : es[i] \in Entry
    BY <1>1
  <2>2. QED
    BY <2>1
<1>3. Append(front, es[n]) \in Seq(Entry) /\ Len(Append(front, es[n])) = n
  BY <1>1, <1>2
<1>4. \A i \in 1..n : Append(front, es[n])[i] = es[i]
  <2>1. ASSUME NEW i \in 1..n PROVE Append(front, es[n])[i] = es[i]
    <3>1. CASE i = n
      BY <3>1, <1>1, <1>2
    <3>2. CASE i # n
      <4>1. i \in 1..n - 1 /\ front[i] = es[i]
        BY <3>2, <1>1
      <4>2. QED
        BY <4>1, <1>1, <1>2
    <3>3. QED
      BY <3>1, <3>2
  <2>2. QED
    BY <2>1
<1> HIDE DEF front
<1>5. es = Append(front, es[n])
  BY <1>3, <1>4, SeqEqual
<1>6. QED
  BY <1>2, <1>5

LEMMA RemoveOldStep ==
    ASSUME SolverInv, CallInv, UNCHANGED callerVars, S!RemoveOld
    PROVE  SolverInv' /\ CallInv'
<1> DEFINE e == LastStored
           old == elim.old
<1>1. /\ step = "resolve" /\ step' = "subsume" /\ elim.resolvents = {}
      /\ db' = db \ old /\ queue' = queue \ old
      /\ heap' = heap \cup S!Requeued(UNION {S!VarsOf(c) : c \in old})
      /\ elim' = [var |-> 0, old |-> {}, resolvents |-> {}]
      /\ UNCHANGED <<ok, learnts, trail, elimclauses, model, conflict>>
  BY DEF S!RemoveOld, S!resultVars, S!NoElim
<1>2. /\ db \in SUBSET SUBSET SolverLit /\ \A d \in db : Long(d) /\ ~S!Tautology(d)
      /\ SolverTypes /\ ok /\ queue \subseteq db /\ heap \in SUBSET S!Var
      /\ UNCHANGED <<cnfVars, fileVars, encoded, elimclauses>>
  BY <1>1 DEF SolverInv, SolverTypes, CallInv, callerVars
<1>3. /\ elimclauses # <<>> /\ elim.var = e.var /\ e.default \in {e.var, -e.var}
      /\ old \subseteq db /\ \A c \in old : e.var \in c \/ -e.var \in c
      /\ e.clauses = {c \in old : -e.default \in c}
  BY <1>1 DEF SolverInv, Resolving
<1>4. /\ Given' = Given /\ S!ModelsOf(Given)' = S!ModelsOf(Given)
      /\ S!eliminated' = S!eliminated
  BY <1>2, GivenSame DEF S!eliminated, S!ModelsOf
<1>5. /\ e \in Entry /\ e.var \in S!eliminated /\ elimclauses \in Seq(Entry)
      /\ \E front \in Seq(Entry) : elimclauses = Append(front, e)
  <2>1. e \in Entry /\ e.var \in S!eliminated /\ elimclauses \in Seq(Entry)
    BY <1>2, <1>3, LastIsEliminated
  <2>2. QED
    BY <2>1, <1>3, LastAppended DEF LastStored
<1>6. \A c, d \in old : -e.default \in c /\ e.default \in d =>
            \/ S!Tautology(MergedAt(e.default, c, d))
            \/ \A a \in S!ModelsOf(Core \ old) : S!Satisfies(a, MergedAt(e.default, c, d))
  <2>1. ASSUME NEW c \in old, NEW d \in old, -e.default \in c, e.default \in d
        PROVE  \/ S!Tautology(MergedAt(e.default, c, d))
               \/ \A a \in S!ModelsOf(Core \ old) : S!Satisfies(a, MergedAt(e.default, c, d))
    <3> DEFINE m == MergedAt(e.default, c, d)
    <3>1. S!Tautology(m) \/ m \in elim.resolvents
            \/ \A a \in S!ModelsOf(Core \ old) : S!Satisfies(a, m)
      BY <2>1, <1>1 DEF SolverInv, Resolving
    <3> HIDE DEF m
    <3>2. S!Tautology(m) \/ \A a \in S!ModelsOf(Core \ old) : S!Satisfies(a, m)
      BY <3>1, <1>1
    <3>3. QED
      BY <3>2 DEF m
  <2>2. QED
    BY <2>1
<1>7. \A d \in db \ old : S!VarsOf(d) \cap S!eliminated = {}
  BY <1>1, <1>2 DEF SolverInv, Reversible, Old
<1> HIDE DEF e, old
<1>8. Core' = Core \ old /\ old \subseteq Core
  <2>1. Units' = Units
    BY <1>1, <1>4 DEF Units
  <2>2. \A c \in Units : c \notin old
    <3>1. \A l : ~Long({l})
      BY DEF Long
    <3>2. QED
      BY <3>1, <1>2, <1>3 DEF Units
  <2>3. QED
    BY <2>1, <2>2, <1>1, <1>3 DEF Core
<1>9. SolverTypes'
  <2>1. UNION {S!VarsOf(c) : c \in old} \in SUBSET S!Var
    <3>1. \A c \in old : c \in SUBSET SolverLit
      BY <1>2, <1>3
    <3>2. QED
      BY <3>1, VarsType
  <2>2. heap' \in SUBSET S!Var
    BY <2>1, <1>1, <1>2 DEF S!Requeued
  <2>3. S!eliminated' \cap Controls' = {}
    BY <1>2, <1>4 DEF SolverTypes, Controls, Control
  <2>4. QED
    BY <2>2, <2>3, <1>1, <1>2 DEF SolverTypes
<1>10. OnlyPositiveControls'
  <2>1. S!Facts' \subseteq S!Facts
    BY <1>1 DEF S!Facts
  <2>2. QED
    BY <2>1 DEF SolverInv, OnlyPositiveControls
<1>11. Sound'
  BY <1>1, <1>4 DEF SolverInv, Sound
<1>12. Reversible'
  <2>1. ASSUME NEW a \in S!ModelsOf(Core') PROVE S!Extended(a)' \in S!ModelsOf(Given)
    <3> DEFINE b == S!Rebuilt(e, a)
               rest == Core \ old
    <3>1. a \in SUBSET S!Var /\ a \in S!ModelsOf(rest)
      BY <1>8 DEF S!ModelsOf
    <3>2. /\ rest \in SUBSET SUBSET SolverLit /\ old \in SUBSET SUBSET SolverLit
          /\ \A c \in old : ~S!Tautology(c)
          /\ \A c \in rest : e.var \notin S!VarsOf(c)
      <4>1. \A k \in trail : k \in SolverLit
        BY <1>2 DEF SolverTypes
      <4>2. \A c \in Units : c \in SUBSET SolverLit /\ e.var \notin S!VarsOf(c)
        BY <4>1, <1>5 DEF Units, S!VarsOf
      <4>3. \A c \in db \ old : c \in SUBSET SolverLit /\ e.var \notin S!VarsOf(c)
        BY <1>2, <1>5, <1>7
      <4>4. old \in SUBSET SUBSET SolverLit /\ \A c \in old : ~S!Tautology(c)
        BY <1>2, <1>3
      <4>5. QED
        BY <4>2, <4>3, <4>4 DEF Core
    <3> HIDE DEF rest
    <3>3. \A c, d \in old : -e.default \in c /\ e.default \in d =>
                S!Tautology(MergedAt(e.default, c, d)) \/ S!Satisfies(a, MergedAt(e.default, c, d))
      BY <3>1, <1>6 DEF rest
    <3>4. S!Rebuilt(e, a) \in S!ModelsOf(rest \cup old)
      BY <3>1, <3>2, <3>3, <1>3, <1>5, RebuiltSatisfiesOld
    <3>5. b \in S!ModelsOf(Core)
      <4>1. rest \cup old = Core
        BY <1>8 DEF rest
      <4>2. QED
        BY <4>1, <3>4
    <3>6. b \in SUBSET S!Var /\ S!Rebuilt(e, b) = b
      BY <3>1, <1>3, <1>5, RebuiltFacts
    <3>7. PICK front \in Seq(Entry) : elimclauses = Append(front, e)
      BY <1>5
    <3>8. ExtendedBy(elimclauses, a) = ExtendedBy(front, b)
      BY <3>1, <3>7, <1>5, ExtendedByAppend
    <3> HIDE DEF b
    <3>9. ExtendedBy(elimclauses, b) = ExtendedBy(front, b)
      BY <3>6, <3>7, <1>5, ExtendedByAppend
    <3>10. S!Extended(b) \in S!ModelsOf(Given)
      BY <3>5, <1>2 DEF SolverInv, Reversible
    <3>11. S!Extended(a)' = S!Extended(a)
      BY <1>2 DEF S!Extended
    <3>12. QED
      BY <3>8, <3>9, <3>10, <3>11, ExtendedSame
  <2>2. Old' = {} /\ db' = db \ old
    BY <1>1 DEF Old
  <2>3. S!ModelsOf(Core)' = S!ModelsOf(Core')
    BY DEF S!ModelsOf
  <2>4. QED
    BY <2>1, <2>2, <2>3, <1>4, <1>7 DEF Reversible
<1>13. Resolving' /\ AnswerKnown'
  BY <1>1 DEF Resolving, AnswerKnown
<1>14. ContradictionSeen'
  BY <1>1, NoContradiction DEF SolverInv
<1>15. SolverInv'
  BY <1>9, <1>10, <1>11, <1>12, <1>13, <1>14 DEF SolverInv
<1>16. CallInv'
  BY <1>1, <1>2, CallGoesOn
<1>17. QED
  BY <1>15, <1>16

---------------------------------------------------------------------------
(* The search: what is learnt follows.                                     *)
Learnt ==
    /\ learnts' \in SUBSET SUBSET SolverLit /\ trail' \in SUBSET SolverLit
    /\ trail \subseteq trail'
    /\ UNION learnts' \subseteq UNION (db \cup learnts)
    /\ trail' \subseteq trail \cup UNION (db \cup learnts)
    /\ \A a \in S!ModelsOf(S!Facts) : /\ \A c \in learnts' : S!Satisfies(a, c)
                                      /\ \A l \in trail' : S!LitTrue(a, l)

LEMMA FactsModels ==
    ASSUME NEW a \in S!ModelsOf(S!Facts)
    PROVE  /\ \A c \in db \cup learnts : S!Satisfies(a, c)
           /\ \A l \in trail : S!LitTrue(a, l)
BY UnitTrue DEF S!ModelsOf, S!Facts

LEMMA LearntFacts ==
    ASSUME SolverTypes, S!Learn
    PROVE  Learnt
<1>1. /\ db \in SUBSET SUBSET SolverLit /\ learnts \in SUBSET SUBSET SolverLit
      /\ trail \in SUBSET SolverLit
  BY DEF SolverTypes
<1>2. ASSUME NEW c \in S!Learnable
      PROVE  /\ c \in SUBSET SolverLit /\ c \subseteq UNION (db \cup learnts)
             /\ \A a \in S!ModelsOf(S!Facts) : S!Satisfies(a, c)
  BY <1>1 DEF S!Learnable
<1>3. learnts' \in {{}} \cup {{c} : c \in {k \in S!Learnable : S!Cardinality(k) = 2}}
  BY DEF S!Learn
<1>4. /\ learnts' \in SUBSET SUBSET SolverLit
      /\ UNION learnts' \subseteq UNION (db \cup learnts)
      /\ \A c \in learnts' : \A a \in S!ModelsOf(S!Facts) : S!Satisfies(a, c)
  <2>1. \A c \in learnts' : c \in S!Learnable
    BY <1>3
  <2>2. QED
    BY <2>1, <1>2
<1>5. PICK units \in SUBSET UNION {c \in S!Learnable : S!Cardinality(c) = 1} :
            trail' = S!Propagated(db \cup learnts', trail \cup units)
  BY DEF S!Learn
<1>6. ASSUME NEW l \in units
      PROVE  /\ l \in SolverLit /\ l \in UNION (db \cup learnts)
             /\ \A a \in S!ModelsOf(S!Facts) : S!LitTrue(a, l)
  <2>1. PICK c \in S!Learnable : S!Cardinality(c) = 1 /\ l \in c
    OBVIOUS
  <2>2. c = {l}
    BY <2>1, <1>2, ClauseSize
  <2>3. QED
    BY <2>1, <2>2, <1>2, UnitTrue
<1> DEFINE cls == db \cup learnts'
           lits == trail \cup units
<1>7. Follows(cls, lits, trail')
  <2>1. cls \in SUBSET SUBSET SolverLit /\ lits \in SUBSET SolverLit
    BY <1>1, <1>4, <1>6
  <2>2. trail' = S!Propagated(cls, lits)
    BY <1>5
  <2> HIDE DEF cls, lits
  <2>3. QED
    BY ONLY <2>1, <2>2, EnqueueFacts
<1>8. trail' \subseteq trail \cup UNION (db \cup learnts)
  <2>1. trail' \subseteq lits \cup UNION cls
    BY <1>7 DEF Follows
  <2>2. UNION cls \subseteq UNION (db \cup learnts)
    BY <1>4
  <2>3. QED
    BY <2>1, <2>2, <1>6
<1>9. ASSUME NEW a \in S!ModelsOf(S!Facts)
      PROVE  \A l \in trail' : S!LitTrue(a, l)
  <2>1. \A c \in cls : S!Satisfies(a, c)
    BY <1>4, FactsModels
  <2>2. \A l \in lits : S!LitTrue(a, l)
    BY <1>6, FactsModels
  <2>3. QED
    BY <2>1, <2>2, <1>7 DEF Follows
<1>10. trail' \in SUBSET SolverLit /\ trail \subseteq trail'
  BY <1>7 DEF Follows
<1>11. QED
  BY <1>4, <1>8, <1>9, <1>10 DEF Learnt

(* Learning keeps the parts of the invariant about clauses.                *)
LEMMA LearningKeeps ==
    ASSUME SolverInv, CallInv, UNCHANGED callerVars, step = "search",
           S!Learn, UNCHANGED <<ok, db, queue, heap, elim, elimclauses>>,
           model' \in SUBSET S!Var, step' \in {"extend", "unsat"}
    PROVE  SolverTypes' /\ OnlyPositiveControls' /\ Sound' /\ Reversible'
<1>1. Learnt /\ SolverTypes /\ ok
  BY LearntFacts DEF SolverInv, CallInv
<1>2. /\ Given' = Given /\ S!ModelsOf(Given)' = S!ModelsOf(Given)
      /\ S!eliminated' = S!eliminated /\ Old = {} /\ Old' = {}
      /\ UNCHANGED <<cnfVars, fileVars, encoded, elimclauses>>
  BY GivenSame DEF callerVars, S!eliminated, S!ModelsOf, Old
<1>3. SolverTypes'
  <2>1. S!eliminated' \cap Controls' = {}
    BY <1>1, <1>2 DEF SolverTypes, Controls, Control
  <2>2. QED
    BY <2>1, <1>1 DEF Learnt, SolverTypes
<1>4. OnlyPositiveControls'
  <2>1. UNION S!Facts' \subseteq UNION S!Facts
    BY <1>1, FactsUnion DEF Learnt
  <2>2. QED
    BY <2>1 DEF SolverInv, OnlyPositiveControls
<1>5. Sound'
  <2>1. ASSUME NEW a \in S!ModelsOf(Given)
        PROVE  /\ \A c \in db \cup learnts' : S!Satisfies(a, c)
               /\ \A l \in trail' : S!LitTrue(a, l)
    <3>1. a \in S!ModelsOf(S!Facts) /\ \A c \in db : S!Satisfies(a, c)
      BY UnitTrue DEF SolverInv, Sound, S!ModelsOf, S!Facts
    <3>2. QED
      BY <3>1, <1>1 DEF Learnt
  <2>2. QED
    BY <2>1, <1>1, <1>2 DEF Sound
<1>6. Reversible'
  <2>1. Core \subseteq Core'
    BY <1>1, <1>2 DEF Core, Units, Learnt
  <2>2. S!ModelsOf(Core)' \subseteq S!ModelsOf(Core)
    BY <2>1 DEF S!ModelsOf
  <2>3. \A a \in S!ModelsOf(Core)' : S!Extended(a)' \in S!ModelsOf(Given)'
    BY <2>2, <1>1, <1>2, StrongerCore DEF SolverInv
  <2>4. QED
    BY <2>3, <1>1, <1>2 DEF SolverInv, Reversible
<1>7. QED
  BY <1>3, <1>4, <1>5, <1>6

LEMMA SearchSatStep ==
    ASSUME SolverInv, CallInv, UNCHANGED callerVars, S!SearchSat
    PROVE  SolverInv' /\ CallInv'
<1>1. /\ step = "search" /\ step' = "extend" /\ S!Learn
      /\ UNCHANGED <<ok, db, queue, heap, elim, elimclauses>>
      /\ model' \in S!ModelsOf(S!Facts \cup {{l} : l \in assumptions})
  BY DEF S!SearchSat, S!workVars
<1>2. model' \in SUBSET S!Var /\ ok
  BY <1>1 DEF S!ModelsOf, CallInv
<1>3. SolverTypes' /\ OnlyPositiveControls' /\ Sound' /\ Reversible'
  BY <1>1, <1>2, LearningKeeps
<1>4. Resolving'
  BY <1>1 DEF Resolving
<1>5. AnswerKnown'
  <2>1. \A l \in assumptions : S!LitTrue(model', l)
    BY <1>1, UnitTrue DEF S!ModelsOf
  <2>2. Core \subseteq S!Facts
    BY DEF Core, Units, S!Facts
  <2>3. model' \in S!ModelsOf(Core)
    BY <2>2, <1>1 DEF S!ModelsOf
  <2>4. S!Extended(model') \in S!ModelsOf(Given)
    BY <2>3, <1>2 DEF SolverInv, Reversible
  <2>5. S!Extended(model)' = S!Extended(model')
    BY <1>1 DEF S!Extended
  <2>6. S!ModelsOf(Given)' = S!ModelsOf(Given) /\ assumptions' = assumptions
    BY GivenSame DEF callerVars, S!ModelsOf
  <2>7. QED
    BY <2>1, <2>4, <2>5, <2>6, <1>1 DEF AnswerKnown
<1>6. ContradictionSeen'
  BY <1>1, NoContradiction DEF SolverInv
<1>7. CallInv'
  BY <1>1, <1>2, CallGoesOn
<1>8. QED
  BY <1>3, <1>4, <1>5, <1>6, <1>7 DEF SolverInv

(* The assumptions are the control variables, either way.                  *)
LEMMA ControlFacts ==
    ASSUME NEW c \in Constraint
    PROVE  /\ Control(c) \in S!Var /\ Control(c) \in SolverLit /\ -Control(c) \in SolverLit
           /\ -(-Control(c)) = Control(c) /\ Control(c) \notin Var
           /\ S!VarOf(Control(c)) = Control(c) /\ S!VarOf(-Control(c)) = Control(c)
           /\ S!VarOf(Control(c)) - vars = c
           /\ \A a : /\ S!LitTrue(a, Control(c)) <=> Control(c) \in a
                     /\ S!LitTrue(a, -Control(c)) <=> Control(c) \notin a
           /\ \A d \in Constraint : Control(c) = Control(d) => c = d
BY SizesAssumption
   DEF Control, Controls, Constraint, Var, SolverLit, S!Var, S!VarOf, S!LitTrue

LEMMA SwitchFacts ==
    ASSUME NEW f \in SUBSET Constraint
    PROVE  /\ Switches(f) \in SUBSET SolverLit /\ S!VarsOf(Switches(f)) = Controls
           /\ \A l \in Switches(f) :
                 \/ \E c \in f : l = -Control(c) /\ -l = Control(c)
                 \/ \E c \in Constraint \ f : l = Control(c)
<1>1. Switches(f) \in SUBSET SolverLit
  BY ControlFacts DEF Switches
<1>2. S!VarsOf(Switches(f)) = Controls
  <2>1. ASSUME NEW l \in Switches(f) PROVE S!VarOf(l) \in Controls
    BY ControlFacts DEF Switches, Controls
  <2>2. ASSUME NEW c \in Constraint PROVE \E l \in Switches(f) : S!VarOf(l) = Control(c)
    <3>1. CASE c \in f
      BY <3>1, ControlFacts DEF Switches
    <3>2. CASE c \notin f
      BY <3>2, ControlFacts DEF Switches
    <3>3. QED
      BY <3>1, <3>2
  <2>3. QED
    BY <2>1, <2>2 DEF S!VarsOf, Controls
<1>3. QED
  BY <1>1, <1>2, ControlFacts DEF Switches

LEMMA CheckFacts ==
    ASSUME CallInv, step # "idle"
    PROVE  /\ query.kind = "check" /\ query.f \in SUBSET Constraint
           /\ query.core \in BOOLEAN /\ query.grow \in BOOLEAN
           /\ query = O!Check(query.f, query.core, query.grow)
           /\ assumptions = Switches(query.f) /\ Constructed /\ ~Reading
<1>1. PICK check \in Checks : /\ query = O!Check(check.f, check.core, check.grow)
                              /\ assumptions = Switches(check.f)
  BY DEF CallInv
<1>2. check \in [f : SUBSET Constraint, core : BOOLEAN, grow : BOOLEAN]
  BY ChecksAssumption
<1>3. Constructed /\ ~Reading
  BY DEF CallInv, Constructed
<1>4. QED
  BY <1>1, <1>2, <1>3 DEF O!Check

LEMMA SearchUnsatStep ==
    ASSUME SolverInv, CallInv, UNCHANGED callerVars, S!SearchUnsat
    PROVE  SolverInv' /\ CallInv'
<1>1. /\ step = "search" /\ step' = "unsat" /\ conflict' \in S!FinalConflicts
      /\ model' = {} /\ ok' = (conflict' # {})
      /\ IF ok' THEN S!Learn ELSE UNCHANGED <<learnts, trail>>
      /\ UNCHANGED <<db, queue, heap, elim, elimclauses>>
  BY DEF S!SearchUnsat, S!workVars
<1>2. ok /\ SolverTypes
  BY <1>1 DEF CallInv, SolverInv
<1>3. /\ conflict' \subseteq {-l : l \in assumptions} \cap UNION S!Facts
      /\ \A a \in S!ModelsOf(S!Facts) : S!Satisfies(a, conflict')
  BY <1>1 DEF S!FinalConflicts
<1>4. /\ Given' = Given /\ S!ModelsOf(Given)' = S!ModelsOf(Given)
      /\ S!eliminated' = S!eliminated /\ \A c : Implied(c)' <=> Implied(c)
  BY <1>1, GivenSame DEF callerVars, S!eliminated, S!ModelsOf
<1>5. Implied(conflict')
  <2>1. \A a \in S!ModelsOf(Given) : a \in S!ModelsOf(S!Facts)
    BY UnitTrue DEF SolverInv, Sound, S!ModelsOf, S!Facts
  <2>2. QED
    BY <2>1, <1>3 DEF Implied
<1>6. SolverTypes' /\ OnlyPositiveControls' /\ Sound' /\ Reversible'
  <2>1. CASE ok'
    BY <2>1, <1>1, <1>2, LearningKeeps
  <2>2. CASE ~ok'
    <3>1. UNCHANGED <<db, learnts, trail, queue, heap, elim, elimclauses>> /\ ok' = FALSE
      BY <2>2, <1>1
    <3>2. S!ModelsOf(Given) = {}
      BY <2>2, <1>1, <1>5 DEF Implied, S!Satisfies
    <3>3. SolverTypes'
      <4>1. S!eliminated' \cap Controls' = {}
        BY <1>2, <1>4 DEF SolverTypes, Controls, Control
      <4>2. QED
        BY <4>1, <3>1, <1>1, <1>2 DEF SolverTypes
    <3>4. OnlyPositiveControls'
      BY <3>1 DEF SolverInv, OnlyPositiveControls, S!Facts
    <3>5. Sound' /\ Reversible'
      BY <3>1, <3>2, <1>4 DEF Sound, Reversible
    <3>6. QED
      BY <3>3, <3>4, <3>5
  <2>3. QED
    BY <2>1, <2>2
<1>7. Resolving'
  BY <1>1 DEF Resolving
<1>8. AnswerKnown'
  <2>1. /\ query.f \in SUBSET Constraint /\ assumptions = Switches(query.f) /\ query' = query
    BY <1>1, CheckFacts DEF callerVars
  <2>2. ASSUME NEW k \in conflict' PROVE k \in {Control(c) : c \in query.f}
    <3>1. PICK l \in Switches(query.f) : k = -l
      BY <2>1, <1>3
    <3>2. CASE \E c \in query.f : -l = Control(c)
      BY <3>1, <3>2
    <3>3. CASE \E c \in Constraint \ query.f : l = Control(c)
      <4>1. PICK c \in Constraint : k = -Control(c)
        BY <3>1, <3>3
      <4>2. -Control(c) \in UNION S!Facts
        BY <4>1, <1>3
      <4>3. QED
        BY <4>2 DEF SolverInv, OnlyPositiveControls
    <3>4. QED
      BY <3>2, <3>3, <2>1, SwitchFacts
  <2>3. conflict' \subseteq {Control(c) : c \in query'.f} /\ Implied(conflict')
    BY <2>1, <2>2, <1>5
  <2>4. (conflict \subseteq {Control(c) : c \in query.f} /\ Implied(conflict))'
    BY <2>3, <1>4 DEF Implied, Control
  <2>5. QED
    BY <2>4, <1>1 DEF AnswerKnown
<1>9. ContradictionSeen'
  BY <1>1, NoContradiction DEF SolverInv
<1>10. CallInv'
  BY <1>1, CallGoesOn
<1>11. QED
  BY <1>6, <1>7, <1>8, <1>9, <1>10 DEF SolverInv

(* The model found gets its values for the variables eliminated.           *)
LEMMA ExtendModelStep ==
    ASSUME SolverInv, CallInv, UNCHANGED callerVars, S!ExtendModel
    PROVE  SolverInv' /\ CallInv'
<1>1. /\ step = "extend" /\ step' = "sat" /\ model' = S!Extended(model)
      /\ UNCHANGED <<ok, db, learnts, trail, queue, heap, elim, elimclauses, conflict>>
  BY DEF S!ExtendModel, S!dbVars, S!workVars
<1>2. ok /\ SolverTypes /\ elimclauses \in Seq(Entry) /\ model \in SUBSET S!Var
  BY <1>1 DEF CallInv, SolverInv, SolverTypes, Entry
<1>3. /\ Given' = Given /\ S!ModelsOf(Given)' = S!ModelsOf(Given)
      /\ S!eliminated' = S!eliminated /\ S!Facts' = S!Facts /\ Core' = Core
  BY <1>1, GivenSame DEF callerVars, S!eliminated, S!ModelsOf, S!Facts, Core, Units
<1>4. model' = ExtendedBy(elimclauses, model)
  BY <1>1, ExtendedSame
<1>5. /\ model' \in SUBSET S!Var
      /\ \A v : v \notin S!eliminated => (v \in model' <=> v \in model)
  <2>1. /\ model' \in SUBSET S!Var
        /\ \A v : (\A i \in 1..Len(elimclauses) : elimclauses[i].var # v)
                        => (v \in model' <=> v \in model)
    BY <1>2, <1>4, ExtendedType
  <2>2. DOMAIN elimclauses = 1..Len(elimclauses)
    BY <1>2
  <2>3. \A i \in 1..Len(elimclauses) : elimclauses[i].var \in S!eliminated
    BY <2>2 DEF S!eliminated, S!ToSet
  <2>4. QED
    BY <2>1, <2>3
<1>6. SolverTypes'
  <2>1. S!eliminated' \cap Controls' = {}
    BY <1>2, <1>3 DEF SolverTypes, Controls, Control
  <2>2. QED
    BY <2>1, <1>1, <1>2, <1>5 DEF SolverTypes
<1>7. OnlyPositiveControls' /\ Sound'
  BY <1>1, <1>3 DEF SolverInv, OnlyPositiveControls, Sound
<1>8. Reversible'
  <2>1. S!ModelsOf(Core)' \subseteq S!ModelsOf(Core)
    BY <1>3 DEF S!ModelsOf
  <2>2. \A a \in S!ModelsOf(Core)' : S!Extended(a)' \in S!ModelsOf(Given)'
    BY <2>1, <1>1, <1>2, StrongerCore DEF SolverInv, callerVars
  <2>3. Old = {} /\ Old' = {}
    BY <1>1 DEF Old
  <2>4. QED
    BY <2>2, <2>3, <1>1, <1>2, <1>3 DEF Reversible, SolverInv
<1>9. Resolving'
  BY <1>1 DEF Resolving
<1>10. AnswerKnown'
  <2>1. model' \in S!ModelsOf(Given)
    BY <1>1 DEF SolverInv, AnswerKnown
  <2>2. query.f \in SUBSET Constraint /\ assumptions = Switches(query.f)
        /\ \A l \in assumptions : S!LitTrue(model, l)
    BY <1>1, CheckFacts DEF SolverInv, AnswerKnown
  <2>3. ASSUME NEW c \in Constraint PROVE Control(c) \in model' <=> Control(c) \in model
    BY <1>2, <1>5 DEF SolverTypes, Controls
  <2>4. ASSUME NEW l \in assumptions PROVE S!LitTrue(model', l)
    <3>1. CASE \E c \in query.f : l = -Control(c)
      BY <3>1, <2>2, <2>3, <2>4, ControlFacts
    <3>2. CASE \E c \in Constraint \ query.f : l = Control(c)
      BY <3>2, <2>2, <2>3, <2>4, ControlFacts
    <3>3. QED
      BY <3>1, <3>2, <2>2, SwitchFacts
  <2>5. assumptions' = assumptions
    BY DEF callerVars
  <2>6. QED
    BY <2>1, <2>4, <2>5, <1>1, <1>3 DEF AnswerKnown
<1>11. ContradictionSeen'
  BY <1>1, NoContradiction DEF SolverInv
<1>12. CallInv'
  BY <1>1, <1>2, CallGoesOn
<1>13. QED
  BY <1>6, <1>7, <1>8, <1>9, <1>10, <1>11, <1>12 DEF SolverInv

(* All the work of a call. *)
LEMMA WorkStep ==
    ASSUME SolverInv, CallInv, SolverWorks
    PROVE  SolverInv' /\ CallInv' /\ UNCHANGED callerVars /\ answer' = answer
<1>1. S!Work /\ UNCHANGED <<cnfVars, fileVars, encoded, checks, query, answer>>
  BY DEF SolverWorks
<1>2. UNCHANGED <<assumptions, frozen>>
  <2>1. CASE S!Subsume
    BY <2>1 DEF S!Subsume, S!Backward
  <2>2. CASE ~S!Subsume
    BY <2>2, <1>1 DEF S!Work, S!Gather, S!Simplified, S!SubsumeEnds, S!KeepVar,
        S!EliminateVar, S!AddResolvent, S!RemoveOld, S!HeapEmpty, S!SearchSat, S!SearchUnsat,
        S!ExtendModel
  <2>3. QED
    BY <2>1, <2>2
<1>3. UNCHANGED callerVars
  BY <1>1, <1>2 DEF callerVars
<1>4. SolverInv' /\ CallInv'
  BY <1>1, <1>3, QuietSteps, SubsumeStep, EliminateStep, AddResolventStep, RemoveOldStep,
     SearchSatStep, SearchUnsatStep, ExtendModelStep DEF S!Work
<1>5. QED
  BY <1>1, <1>3, <1>4

---------------------------------------------------------------------------
(* What the constructor gives the solver.                                  *)
LEMMA PrefixSet ==
    ASSUME NEW X, NEW s \in Seq(X), NEW n \in 0..Len(s)
    PROVE  ToSet(SubSeq(s, 1, n)) = {s[i] : i \in 1..n}
<1>1. n \in Nat /\ n <= Len(s) /\ Len(s) \in Nat
  OBVIOUS
<1>2. /\ Len(SubSeq(s, 1, n)) = n /\ SubSeq(s, 1, n) \in Seq(X)
      /\ \A i \in 1..n : SubSeq(s, 1, n)[i] = s[i]
  BY <1>1, SubSeqProperties
<1>3. DOMAIN SubSeq(s, 1, n) = 1..n
  BY <1>2
<1>4. QED
  BY <1>2, <1>3 DEF ToSet

LEMMA NothingGiven ==
    ASSUME ReadInv, Reading
    PROVE  Given = {}
<1>1. encoded = 0 /\ clauses = <<>> /\ hard_clauses_str \in Seq(Seq(Lit))
  BY DEF ReadInv
<1> DEFINE soft == [c \in DOMAIN clauses |-> clauses[c] \cup {Control(c)}]
           hard == [h \in DOMAIN hard_clauses_str |-> ToSet(hard_clauses_str[h])]
           X == SUBSET Lit
<1>2. soft \in Seq(X)
  BY <1>1
<1>3. hard \in Seq(X)
  <2>1. \A h \in 1..Len(hard_clauses_str) : ToSet(hard_clauses_str[h]) \in X
    <3>1. \A h \in 1..Len(hard_clauses_str) : hard_clauses_str[h] \in Seq(Lit)
      BY <1>1
    <3>2. QED
      BY <3>1 DEF ToSet
  <2>2. hard = [h \in 1..Len(hard_clauses_str) |-> ToSet(hard_clauses_str[h])]
        /\ Len(hard_clauses_str) \in Nat
    BY <1>1
  <2>3. QED
    BY <2>1, <2>2
<1> HIDE DEF soft, hard, X
<1>4. soft \o hard \in Seq(X)
  BY <1>2, <1>3
<1>5. Encoding = soft \o hard
  BY DEF Encoding, soft, hard
<1>6. ToSet(SubSeq(Encoding, 1, 0)) = {Encoding[i] : i \in 1..0}
  <2>1. 0 \in 0..Len(Encoding)
    BY <1>4, <1>5
  <2>2. Encoding \in Seq(X)
    BY <1>4, <1>5
  <2>3. QED
    BY ONLY <2>1, <2>2, PrefixSet
<1>7. QED
  BY <1>1, <1>6 DEF Given

LEMMA ParsedFacts ==
    ASSUME ReadInv, ParsedInv, ~Reading
    PROVE  /\ clauses \in [Constraint -> SUBSET Lit] /\ hard_clauses \in SUBSET SUBSET Lit
           /\ hard_clauses = {ToSet(hard_clauses_str[h]) : h \in DOMAIN hard_clauses_str}
           /\ Encoding = EncodingOf(clauses, hard_clauses_str)
           /\ Encoding \in Seq(SUBSET SolverLit) /\ Len(Encoding) \in Nat
           /\ encoded \in 0..Len(Encoding)
           /\ ToSet(Encoding) = {clauses[c] \cup {Control(c)} : c \in Constraint} \cup hard_clauses
           /\ Given = {Encoding[i] : i \in 1..encoded}
           /\ Constructed => Given = ToSet(Encoding)
<1>1. /\ clauses = [c \in Constraint |-> ToSet(clauses_str[c])]
      /\ hard_clauses = {ToSet(hard_clauses_str[h]) : h \in DOMAIN hard_clauses_str}
      /\ encoded \in 0..Len(Encoding) /\ lines = <<>>
      /\ clauses_str \in Seq(Seq(Lit)) /\ hard_clauses_str \in Seq(Seq(Lit))
  BY DEF ParsedInv, ReadInv
<1>2. clauses \in [Constraint -> SUBSET Lit]
  <2>1. \A c \in Constraint : clauses_str[c] \in Seq(Lit)
    BY <1>1, AllRead
  <2>2. \A c \in Constraint : ToSet(clauses_str[c]) \in SUBSET Lit
    BY <2>1 DEF ToSet
  <2>3. QED
    BY <2>2, <1>1
<1>3. hard_clauses \in SUBSET SUBSET Lit
  <2>1. \A h \in DOMAIN hard_clauses_str : hard_clauses_str[h] \in Seq(Lit)
    BY <1>1
  <2>2. QED
    BY <2>1, <1>1 DEF ToSet
<1>4. Encoding = EncodingOf(clauses, hard_clauses_str)
  BY DEF Encoding, EncodingOf
<1>5. /\ Encoding \in Seq(SUBSET SolverLit) /\ Len(Encoding) \in Nat
      /\ ToSet(Encoding) = {clauses[c] \cup {Control(c)} : c \in Constraint} \cup hard_clauses
  BY <1>1, <1>2, <1>4, EncodingFacts
<1>6. Given = {Encoding[i] : i \in 1..encoded}
  BY <1>1, <1>5, PrefixSet DEF Given
<1>7. Constructed => Given = ToSet(Encoding)
  BY <1>5, <1>6 DEF Constructed, ToSet
<1>8. QED
  BY <1>1, <1>2, <1>3, <1>4, <1>5, <1>6, <1>7

(* Contradictory units are among the clauses.                              *)
LEMMA OppositeGiven ==
    ASSUME ReadInv, lines = <<>>, OppositeUnits(file), NEW cs \in [Constraint -> SUBSET Lit]
    PROVE  \E l \in SolverLit : /\ {l} \in ToSet(EncodingOf(cs, hard_clauses_str))
                                /\ {-l} \in ToSet(EncodingOf(cs, hard_clauses_str))
<1>1. /\ ToSet(EncodingOf(cs, hard_clauses_str))
            = {cs[c] \cup {Control(c)} : c \in Constraint}
                \cup {ToSet(hard_clauses_str[h]) : h \in DOMAIN hard_clauses_str}
  BY EncodingFacts DEF ReadInv
<1>2. PICK h \in DOMAIN file, k \in DOMAIN file, l \in Lit :
            /\ file[h].group = 0 /\ file[k].group = 0
            /\ ToSet(file[h].text) = {l} /\ ToSet(file[k].text) = {-l}
  BY DEF OppositeUnits
<1>3. h \in HardLines /\ k \in HardLines
  BY <1>2 DEF HardLines, SoftLines
<1>4. ToSet(hard_clauses_str) = {file[i].text : i \in HardLines}
  BY AllRead
<1>5. \E i \in DOMAIN hard_clauses_str : hard_clauses_str[i] = file[h].text
  BY <1>3, <1>4 DEF ToSet
<1>6. \E i \in DOMAIN hard_clauses_str : hard_clauses_str[i] = file[k].text
  BY <1>3, <1>4 DEF ToSet
<1>7. l \in SolverLit
  BY SizesAssumption DEF Lit, Var, SolverLit, S!Var
<1>8. QED
  BY <1>1, <1>2, <1>5, <1>6, <1>7

(* No clause that is given speaks of a constraint that is switched on.     *)
LEMMA GivenPositive ==
    ASSUME ReadInv, ParsedInv, ~Reading, NEW d \in ToSet(Encoding), NEW c \in Constraint
    PROVE  -Control(c) \notin d /\ d \in SUBSET SolverLit
<1>1. d \in {clauses[k] \cup {Control(k)} : k \in Constraint} \cup hard_clauses
      /\ clauses \in [Constraint -> SUBSET Lit] /\ hard_clauses \in SUBSET SUBSET Lit
  BY ParsedFacts
<1>2. -Control(c) \notin Lit /\ \A k \in Constraint : -Control(c) # Control(k)
  BY SizesAssumption DEF Lit, Var, Control, Constraint
<1>3. Lit \subseteq SolverLit
  BY SizesAssumption DEF Lit, Var, SolverLit, S!Var
<1>4. QED
  BY <1>1, <1>2, <1>3, ControlFacts

---------------------------------------------------------------------------
(* The steps of the handle.                                                *)
LEMMA ClausesStay ==
    ASSUME SolverInv,
           UNCHANGED <<ok, db, learnts, trail, queue, elimclauses, elim, model>>,
           heap' \in SUBSET S!Var, Given' = Given, step # "resolve", step' # "resolve"
    PROVE  SolverTypes' /\ OnlyPositiveControls' /\ Sound' /\ Reversible' /\ Resolving'
<1>1. /\ S!ModelsOf(Given)' = S!ModelsOf(Given) /\ Old = {} /\ Old' = {}
      /\ S!eliminated' = S!eliminated /\ S!Facts' = S!Facts /\ Core' = Core
  BY DEF S!eliminated, S!ModelsOf, S!Facts, Core, Units, Old
<1>2. SolverTypes'
  <2>1. S!eliminated' \cap Controls' = {}
    BY <1>1 DEF SolverInv, SolverTypes, Controls, Control
  <2>2. QED
    BY <2>1 DEF SolverInv, SolverTypes
<1>3. OnlyPositiveControls' /\ Sound'
  BY <1>1 DEF SolverInv, OnlyPositiveControls, Sound
<1>4. Reversible'
  <2>1. S!ModelsOf(Core)' = S!ModelsOf(Core) /\ \A a : S!Extended(a)' = S!Extended(a)
    BY <1>1 DEF S!ModelsOf, S!Extended
  <2>2. QED
    BY <2>1, <1>1 DEF SolverInv, Reversible
<1>5. Resolving'
  BY DEF Resolving
<1>6. QED
  BY <1>2, <1>3, <1>4, <1>5

LEMMA ReadingStep ==
    ASSUME HandleInv, ReadHard \/ ReadSoft
    PROVE  HandleInv'
<1>1. /\ Reading /\ file' = file /\ cnfVars' = cnfVars
      /\ UNCHANGED <<encoded, checks, query, answer, solverVars>>
  BY DEF ReadHard, ReadSoft
<1>2. ReadInv' /\ Reading'
  BY <1>1, ReadHardStep, ReadSoftStep DEF HandleInv, Reading
<1>3. UNCHANGED <<ok, db, learnts, trail, queue, heap, elimclauses, elim, model, conflict, step,
                  assumptions, frozen>>
  BY <1>1 DEF solverVars
<1>4. ParsedInv' /\ ~Constructed /\ ~Constructed'
  BY <1>1, <1>2 DEF ParsedInv, Constructed
<1>5. CallInv' /\ step = "idle" /\ step' = "idle" /\ checks' = 0 /\ checks = 0
  <2>1. step = "idle" /\ checks = 0
    BY <1>4 DEF HandleInv, CallInv
  <2>2. query \in {[kind |-> "parse"], O!NoQuery} /\ assumptions = {}
    BY <2>1 DEF HandleInv, CallInv
  <2>3. (query \in {[kind |-> "parse"], O!NoQuery})'
    BY <2>2, <1>1 DEF O!NoQuery
  <2>4. QED
    BY <2>1, <2>2, <2>3, <1>1, <1>3, <1>4 DEF HandleInv, CallInv
<1>6. Given = {}
  BY <1>1, NothingGiven DEF HandleInv
<1>7. Given' = {}
  <2>1. (ReadInv /\ Reading => Given = {})'
    BY NothingGiven, PTL
  <2>2. QED
    BY <2>1, <1>2
<1>8. SolverTypes' /\ OnlyPositiveControls' /\ Sound' /\ Reversible' /\ Resolving'
  BY <1>3, <1>5, <1>6, <1>7, ClausesStay DEF HandleInv, SolverInv, SolverTypes
<1>9. AnswerKnown'
  BY <1>5 DEF AnswerKnown
<1>10. ContradictionSeen'
  <2>1. OppositeUnits(file)' <=> OppositeUnits(file)
    BY <1>1 DEF OppositeUnits
  <2>2. QED
    BY <2>1, <1>3, <1>4, <1>5, <1>6, <1>7 DEF HandleInv, SolverInv, ContradictionSeen
<1>11. QED
  BY <1>2, <1>4, <1>5, <1>8, <1>9, <1>10 DEF HandleInv, SolverInv

LEMMA ParseEndsKeeps ==
    ASSUME HandleInv, ParseEnds
    PROVE  HandleInv'
<1>1. /\ Reading /\ lines = <<>> /\ query' = O!NoQuery /\ file' = file
      /\ hard_clauses_str' = hard_clauses_str
      /\ UNCHANGED <<encoded, checks, answer, solverVars>>
  BY DEF ParseEnds, fileVars
<1>2. UNCHANGED <<ok, db, learnts, trail, queue, heap, elimclauses, elim, model, conflict, step,
                  assumptions, frozen>>
  BY <1>1 DEF solverVars
<1>3. ReadInv' /\ ParsedInv' /\ ~Reading'
  BY <1>1, ParseEndsStep DEF HandleInv, Reading, O!NoQuery
<1>4. CallInv' /\ step = "idle" /\ step' = "idle" /\ checks' = 0 /\ checks = 0
  <2>1. step = "idle" /\ checks = 0 /\ assumptions = {}
    BY <1>1 DEF HandleInv, CallInv, Constructed
  <2>2. (query \in {[kind |-> "parse"], O!NoQuery})'
    BY <1>1 DEF O!NoQuery
  <2>3. QED
    BY <2>1, <2>2, <1>1, <1>2 DEF HandleInv, CallInv
<1>5. Given = {} /\ encoded = 0
  BY <1>1, NothingGiven DEF HandleInv, ReadInv
<1>6. (ReadInv /\ ParsedInv /\ ~Reading =>
        /\ clauses \in [Constraint -> SUBSET Lit]
        /\ Encoding = EncodingOf(clauses, hard_clauses_str)
        /\ Given = {Encoding[i] : i \in 1..encoded}
        /\ Constructed => Given = ToSet(Encoding))'
  BY ParsedFacts, PTL
<1>7. Given' = {}
  <2>1. Given' = {Encoding'[i] : i \in 1..0}
    BY <1>1, <1>3, <1>5, <1>6
  <2>2. QED
    BY <2>1
<1>8. SolverTypes' /\ OnlyPositiveControls' /\ Sound' /\ Reversible' /\ Resolving'
  BY <1>2, <1>4, <1>5, <1>7, ClausesStay DEF HandleInv, SolverInv, SolverTypes
<1>9. AnswerKnown'
  BY <1>4 DEF AnswerKnown
<1>10. ContradictionSeen'
  <2>1. OppositeUnits(file)' <=> OppositeUnits(file)
    BY <1>1 DEF OppositeUnits
  <2>2. OppositeUnits(file) => ~Constructed'
    <3>1. SUFFICES ASSUME OppositeUnits(file), Constructed' PROVE FALSE
      OBVIOUS
    <3>2. PICK l \in SolverLit : {l} \in ToSet(EncodingOf(clauses', hard_clauses_str))
      BY <3>1, <1>1, <1>3, <1>6, OppositeGiven DEF HandleInv
    <3>3. QED
      BY <3>1, <3>2, <1>1, <1>3, <1>6, <1>7
  <2>3. QED
    BY <2>1, <2>2, <1>2, <1>4, <1>5, <1>7 DEF HandleInv, SolverInv, ContradictionSeen
<1>11. QED
  BY <1>3, <1>4, <1>8, <1>9, <1>10 DEF HandleInv, SolverInv

LEMMA EncodeStep ==
    ASSUME HandleInv, Encode
    PROVE  HandleInv'
<1> DEFINE c == Encoding[encoded + 1]
<1>1. /\ ~Reading /\ ~Constructed /\ encoded' = encoded + 1
      /\ IF ok THEN S!AddClause(c) ELSE UNCHANGED <<ok, db, trail, queue, touched>>
      /\ UNCHANGED <<cnfVars, fileVars, checks, query, answer, learnts, heap, frozen,
                     elimclauses, elim, assumptions, model, conflict, step>>
  BY DEF Encode
<1>2. /\ Encoding \in Seq(SUBSET SolverLit) /\ Len(Encoding) \in Nat
      /\ encoded \in 0..Len(Encoding) /\ encoded # Len(Encoding)
      /\ Given = {Encoding[i] : i \in 1..encoded}
      /\ clauses \in [Constraint -> SUBSET Lit]
      /\ Encoding = EncodingOf(clauses, hard_clauses_str) /\ lines = <<>>
  BY <1>1, ParsedFacts DEF HandleInv, Constructed, ParsedInv
<1>3. /\ encoded + 1 \in 1..Len(Encoding) /\ c \in SUBSET SolverLit /\ c \in ToSet(Encoding)
  <2>1. encoded + 1 \in 1..Len(Encoding) /\ DOMAIN Encoding = 1..Len(Encoding)
    BY <1>2
  <2>2. QED
    BY <2>1, <1>2 DEF ToSet
<1>4. Encoding' = Encoding /\ Reading' = Reading
  BY <1>1 DEF Encoding, cnfVars, fileVars, Reading
<1>5. Given' = Given \cup {c}
  <2>1. encoded + 1 \in 0..Len(Encoding)
    BY <1>2, <1>3
  <2>2. ToSet(SubSeq(Encoding, 1, encoded + 1)) = {Encoding[i] : i \in 1..encoded + 1}
    BY ONLY <2>1, <1>2, PrefixSet
  <2>3. Given' = {Encoding[i] : i \in 1..encoded + 1}
    BY <2>2, <1>1, <1>4 DEF Given
  <2>4. 1..encoded + 1 = 1..encoded \cup {encoded + 1}
    BY <1>2
  <2>5. QED
    BY <2>3, <2>4, <1>2
<1> HIDE DEF c
<1>6. /\ step = "idle" /\ step' = "idle" /\ checks = 0 /\ checks' = 0 /\ elimclauses = <<>>
      /\ elimclauses' = <<>> /\ SolverTypes
  BY <1>1 DEF HandleInv, CallInv, SolverInv
<1>7. ReadInv' /\ ParsedInv'
  <2>1. PICK n \in 0..Len(file) : ReadUpTo(n)
    BY DEF HandleInv, ReadInv
  <2>2. ReadUpTo(n)'
    BY <2>1, <1>1 DEF ReadUpTo, fileVars
  <2>3. ReadInv'
    BY <2>2, <1>1, <1>4 DEF HandleInv, ReadInv, fileVars
  <2>4. encoded' \in 0..Len(Encoding')
    BY <1>1, <1>2, <1>3, <1>4
  <2>5. ParsedInv'
    BY <2>4, <1>1 DEF HandleInv, ParsedInv, cnfVars, fileVars
  <2>6. QED
    BY <2>3, <2>5
<1>8. CallInv'
  <2>1. query \in {[kind |-> "parse"], O!NoQuery} /\ assumptions = {}
    BY <1>6 DEF HandleInv, CallInv
  <2>2. (query \in {[kind |-> "parse"], O!NoQuery})'
    BY <2>1, <1>1 DEF O!NoQuery
  <2>3. QED
    BY <2>1, <2>2, <1>1, <1>6 DEF CallInv
<1>9. /\ ok => Added(c)
      /\ ~ok => UNCHANGED <<ok, db, trail, queue>>
      /\ learnts' = learnts
  BY <1>1, <1>3, <1>6, AddClauseFacts
<1>10. /\ db \in SUBSET SUBSET SolverLit /\ \A d \in db : Long(d) /\ ~S!Tautology(d)
       /\ trail \in SUBSET SolverLit /\ queue \subseteq db /\ ok \in BOOLEAN
  BY <1>6 DEF SolverTypes
<1>11. /\ db \subseteq db' /\ queue' \subseteq db' /\ trail \subseteq trail'
       /\ trail' \in SUBSET SolverLit /\ ok' \in BOOLEAN
       /\ \A d \in db' \ db : d \subseteq c /\ Long(d) /\ ~S!Tautology(d)
       /\ trail' \subseteq trail \cup (UNION db) \cup (UNION learnts) \cup c
  <2>1. CASE ok
    BY <2>1, <1>9 DEF Added, AddedTypes
  <2>2. CASE ~ok
    BY <2>2, <1>9, <1>10
  <2>3. QED
    BY <2>1, <2>2
<1>12. db' \in SUBSET SUBSET SolverLit /\ \A d \in db' : Long(d) /\ ~S!Tautology(d)
  BY <1>3, <1>10, <1>11
<1>13. S!eliminated = {} /\ S!eliminated' = {}
  BY <1>6 DEF S!eliminated, S!ToSet
<1>14. SolverTypes'
  <2>1. S!eliminated' \cap Controls' = {}
    BY <1>13
  <2>2. QED
    BY <2>1, <1>1, <1>6, <1>11, <1>12 DEF SolverTypes
<1>15. OnlyPositiveControls'
  <2>1. UNION S!Facts' \subseteq (UNION S!Facts) \cup c
    <3>1. UNION db' \subseteq (UNION db) \cup c
      BY <1>11
    <3>2. QED
      BY <3>1, <1>9, <1>11, FactsUnion
  <2>2. \A k \in Constraint : -Control(k) \notin c
    BY <1>1, <1>3, GivenPositive DEF HandleInv
  <2>3. QED
    BY <2>1, <2>2 DEF HandleInv, SolverInv, OnlyPositiveControls
<1>16. \A a \in S!ModelsOf(Given)' : a \in S!ModelsOf(Given) /\ S!Satisfies(a, c)
  BY <1>5 DEF S!ModelsOf
<1>17. Sound'
  <2>1. ASSUME NEW a \in S!ModelsOf(Given)' PROVE ok' /\ FitsAll(a)'
    <3>1. ok /\ FitsAll(a) /\ S!Satisfies(a, c)
      BY <1>16 DEF HandleInv, SolverInv, Sound, FitsAll
    <3>2. QED
      BY <3>1, <1>9 DEF Added, AddedFollows
  <2>2. QED
    BY <2>1 DEF Sound, FitsAll
<1>18. ok' => ok
  BY <1>9, <1>10
<1>19. Reversible'
  <2>1. ASSUME ok', NEW a \in S!ModelsOf(Core') PROVE a \in S!ModelsOf(Given \cup {c})
    <3>1. a \in SUBSET S!Var /\ \A d \in Core' : S!Satisfies(a, d)
      BY <2>1 DEF S!ModelsOf
    <3>2. Core \subseteq Core' /\ db' \subseteq Core' /\ \A l \in trail' : {l} \in Core'
      BY <1>11, <1>13 DEF Core, Units
    <3>3. S!Extended(a) = a
      BY <3>1, <1>6, ExtendedByNone, ExtendedSame
    <3>4. a \in S!ModelsOf(Core)
      BY <3>1, <3>2 DEF S!ModelsOf
    <3>5. a \in S!ModelsOf(Given)
      BY <3>3, <3>4, <1>18, <2>1 DEF HandleInv, SolverInv, Reversible
    <3>6. S!Satisfies(a, c)
      <4>1. CASE S!Tautology(c)
        <5>1. PICK l \in c : -l \in c
          BY <4>1 DEF S!Tautology
        <5>2. S!LitTrue(a, l) \/ S!LitTrue(a, -l)
          BY <5>1, <1>3, LiteralFacts
        <5>3. QED
          BY <5>1, <5>2 DEF S!Satisfies
      <4>2. CASE \E l \in c : l \in trail'
        BY <4>2, <3>1, <3>2, UnitTrue DEF S!Satisfies
      <4>3. CASE \E d \in db' : d \subseteq c
        BY <4>3, <3>1, <3>2 DEF S!Satisfies
      <4>4. QED
        BY <4>1, <4>2, <4>3, <1>9, <1>18, <2>1 DEF Added, AddedEnough
    <3>7. QED
      BY <3>1, <3>5, <3>6 DEF S!ModelsOf
  <2>2. \A a \in SUBSET S!Var : S!Extended(a)' = a
    <3>1. \A a : S!Extended(a)' = S!Extended(a)
      BY <1>6 DEF S!Extended
    <3>2. QED
      BY <3>1, <1>6, ExtendedByNone, ExtendedSame
  <2>3. S!ModelsOf(Core)' = S!ModelsOf(Core') /\ S!ModelsOf(Given)' = S!ModelsOf(Given \cup {c})
    BY <1>5 DEF S!ModelsOf
  <2>4. S!ModelsOf(Core') \subseteq SUBSET S!Var
    BY DEF S!ModelsOf
  <2>5. QED
    BY <2>1, <2>2, <2>3, <2>4, <1>13 DEF Reversible
<1>20. Resolving' /\ AnswerKnown'
  BY <1>6 DEF Resolving, AnswerKnown
<1>21. ok' => /\ \A l \in SolverLit : {l} \in Given' => l \in trail'
              /\ \A l \in trail' : -l \notin trail'
  <2>1. SUFFICES ASSUME ok' PROVE /\ \A l \in SolverLit : {l} \in Given' => l \in trail'
                                  /\ \A l \in trail' : -l \notin trail'
    OBVIOUS
  <2>2. ok /\ Added(c)
    BY <2>1, <1>18, <1>9
  <2>3. /\ \A l \in SolverLit : {l} \in Given => l \in trail
        /\ \A l \in trail : -l \notin trail
    BY <2>2, <1>6 DEF HandleInv, SolverInv, ContradictionSeen
  <2>4. \A l \in trail' : -l \notin trail'
    BY <2>1, <2>2, <2>3 DEF Added
  <2>5. ASSUME NEW l \in SolverLit, c = {l} PROVE l \in trail'
    <3>1. ~S!Tautology(c)
      BY <2>5, LiteralFacts DEF S!Tautology
    <3>2. \A d \in db' : ~(d \subseteq c)
      BY <2>5, <1>12 DEF Long
    <3>3. \E k \in c : k \in trail'
      BY <3>1, <3>2, <2>1, <2>2 DEF Added, AddedEnough
    <3>4. QED
      BY <3>3, <2>5
  <2>6. QED
    BY <2>3, <2>4, <2>5, <1>5, <1>11
<1>22. ContradictionSeen'
  <2>1. (OppositeUnits(file)' <=> OppositeUnits(file)) /\ conflict' = conflict
    BY <1>1 DEF OppositeUnits, fileVars
  <2>2. OppositeUnits(file) => (Constructed' => ~ok')
    <3>1. SUFFICES ASSUME OppositeUnits(file), Constructed', ok' PROVE FALSE
      BY <1>11
    <3>2. PICK l \in SolverLit : {l} \in ToSet(Encoding) /\ {-l} \in ToSet(Encoding)
      BY <3>1, <1>2, OppositeGiven DEF HandleInv
    <3>3. Given' = ToSet(Encoding)
      <4>1. encoded' = Len(Encoding) /\ encoded' \in 0..Len(Encoding)
        <5>1. encoded' = Len(Encoding')
          BY <3>1 DEF Constructed
        <5>2. encoded' \in 1..Len(Encoding)
          BY <1>1, <1>3
        <5>3. QED
          BY <5>1, <5>2, <1>2, <1>4
      <4>2. ToSet(SubSeq(Encoding, 1, encoded')) = {Encoding[i] : i \in 1..encoded'}
        BY ONLY <4>1, <1>2, PrefixSet
      <4>3. DOMAIN Encoding = 1..Len(Encoding)
        BY <1>2
      <4>4. QED
        BY <4>1, <4>2, <4>3, <1>4 DEF Given, ToSet
    <3>4. l \in trail' /\ -l \in trail'
      BY <3>1, <3>2, <3>3, <1>21, LiteralFacts
    <3>5. QED
      BY <3>1, <3>4, <1>21
  <2>3. QED
    BY <2>1, <2>2, <1>6, <1>21 DEF HandleInv, SolverInv, ContradictionSeen
<1>23. QED
  BY <1>7, <1>8, <1>14, <1>15, <1>17, <1>19, <1>20, <1>22 DEF HandleInv, SolverInv

LEMMA SolveStep ==
    ASSUME HandleInv, Solve
    PROVE  HandleInv'
<1>1. PICK check \in Checks :
            /\ query' = O!Check(check.f, check.core, check.grow)
            /\ S!Solve(Switches(check.f))
  BY DEF Solve, Switches
<1>2. /\ Constructed /\ query.kind = "none" /\ checks' = checks + 1 /\ ~Reading
      /\ UNCHANGED <<cnfVars, fileVars, encoded, answer>>
  BY DEF Solve, Constructed
<1>3. /\ step = "idle" /\ assumptions' = Switches(check.f)
      /\ frozen' = S!VarsOf(Switches(check.f))
      /\ step' = IF ok THEN "gather" ELSE "unsat"
      /\ UNCHANGED <<ok, db, learnts, trail, queue, heap, elimclauses, elim, model, conflict>>
  BY <1>1 DEF S!Solve, S!AssumptionsFrozen, S!dbVars, S!workVars, S!resultVars
<1>4. check.f \in SUBSET Constraint
  BY ChecksAssumption
<1>5. /\ ReadInv' /\ ParsedInv' /\ Given' = Given /\ Constructed'
  <2>1. ~Reading'
    BY <1>1 DEF Reading, O!Check
  <2>2. ReadInv' /\ ParsedInv' /\ Given' = Given /\ Encoding' = Encoding
    BY <2>1, <1>2, ReadUnchanged, GivenSame DEF HandleInv
  <2>3. QED
    BY <2>1, <2>2, <1>2 DEF Constructed
<1>6. CallInv'
  <2>1. frozen' = Controls'
    BY <1>3, <1>4, SwitchFacts DEF Controls, Control
  <2>2. assumptions' = Switches(check.f)' /\ query' = O!Check(check.f, check.core, check.grow)'
    BY <1>1, <1>3 DEF Switches, Control, O!Check
  <2>3. checks' \in Nat /\ checks' > 0 /\ checks' # 0
    BY <1>2 DEF HandleInv, CallInv
  <2>4. step' \in {"gather", "unsat"} /\ (step' # "unsat" => ok')
    BY <1>3
  <2>5. QED
    BY <2>1, <2>2, <2>3, <2>4, <1>5 DEF CallInv
<1>7. SolverTypes' /\ OnlyPositiveControls' /\ Sound' /\ Reversible' /\ Resolving'
  BY <1>3, <1>5, ClausesStay DEF HandleInv, SolverInv, SolverTypes
<1>8. AnswerKnown'
  BY <1>3 DEF AnswerKnown
<1>9. ContradictionSeen'
  <2>1. OppositeUnits(file)' <=> OppositeUnits(file)
    BY <1>2 DEF OppositeUnits, fileVars
  <2>2. checks' # 0
    BY <1>2 DEF HandleInv, CallInv
  <2>3. QED
    BY <2>1, <2>2, <1>2, <1>3 DEF HandleInv, SolverInv, ContradictionSeen
<1>10. QED
  BY <1>5, <1>6, <1>7, <1>8, <1>9 DEF HandleInv, SolverInv

(* The answer is taken. *)
LEMMA ThawStep ==
    ASSUME HandleInv, S!Thaw, query' = O!NoQuery,
           UNCHANGED <<cnfVars, fileVars, encoded, checks>>
    PROVE  HandleInv'
<1>1. /\ step \in {"sat", "unsat"} /\ step' = "idle" /\ assumptions' = {}
      /\ heap' = heap \cup {v \in frozen : v \notin S!eliminated \cup S!Assigned}
      /\ UNCHANGED <<ok, db, learnts, trail, queue, elimclauses, elim, model, conflict>>
  BY DEF S!Thaw, S!dbVars, S!resultVars
<1>2. ~Reading /\ ~Reading' /\ Constructed /\ checks > 0 /\ frozen = Controls
  BY <1>1 DEF HandleInv, CallInv, Constructed, Reading, O!NoQuery
<1>3. ReadInv' /\ ParsedInv' /\ Given' = Given /\ Constructed'
  <2>1. ReadInv' /\ ParsedInv' /\ Given' = Given /\ Encoding' = Encoding
    BY <1>2, ReadUnchanged, GivenSame DEF HandleInv
  <2>2. QED
    BY <2>1, <1>2 DEF Constructed
<1>4. heap' \in SUBSET S!Var
  BY <1>1, <1>2, ControlFacts DEF HandleInv, SolverInv, SolverTypes, Controls
<1>5. CallInv'
  <2>1. (query \in {[kind |-> "parse"], O!NoQuery})'
    BY DEF O!NoQuery
  <2>2. checks' \in Nat /\ checks' # 0
    BY <1>2 DEF HandleInv, CallInv
  <2>3. QED
    BY <2>1, <2>2, <1>1, <1>3 DEF CallInv
<1>6. SolverTypes' /\ OnlyPositiveControls' /\ Sound' /\ Reversible' /\ Resolving'
  BY <1>1, <1>3, <1>4, ClausesStay DEF HandleInv
<1>7. AnswerKnown'
  BY <1>1 DEF AnswerKnown
<1>8. ContradictionSeen'
  <2>1. OppositeUnits(file)' <=> OppositeUnits(file)
    BY DEF OppositeUnits, fileVars
  <2>2. checks' # 0
    BY <1>2 DEF HandleInv, CallInv
  <2>3. QED
    BY <2>1, <2>2, <1>1, <1>2 DEF HandleInv, SolverInv, ContradictionSeen
<1>9. QED
  BY <1>3, <1>5, <1>6, <1>7, <1>8 DEF HandleInv, SolverInv

LEMMA WorkKeeps ==
    ASSUME HandleInv, SolverWorks
    PROVE  HandleInv'
<1>1. SolverInv' /\ CallInv' /\ UNCHANGED callerVars
  BY WorkStep DEF HandleInv
<1>2. ReadInv' /\ ParsedInv'
  BY <1>1, ReadUnchanged DEF HandleInv, callerVars, Reading
<1>3. QED
  BY <1>1, <1>2 DEF HandleInv

LEMMA NothingHappens ==
    ASSUME HandleInv, UNCHANGED handleVars
    PROVE  HandleInv'
<1>1. UNCHANGED <<cnfVars, fileVars, encoded, checks, query, answer, ok, db, learnts, trail,
                  swept, touched, queue, heap, frozen, elimclauses, elim, assumptions, model,
                  conflict, step>>
  BY DEF handleVars, solverVars
<1>2. ReadInv' /\ ParsedInv' /\ Given' = Given /\ Encoding' = Encoding
  BY <1>1, ReadUnchanged, GivenSame DEF HandleInv, Reading
<1>3. Constructed' = Constructed
  BY <1>1, <1>2 DEF Constructed, Reading
<1>4. CallInv'
  <2>1. CASE query \in {[kind |-> "parse"], O!NoQuery} /\ step = "idle" /\ assumptions = {}
    <3>1. (query \in {[kind |-> "parse"], O!NoQuery})'
      BY <2>1, <1>1 DEF O!NoQuery
    <3>2. QED
      BY <2>1, <3>1, <1>1, <1>3 DEF HandleInv, CallInv
  <2>2. CASE /\ \E check \in Checks : /\ query = O!Check(check.f, check.core, check.grow)
                                      /\ assumptions = Switches(check.f)
             /\ step # "idle" /\ frozen = Controls
    <3>1. PICK check \in Checks : /\ query = O!Check(check.f, check.core, check.grow)
                                  /\ assumptions = Switches(check.f)
      BY <2>2
    <3>2. (/\ query = O!Check(check.f, check.core, check.grow)
           /\ assumptions = Switches(check.f) /\ frozen = Controls)'
      BY <3>1, <2>2, <1>1 DEF O!Check, Switches, Controls, Control
    <3>3. QED
      BY <3>2, <2>2, <1>1, <1>3 DEF HandleInv, CallInv
  <2>3. QED
    BY <2>1, <2>2 DEF HandleInv, CallInv
<1>5. S!ModelsOf(Given)' = S!ModelsOf(Given) /\ S!eliminated' = S!eliminated
      /\ S!Facts' = S!Facts /\ Core' = Core /\ Old' = Old /\ LastStored' = LastStored
  BY <1>1, <1>2 DEF S!eliminated, S!ModelsOf, S!Facts, Core, Units, Old, LastStored
<1>6. SolverTypes' /\ OnlyPositiveControls' /\ Sound'
  <2>1. S!eliminated' \cap Controls' = {}
    BY <1>5 DEF HandleInv, SolverInv, SolverTypes, Controls, Control
  <2>2. SolverTypes'
    BY <2>1, <1>1 DEF HandleInv, SolverInv, SolverTypes
  <2>3. QED
    BY <2>2, <1>1, <1>5 DEF HandleInv, SolverInv, OnlyPositiveControls, Sound
<1>7. Reversible'
  <2>1. S!ModelsOf(Core)' = S!ModelsOf(Core) /\ \A a : S!Extended(a)' = S!Extended(a)
    BY <1>1, <1>5 DEF S!ModelsOf, S!Extended
  <2>2. QED
    BY <2>1, <1>1, <1>5 DEF HandleInv, SolverInv, Reversible
<1>8. Resolving'
  BY <1>1, <1>2, <1>5 DEF HandleInv, SolverInv, Resolving, Implied, S!ModelsOf
<1>9. AnswerKnown'
  <2>1. S!Extended(model)' = S!Extended(model)
    BY <1>1 DEF S!Extended
  <2>2. QED
    BY <2>1, <1>1, <1>5 DEF HandleInv, SolverInv, AnswerKnown, Implied, Control
<1>10. ContradictionSeen'
  <2>1. OppositeUnits(file)' <=> OppositeUnits(file)
    BY <1>1 DEF OppositeUnits, fileVars
  <2>2. QED
    BY <2>1, <1>1, <1>2, <1>3 DEF HandleInv, SolverInv, ContradictionSeen
<1>11. QED
  BY <1>2, <1>4, <1>6, <1>7, <1>8, <1>9, <1>10 DEF HandleInv, SolverInv

---------------------------------------------------------------------------
LEMMA InitHolds == Init => HandleInv
<1> SUFFICES ASSUME Init PROVE HandleInv
  OBVIOUS
<1>1. /\ file \in Files /\ lines = file
      /\ clauses_str = <<>> /\ hard_clauses_str = <<>> /\ clauses_unique_map = {}
      /\ clauses = <<>> /\ hard_clauses = {}
      /\ encoded = 0 /\ checks = 0
      /\ query = [kind |-> "parse"] /\ answer = [kind |-> "none"]
  BY DEF Init
<1>2. /\ ok = TRUE /\ db = {} /\ learnts = {} /\ trail = {}
      /\ queue = {} /\ heap = S!Var /\ frozen = {}
      /\ elimclauses = <<>> /\ elim = [var |-> 0, old |-> {}, resolvents |-> {}]
      /\ assumptions = {} /\ model = {} /\ conflict = {} /\ step = "idle"
  BY DEF Init, S!Init, S!NoElim
<1>3. Reading
  BY <1>1 DEF Reading
<1>4. ReadInv
  <2>1. /\ file \in Seq([group : Int, text : Seq(Lit)]) /\ Len(file) \in Nat
    BY <1>1, FileType
  <2>2. lines = SubSeq(file, 0 + 1, Len(file))
    <3>1. SubSeq(file, 1, Len(file)) = file
      BY <2>1
    <3>2. QED
      BY <3>1, <1>1
  <2>3. ToSet(<<>>) = {}
    BY DEF ToSet
  <2>4. Cardinality(NewSoft(file) \cap 1..0) = 0
    <3>1. NewSoft(file) \cap 1..0 = {}
      OBVIOUS
    <3>2. QED
      BY <3>1, FS_EmptySet
  <2>5. ReadUpTo(0)
    BY <2>2, <2>3, <2>4, <1>1 DEF ReadUpTo
  <2>6. 0 \in 0..Len(file)
    BY <2>1
  <2>7. QED
    BY <2>5, <2>6, <1>1 DEF ReadInv
<1>5. ParsedInv
  BY <1>3 DEF ParsedInv
<1>6. CallInv /\ ~Constructed
  BY <1>1, <1>2, <1>3 DEF CallInv, Constructed
<1>7. Given = {}
  BY <1>3, <1>4, NothingGiven
<1>8. S!Facts = {} /\ Core = {} /\ S!eliminated = {} /\ Old = {}
  BY <1>2 DEF S!Facts, Core, Units, S!eliminated, S!ToSet, Old
<1>9. SolverTypes
  BY <1>2, <1>8 DEF SolverTypes
<1>10. OnlyPositiveControls /\ Sound
  BY <1>2, <1>8 DEF OnlyPositiveControls, Sound
<1>11. Reversible
  <2>1. ASSUME NEW a \in S!ModelsOf(Core) PROVE S!Extended(a) \in S!ModelsOf(Given)
    <3>1. a \in SUBSET S!Var
      BY DEF S!ModelsOf
    <3>2. S!Extended(a) = a
      BY <3>1, <1>2, ExtendedByNone, ExtendedSame
    <3>3. QED
      BY <3>1, <3>2, <1>7 DEF S!ModelsOf
  <2>2. QED
    BY <2>1, <1>8 DEF Reversible
<1>12. Resolving /\ AnswerKnown
  BY <1>2 DEF Resolving, AnswerKnown
<1>13. ContradictionSeen
  BY <1>2, <1>6, <1>7 DEF ContradictionSeen
<1>14. QED
  BY <1>4, <1>5, <1>6, <1>9, <1>10, <1>11, <1>12, <1>13 DEF HandleInv, SolverInv

LEMMA StepHolds == HandleInv /\ [Next]_handleVars => HandleInv'
<1> SUFFICES ASSUME HandleInv, [Next]_handleVars PROVE HandleInv'
  OBVIOUS
<1>1. CASE ReadHard \/ ReadSoft
  BY <1>1, ReadingStep
<1>2. CASE ParseEnds
  BY <1>2, ParseEndsKeeps
<1>3. CASE Encode
  BY <1>3, EncodeStep
<1>4. CASE Solve
  BY <1>4, SolveStep
<1>5. CASE SolverWorks
  BY <1>5, WorkKeeps
<1>6. CASE SolveSat
  BY <1>6, ThawStep DEF SolveSat
<1>7. CASE SolveUnsat
  BY <1>7, ThawStep DEF SolveUnsat
<1>8. CASE Finished \/ UNCHANGED handleVars
  BY <1>8, NothingHappens DEF Finished
<1>9. QED
  BY <1>1, <1>2, <1>3, <1>4, <1>5, <1>6, <1>7, <1>8 DEF Next

(* What the proofs know of every state: how far the file has been read,    *)
(* that the clauses left imply those given once eliminations are undone,   *)
(* and what an elimination under way still has to add.                     *)
THEOREM InvariantHolds == Spec => []HandleInv
BY InitHolds, StepHolds, PTL DEF Spec

(* BooleanSolver::parse drops lines that repeat a text, but neither loses  *)
(* a MUS of the file nor makes one up.                                     *)
THEOREM ParsingKeepsMuses == Spec => []MusesKept
<1>1. HandleInv => MusesKept
  <2>1. CASE Reading
    BY <2>1 DEF MusesKept
  <2>2. CASE ~Reading
    BY <2>2, ParsedMuses DEF HandleInv
  <2>3. QED
    BY <2>1, <2>2
<1>2. QED
  BY <1>1, InvariantHolds, PTL

(* SimpSolver::eliminate can be undone at any moment: extendModel makes    *)
(* any model of the clauses left one of all clauses that were added, and   *)
(* nothing the solver keeps excludes such a model.                         *)
THEOREM EliminationIsReversible == Spec => []EliminationReversible
<1>1. HandleInv => EliminationReversible
  <2> SUFFICES ASSUME HandleInv PROVE EliminationReversible
    OBVIOUS
  <2>1. ASSUME ok, NEW a \in S!ModelsOf(db \cup {{l} : l \in trail})
        PROVE  S!Extended(a) \in S!ModelsOf(Given)
    <3>1. Core \subseteq db \cup {{l} : l \in trail}
      BY DEF Core, Units
    <3>2. a \in S!ModelsOf(Core)
      BY <3>1, ModelsOfMore
    <3>3. QED
      BY <3>2, <2>1 DEF HandleInv, SolverInv, Reversible
  <2>2. ASSUME NEW a \in S!ModelsOf(Given)
        PROVE  ok /\ \A c \in S!Facts : S!Satisfies(a, c)
    BY UnitTrue DEF HandleInv, SolverInv, Sound, S!Facts
  <2>3. QED
    BY <2>1, <2>2 DEF EliminationReversible
<1>2. QED
  BY <1>1, InvariantHolds, PTL

---------------------------------------------------------------------------
(* The answers are those of the oracle.                                    *)
HardTexts(text) == {ToSet(text[n].text) : n \in {k \in DOMAIN text : text[k].group = 0}}

(* Cores are asked for only if the hard clauses have a model, or if the    *)
(* constructor can tell that they have none.                               *)
CoresMakeSense ==
    (\E check \in Checks : check.core) =>
        \A text \in Files : \/ OppositeUnits(text)
                            \/ \E a \in SUBSET Var : \A c \in HardTexts(text) : Satisfies(a, c)

LEMMA OracleSame ==
    /\ O!Constraint = Constraint /\ O!Lit = Lit /\ O!Var = Var
    /\ \A a, c : O!Satisfies(a, c) <=> Satisfies(a, c)
    /\ \A f : O!Models(f) = Models(f) /\ (O!Sat(f) <=> Sat(f))
    /\ \A f : O!Extensions(f) = Extensions(f) /\ O!Cores(f) = Cores(f)
<1>1. O!Constraint = Constraint /\ O!Lit = Lit /\ O!Var = Var
  BY DEF O!Constraint, O!Lit, O!Var, Constraint, Lit, Var
<1>2. \A a, c : O!Satisfies(a, c) <=> Satisfies(a, c)
  BY DEF O!Satisfies, O!LitTrue, Satisfies, LitTrue
<1>3. \A f : O!Models(f) = Models(f)
  BY <1>1, <1>2 DEF O!Models, Models
<1>4. \A f : O!Sat(f) <=> Sat(f)
  BY <1>3 DEF O!Sat, Sat
<1>5. \A f : O!Extensions(f) = Extensions(f)
  BY <1>1, <1>2, <1>3 DEF O!Extensions, Extensions
<1>6. \A f : O!Cores(f) = Cores(f)
  BY <1>4 DEF O!Cores, Cores
<1>7. QED
  BY <1>1, <1>2, <1>3, <1>4, <1>5, <1>6

(* Assignments of the solver and of the formula. *)
LEMMA LiteralAgrees ==
    ASSUME NEW l \in Lit, NEW a, NEW b, a \cap Var = b \cap Var
    PROVE  S!LitTrue(a, l) <=> LitTrue(b, l)
<1>1. (l > 0 /\ l \in Var) \/ (~(l > 0) /\ -l \in Var)
  BY SizesAssumption DEF Lit, Var
<1>2. QED
  BY <1>1 DEF S!LitTrue, LitTrue

LEMMA ClauseAgrees ==
    ASSUME NEW c \in SUBSET Lit, NEW a, NEW b, a \cap Var = b \cap Var
    PROVE  S!Satisfies(a, c) <=> Satisfies(b, c)
BY LiteralAgrees DEF S!Satisfies, Satisfies

LEMMA ModelOfGiven ==
    ASSUME ReadInv, ParsedInv, Constructed, NEW f \in SUBSET Constraint,
           NEW m \in S!ModelsOf(Given), \A l \in Switches(f) : S!LitTrue(m, l)
    PROVE  m \cap Var \in Models(f)
<1>1. /\ clauses \in [Constraint -> SUBSET Lit] /\ hard_clauses \in SUBSET SUBSET Lit
      /\ Given = {clauses[c] \cup {Control(c)} : c \in Constraint} \cup hard_clauses
  BY ParsedFacts DEF Constructed
<1>2. \A d \in Given : S!Satisfies(m, d)
  BY DEF S!ModelsOf
<1>3. ASSUME NEW c \in f PROVE Satisfies(m \cap Var, clauses[c])
  <2>1. S!Satisfies(m, clauses[c] \cup {Control(c)})
    BY <1>1, <1>2
  <2>2. -Control(c) \in Switches(f)
    BY DEF Switches
  <2>3. ~S!LitTrue(m, Control(c))
    BY <2>2, ControlFacts
  <2>4. S!Satisfies(m, clauses[c])
    BY <2>1, <2>3 DEF S!Satisfies
  <2>5. QED
    BY <2>4, <1>1, ClauseAgrees
<1>4. ASSUME NEW h \in hard_clauses PROVE Satisfies(m \cap Var, h)
  <2>1. S!Satisfies(m, h)
    BY <1>1, <1>2
  <2>2. QED
    BY <2>1, <1>1, ClauseAgrees
<1>5. QED
  BY <1>3, <1>4 DEF Models

LEMMA GivenHasModel ==
    ASSUME ReadInv, ParsedInv, Constructed, NEW f \in SUBSET Constraint, NEW a \in Models(f)
    PROVE  LET m == a \cup {Control(c) : c \in Constraint \ f} IN
           /\ m \in S!ModelsOf(Given)
           /\ \A c \in f : Control(c) \notin m
<1> DEFINE m == a \cup {Control(c) : c \in Constraint \ f}
<1>1. /\ clauses \in [Constraint -> SUBSET Lit] /\ hard_clauses \in SUBSET SUBSET Lit
      /\ Given = {clauses[c] \cup {Control(c)} : c \in Constraint} \cup hard_clauses
  BY ParsedFacts DEF Constructed
<1>2. /\ a \in SUBSET Var /\ \A c \in f : Satisfies(a, clauses[c])
      /\ \A h \in hard_clauses : Satisfies(a, h)
  BY DEF Models
<1>3. m \cap Var = a \cap Var
  BY ControlFacts
<1>4. m \in SUBSET S!Var
  <2>1. Var \subseteq S!Var
    BY SizesAssumption DEF Var, S!Var
  <2>2. QED
    BY <2>1, <1>2, ControlFacts
<1>5. \A c \in f : Control(c) \notin m
  BY <1>2, ControlFacts
<1>6. \A c \in Constraint \ f : Control(c) \in m
  OBVIOUS
<1> HIDE DEF m
<1>7. ASSUME NEW c \in Constraint PROVE S!Satisfies(m, clauses[c] \cup {Control(c)})
  <2>1. CASE c \in f
    <3>1. S!Satisfies(m, clauses[c])
      BY <2>1, <1>1, <1>2, <1>3, ClauseAgrees
    <3>2. QED
      BY <3>1 DEF S!Satisfies
  <2>2. CASE c \notin f
    <3>1. S!LitTrue(m, Control(c))
      BY <2>2, <1>6, ControlFacts
    <3>2. QED
      BY <3>1 DEF S!Satisfies
  <2>3. QED
    BY <2>1, <2>2
<1>8. ASSUME NEW h \in hard_clauses PROVE S!Satisfies(m, h)
  BY <1>1, <1>2, <1>3, ClauseAgrees
<1>9. m \in S!ModelsOf(Given)
  BY <1>1, <1>4, <1>7, <1>8 DEF S!ModelsOf
<1>10. QED
  BY <1>5, <1>9 DEF m

LEMMA SatAnswer ==
    ASSUME HandleInv, SolveSat
    PROVE  O!Answer
<1>1. /\ step = "sat" /\ query' = O!NoQuery /\ UNCHANGED cnfVars
      /\ answer' = [kind |-> "sat",
                    f |-> IF query.grow
                          THEN query.f \cup {c \in Constraint : S!Satisfies(model, clauses[c])}
                          ELSE query.f]
  BY DEF SolveSat
<1>2. /\ query.kind = "check" /\ query.f \in SUBSET Constraint
      /\ assumptions = Switches(query.f) /\ Constructed /\ ~Reading
  BY <1>1, CheckFacts DEF HandleInv
<1>3. model \in S!ModelsOf(Given) /\ \A l \in assumptions : S!LitTrue(model, l)
  BY <1>1 DEF HandleInv, SolverInv, AnswerKnown
<1> DEFINE a == model \cap Var
<1>4. a \in Models(query.f) /\ a \cap Var = model \cap Var
  BY <1>2, <1>3, ModelOfGiven DEF HandleInv
<1> HIDE DEF a
<1>5. \A c \in Constraint : S!Satisfies(model, clauses[c]) <=> Satisfies(a, clauses[c])
  <2>1. clauses \in [Constraint -> SUBSET Lit]
    BY <1>2, ParsedFacts DEF HandleInv
  <2>2. QED
    BY <2>1, <1>4, ClauseAgrees
<1>6. O!Sat(query.f)
  BY <1>4, OracleSame DEF Sat
<1>7. \E g \in IF query.grow THEN O!Extensions(query.f) ELSE {query.f} :
            answer' = [kind |-> "sat", f |-> g]
  <2>1. CASE query.grow
    <3> DEFINE g == query.f \cup {c \in Constraint : Satisfies(a, clauses[c])}
    <3>1. g \in O!Extensions(query.f)
      BY <1>4, OracleSame DEF Extensions
    <3>2. query.f \cup {c \in Constraint : S!Satisfies(model, clauses[c])} = g
      BY <1>5
    <3>3. answer' = [kind |-> "sat", f |-> g]
      BY <3>2, <2>1, <1>1
    <3>4. QED
      BY <3>1, <3>3, <2>1
  <2>2. CASE ~query.grow
    BY <2>2, <1>1
  <2>3. QED
    BY <2>1, <2>2
<1>8. UNCHANGED O!cnfVars
  BY <1>1 DEF cnfVars, O!cnfVars
<1>9. QED
  BY <1>1, <1>2, <1>6, <1>7, <1>8 DEF O!Answer

(* Without a model of the clauses the hard ones have none.                 *)
LEMMA NoModelNoHardModel ==
    ASSUME HandleInv, Constructed, ~ok, NEW f \in SUBSET Constraint
    PROVE  ~Sat(f)
<1>1. S!ModelsOf(Given) = {}
  BY DEF HandleInv, SolverInv, Sound
<1>2. Models(f) = {}
  BY <1>1, GivenHasModel DEF HandleInv
<1>3. QED
  BY <1>2 DEF Sat

LEMMA StaleConflict ==
    ASSUME HandleInv, CoresMakeSense, step = "unsat", ~ok, query.core
    PROVE  conflict = {}
<1>1. Constructed /\ ~Reading /\ file \in Files /\ lines = <<>>
  BY CheckFacts DEF HandleInv, ReadInv, ParsedInv
<1>2. \E check \in Checks : check.core
  <2>1. PICK check \in Checks : query = O!Check(check.f, check.core, check.grow)
    BY DEF HandleInv, CallInv
  <2>2. QED
    BY <2>1 DEF O!Check
<1>3. CASE OppositeUnits(file)
  BY <1>3 DEF HandleInv, SolverInv, ContradictionSeen
<1>4. CASE \E a \in SUBSET Var : \A c \in HardTexts(file) : Satisfies(a, c)
  <2>1. PICK a \in SUBSET Var : \A c \in HardTexts(file) : Satisfies(a, c)
    BY <1>4
  <2>2. hard_clauses = {ToSet(hard_clauses_str[h]) : h \in DOMAIN hard_clauses_str}
    BY <1>1, ParsedFacts DEF HandleInv
  <2>3. ToSet(hard_clauses_str) = {file[i].text : i \in HardLines}
    BY <1>1, AllRead DEF HandleInv
  <2>4. hard_clauses \subseteq HardTexts(file)
    <3>1. ASSUME NEW h \in DOMAIN hard_clauses_str PROVE ToSet(hard_clauses_str[h]) \in HardTexts(file)
      <4>1. hard_clauses_str[h] \in ToSet(hard_clauses_str)
        BY DEF ToSet
      <4>2. PICK i \in HardLines : hard_clauses_str[h] = file[i].text
        BY <4>1, <2>3
      <4>3. i \in {k \in DOMAIN file : file[k].group = 0}
        BY DEF HardLines, SoftLines
      <4>4. QED
        BY <4>2, <4>3 DEF HardTexts
    <3>2. QED
      BY <3>1, <2>2
  <2>5. a \in Models({})
    BY <2>1, <2>4 DEF Models
  <2>6. QED
    BY <2>5, <1>1, NoModelNoHardModel DEF Sat
<1>5. QED
  BY <1>1, <1>2, <1>3, <1>4 DEF CoresMakeSense

LEMMA UnsatAnswer ==
    ASSUME HandleInv, SolveUnsat, CoresMakeSense
    PROVE  O!Answer
<1> DEFINE g == {S!VarOf(l) - vars : l \in conflict}
<1>1. /\ step = "unsat" /\ query' = O!NoQuery /\ UNCHANGED cnfVars
      /\ answer' = [kind |-> "unsat", f |-> IF query.core THEN g ELSE query.f]
  BY DEF SolveUnsat
<1>2. /\ query.kind = "check" /\ query.f \in SUBSET Constraint
      /\ Constructed /\ ~Reading
  BY <1>1, CheckFacts DEF HandleInv
<1>3. ASSUME conflict \subseteq {Control(c) : c \in query.f}, Implied(conflict),
             NEW f \in SUBSET Constraint, \A c \in query.f : Control(c) \in conflict => c \in f
      PROVE  ~Sat(f)
  <2>1. SUFFICES ASSUME NEW a \in Models(f) PROVE FALSE
    BY DEF Sat
  <2> DEFINE m == a \cup {Control(c) : c \in Constraint \ f}
  <2>2. m \in S!ModelsOf(Given) /\ \A c \in f : Control(c) \notin m
    BY <1>2, GivenHasModel DEF HandleInv
  <2> HIDE DEF m
  <2>3. PICK l \in conflict : S!LitTrue(m, l)
    BY <2>2, <1>3 DEF Implied, S!Satisfies
  <2>4. PICK c \in query.f : l = Control(c)
    BY <1>3
  <2>5. c \in f /\ Control(c) \in m
    BY <2>3, <2>4, <1>2, <1>3, ControlFacts
  <2>6. QED
    BY <2>2, <2>5
<1>4. ~Sat(query.f)
  <2>1. CASE ~ok
    BY <2>1, <1>2, NoModelNoHardModel
  <2>2. CASE conflict \subseteq {Control(c) : c \in query.f} /\ Implied(conflict)
    BY <2>2, <1>2, <1>3
  <2>3. QED
    BY <2>1, <2>2, <1>1 DEF HandleInv, SolverInv, AnswerKnown
<1>5. ASSUME query.core PROVE g \in Cores(query.f)
  <2>1. CASE ~ok
    <3>1. conflict = {}
      BY <2>1, <1>1, <1>5, StaleConflict
    <3>2. g = {}
      BY <3>1
    <3> HIDE DEF g
    <3>3. ~Sat({})
      BY <2>1, <1>2, NoModelNoHardModel
    <3>4. QED
      BY <3>2, <3>3 DEF Cores
  <2>2. CASE conflict \subseteq {Control(c) : c \in query.f} /\ Implied(conflict)
    <3>1. \A c \in query.f : S!VarOf(Control(c)) - vars = c
      BY <1>2, ControlFacts
    <3>2. g \subseteq query.f
      BY <3>1, <2>2
    <3>3. \A c \in query.f : Control(c) \in conflict => c \in g
      BY <3>1
    <3> HIDE DEF g
    <3>4. ~Sat(g)
      BY <3>2, <3>3, <2>2, <1>2, <1>3
    <3>5. QED
      BY <3>2, <3>4 DEF Cores
  <2>3. QED
    BY <2>1, <2>2, <1>1 DEF HandleInv, SolverInv, AnswerKnown
<1> HIDE DEF g
<1>6. ~O!Sat(query.f)
  BY <1>4, OracleSame
<1>7. \E h \in IF query.core THEN O!Cores(query.f) ELSE {query.f} :
            answer' = [kind |-> "unsat", f |-> h]
  <2>1. CASE query.core
    BY <2>1, <1>1, <1>5, OracleSame
  <2>2. CASE ~query.core
    BY <2>2, <1>1
  <2>3. QED
    BY <2>1, <2>2
<1>8. UNCHANGED O!cnfVars
  BY <1>1 DEF cnfVars, O!cnfVars
<1>9. QED
  BY <1>1, <1>2, <1>6, <1>7, <1>8 DEF O!Answer

LEMMA OracleStep ==
    ASSUME HandleInv, HandleInv', CoresMakeSense, [Next]_handleVars
    PROVE  [O!Next]_(O!satVars)
<1>1. CASE UNCHANGED <<cnfVars, query, answer>>
  BY <1>1 DEF O!satVars, O!cnfVars, cnfVars
<1>2. CASE ReadHard \/ ReadSoft \/ Encode \/ SolverWorks \/ Finished \/ UNCHANGED handleVars
  <2>1. UNCHANGED <<cnfVars, query, answer>>
    BY <1>2 DEF ReadHard, ReadSoft, Encode, SolverWorks, Finished, handleVars
  <2>2. QED
    BY <2>1, <1>1
<1>3. CASE ParseEnds
  <2>1. query.kind = "parse" /\ query' = O!NoQuery /\ answer' = answer
    BY <1>3 DEF ParseEnds, Reading
  <2>2. (ReadInv /\ ParsedInv /\ ~Reading =>
            clauses \in [Constraint -> SUBSET Lit] /\ hard_clauses \in SUBSET SUBSET Lit)'
    BY ParsedFacts, PTL
  <2>3. ~Reading'
    BY <2>1 DEF Reading, O!NoQuery
  <2>4. clauses' \in [Constraint -> SUBSET Lit] /\ hard_clauses' \in SUBSET SUBSET Lit
    BY <2>2, <2>3 DEF HandleInv, Constraint, Lit, Var
  <2>5. O!Load
    BY <2>1, <2>4, OracleSame DEF O!Load
  <2>6. QED
    BY <2>5 DEF O!Next
<1>4. CASE Solve
  <2>1. PICK check \in Checks : query' = O!Check(check.f, check.core, check.grow)
    BY <1>4 DEF Solve
  <2>2. check.f \in SUBSET Constraint /\ check.core \in BOOLEAN /\ check.grow \in BOOLEAN
    BY ChecksAssumption
  <2>3. query.kind = "none" /\ UNCHANGED <<O!cnfVars, answer>>
    BY <1>4 DEF Solve, cnfVars, O!cnfVars
  <2>4. O!Ask
    BY <2>1, <2>2, <2>3, OracleSame DEF O!Ask
  <2>5. QED
    BY <2>4 DEF O!Next
<1>5. CASE SolveSat
  BY <1>5, SatAnswer DEF O!Next
<1>6. CASE SolveUnsat
  BY <1>6, UnsatAnswer DEF O!Next
<1>7. QED
  BY <1>2, <1>3, <1>4, <1>5, <1>6 DEF Next

(* GlucoseHandle answers every call as SatOracle does, although SimpSolver *)
(* forgets variables and clauses between the calls and never gets them     *)
(* back.  Contradictory hard clauses that neither the constructor nor an   *)
(* earlier call has noticed are excluded where a core is asked for: then   *)
(* it may be read from the conflict of an earlier call.                    *)
THEOREM AnswersLikeOracle ==
    ASSUME CoresMakeSense
    PROVE  Spec => ImplementsOracle
<1>1. Init => O!Init
  BY DEF Init, O!Init
<1>2. HandleInv /\ HandleInv' /\ [Next]_handleVars => [O!Next]_(O!satVars)
  BY OracleStep
<1>3. QED
  BY <1>1, <1>2, InvariantHolds, PTL DEF Spec, O!Spec, ImplementsOracle
===========================================================================
