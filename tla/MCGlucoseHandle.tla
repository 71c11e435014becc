-------------------------- MODULE MCGlucoseHandle --------------------------
(***************************************************************************)
(* Files with four constraints over three variables.  In the last one each *)
(* variable occurs too often to be eliminated at once.                     *)
(***************************************************************************)
EXTENDS GlucoseHandle

Plain(text) == [group |-> -1, text |-> text]
InGroup(g, text) == [group |-> g, text |-> text]

MCFiles ==
    { (* examples/test.gcnf *)
      <<InGroup(0, <<1>>), InGroup(1, <<-1>>), InGroup(2, <<2>>), InGroup(3, <<-2>>),
        InGroup(4, <<1, 2>>)>>,
      (* texts repeated among soft lines, and before a hard one *)
      <<Plain(<<1, 2>>), Plain(<<1, -2>>), InGroup(0, <<1, -2>>), Plain(<<1, 2>>),
        Plain(<<2, 1>>), Plain(<<-1, 3>>), InGroup(0, <<-3, -1>>), Plain(<<-3, -1>>)>>,
      (* hard clauses that contradict each other *)
      <<InGroup(0, <<3>>), InGroup(0, <<-3>>), InGroup(0, <<1, 2>>), InGroup(1, <<1>>),
        InGroup(2, <<2>>), InGroup(3, <<-1, 3>>), InGroup(4, <<-1>>)>>,
      (* clauses satisfied or falsified by others *)
      <<InGroup(1, <<1, -2>>), InGroup(2, <<-2, -3>>), InGroup(3, <<2, -2>>),
        InGroup(4, <<-1, 2>>), InGroup(0, <<3>>), InGroup(0, <<3, 1>>), InGroup(0, <<-3, 2>>)>>,
      <<InGroup(1, <<1, 2>>), InGroup(2, <<1, 3>>), InGroup(3, <<-1, 2>>), InGroup(4, <<-1, -3>>),
        InGroup(0, <<-1, -2, 3>>), InGroup(0, <<1, -2, -3>>)>> }

MCChecks ==
    {[f |-> f, core |-> TRUE, grow |-> TRUE] : f \in {g \in SUBSET Constraint : Cardinality(g) # 1}}
        \cup {[f |-> {1, 2, 4}, core |-> FALSE, grow |-> FALSE]}
===========================================================================
