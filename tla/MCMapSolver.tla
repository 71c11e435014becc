----------------------------- MODULE MCMapSolver ---------------------------
(***************************************************************************)
(* A map of five constraints.  block_down adds clauses of positive         *)
(* literals, block_up of negative ones.  The first three make a conflict   *)
(* over several levels, the fourth makes a literal of it redundant; the    *)
(* rest are literals of level 0, a clause satisfied there, and clauses     *)
(* that leave no unexplored subset.                                        *)
(***************************************************************************)
EXTENDS MapSolver

MCMaps ==
    { <<{2, 3, 4}, {2, 3, 5}, {-1, -4, -5}, {-1, -2}, {1}, {1, 4},
        {-3, -4}, {-3, -5}, {4, 5}, {3}>> }

(* get_top_unexplored, get_bot_unexplored over a subset, is_critical,      *)
(* isUnexplored.                                                           *)
MCQueries ==
    { [assumptions |-> <<>>, polarity |-> "true"],
      [assumptions |-> <<-1, -2>>, polarity |-> "false"],
      [assumptions |-> <<1, -2, -3>>, polarity |-> "any"] }
===========================================================================
