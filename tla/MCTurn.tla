-------------------------------- MODULE MCTurn --------------------------------
(***************************************************************************)
(* One conversation of two turns for TLC, and a few hands on it: an        *)
(* interrupt and a stop, the budget's clock by itself, and either of the   *)
(* two beside somebody closing the conversation as one turn is taken.      *)
(***************************************************************************)
EXTENDS Turn

CONSTANTS h1, s1, c1, timer

OneBudget == {[when |-> "next-response", then |-> "end"]}

World(there, takes) == [calls |-> there, turns |-> takes]
MCWorlds == {World({h1, s1}, 2), World({timer}, 2), World({h1, c1}, 1), World({timer, c1}, 1)}
=============================================================================
