------------------------------- MODULE MCRemote -------------------------------
(***************************************************************************)
(* A command or a file streamed there, each beside one round trip, and     *)
(* alone at a target that may go of itself.                                *)
(***************************************************************************)
EXTENDS Remote

CONSTANTS c1, w1, e1

World(requests, listens) == [asks |-> requests, listening |-> listens]
MCWorlds == {World({c1, e1}, FALSE), World({c1, w1}, FALSE), World({e1}, TRUE), World({w1}, TRUE)}
=============================================================================
