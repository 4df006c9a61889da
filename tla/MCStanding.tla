----------------------------- MODULE MCStanding -----------------------------
(***************************************************************************)
(* A process with everything that may happen to it, one that is cut beside *)
(* one whose command is left to end, and one whose command is slow to      *)
(* begin and whose process no signal to cancel it ends.                    *)
(***************************************************************************)
EXTENDS Standing

CONSTANTS p1, p2

World(asks, cut, readers, writers, slow, full, deaf, others) ==
    [asks |-> asks, cut |-> cut, readers |-> readers, writers |-> writers,
     slow |-> slow, full |-> full, deaf |-> deaf, others |-> others]
MCWorlds == {World({p1}, {p1}, {p1}, {p1}, {}, {p1}, {}, TRUE),
             World({p1}, {p1}, {}, {}, {p1}, {}, {p1}, TRUE),
             World({p1, p2}, {p1}, {}, {}, {}, {}, {}, FALSE)}
=============================================================================
