------------------------------ MODULE MCServer ------------------------------
EXTENDS Server, TLC

CONSTANTS s1, s2

World(picked, first, second, may) ==
    [picked |-> picked, turns |-> s1 :> first @@ s2 :> second, may |-> may]

\* One conversation and everything that may befall its server, one whose account goes and comes
\* back, and two of them with one thing at a time to befall theirs.
MCWorlds == {World({}, 2, 0, {"wedge", "ask", "die"}), World({}, 3, 0, {"move", "refuse"}),
             World({}, 2, 1, {"move"}), World({s1}, 2, 1, {"leave", "refuse"}),
             World({}, 1, 1, {"ask"}), World({}, 1, 1, {"stop"}), World({}, 1, 1, {"die"}),
             World({s2}, 1, 1, {"wedge"})}
=============================================================================
