------------------------------- MODULE MCWalk -------------------------------
EXTENDS Walk, TLC

CONSTANTS s1, s2, a, b, c

\* The three shapes a chain has: one that ends, one that comes round, one naming nobody.
Ending == (a :> b) @@ (b :> c) @@ (c :> "")
Round == (a :> b) @@ (b :> c) @@ (c :> a)
Broken == (a :> b) @@ (b :> Nowhere) @@ (c :> "")

Place(tries, policy, timeout) == [tries |-> tries, policy |-> policy, timeout |-> timeout]
Once == Place(0, "exponential-jitter", 0)

MCWorld(chain, own, next, one, other, turns1, turns2, may) ==
    [falls |-> chain, again |-> (0 :> own) @@ (1 :> next),
     faults |-> (s1 :> one) @@ (s2 :> other), turns |-> (s1 :> turns1) @@ (s2 :> turns2),
     anew |-> may]

\* One conversation, twice: every kind of failure and every way of waiting.
Alone(chain, own, next) == MCWorld(chain, own, next, Kinds, {}, 2, 0, "never")

\* One conversation, twice, while somebody writes a fallback anew.
Anew(chain) == MCWorld(chain, Once, Once, {"", "retired"}, {}, 2, 0, "may")

\* Two conversations at once, over accounts that refuse.
Both(chain, one, other) ==
    MCWorld(chain, Place(0, "none", 0), Once, one, other, 1, 1, "never")

MCWorlds ==
    {Alone(Ending, Once, Place(2, "linear", 3)), Alone(Round, Place(2, "exponential", 3), Once),
     Alone(Ending, Place(3, "fibonacci", 4), Once), Alone(Broken, Place(2, "constant", 0), Once),
     Alone(Broken, Place(2, "exponential-jitter", 0), Once), Anew(Round),
     Both(Ending, {"", "refused"}, {"retired"}), Both(Round, {""}, {"refused"})}
=============================================================================
