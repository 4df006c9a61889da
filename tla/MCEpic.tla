------------------------------- MODULE MCEpic -------------------------------
(***************************************************************************)
(* Runs of a flow that calls two others, or one twice, each time once: one *)
(* beside the other or under it, on one thread or on two.                  *)
(***************************************************************************)
EXTENDS Epic, TLC

CONSTANTS c1, c2, main, x, y

Plan(one, two, above, apart) ==
    [flow |-> Root :> main @@ c1 :> one @@ c2 :> two, under |-> c1 :> Root @@ c2 :> above,
     thread |-> Root :> Root @@ c1 :> Root @@ c2 :> apart]
MCWorlds == {Plan(x, y, Root, Root), Plan(x, y, c1, Root), Plan(x, x, Root, Root),
             Plan(x, y, c1, c2), Plan(x, x, Root, c2)}
=============================================================================
