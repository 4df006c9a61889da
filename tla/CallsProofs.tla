------------------------------ MODULE CallsProofs ------------------------------
(***************************************************************************)
(* Proofs about Calls, for any number of calls over any number of agents,  *)
(* whatever each is handed, brings and says its agents may do.             *)
(***************************************************************************)
EXTENDS Calls, FiniteSetTheorems, TLAPS

-----------------------------------------------------------------------------
(* The agents go back as they came.                                        *)

\* A call has its agents from when it takes them until it has ended.
HeldByTheTaken == held = [a \in Agents |-> {c \in Taken : a \in Drives[c]}]

\* What is kept of an agent is how it was before anybody took it.
KeptAsItWas ==
    \A a \in Agents : IF held[a] = {} THEN agent[a] = Origin ELSE was[a] = Origin

Stages == {"none", "pending", "made", "running", "over"}

HInv ==
    /\ stage \in [Calls -> Stages]
    /\ DOMAIN was = Agents /\ DOMAIN agent = Agents
    /\ HeldByTheTaken
    /\ KeptAsItWas

LEMMA InitHInv == Init => HInv
BY DEF Init, HInv, HeldByTheTaken, KeptAsItWas, Taken, Stages

\* What taking comes to, of what is kept about the agents.
TakesAgents(c) ==
    /\ held' = [a \in Agents |-> IF a \in Drives[c] THEN held[a] \cup {c} ELSE held[a]]
    /\ was' = [a \in Agents |-> IF a \in Drives[c] /\ held[a] = {} THEN agent[a] ELSE was[a]]
    /\ DOMAIN agent' = Agents
    /\ \A a \in Agents : a \notin Drives[c] => agent'[a] = agent[a]

\* Taking: whichever way the call was made, it was not one of those that had an agent.
LEMMA TakesHInv ==
    ASSUME HInv, NEW c \in Calls, stage[c] \in {"none", "pending"},
           \E s \in {"made", "running"} : stage' = [stage EXCEPT ![c] = s],
           TakesAgents(c)
    PROVE  HInv'
<1>1. Taken' = Taken \cup {c} /\ c \notin Taken
  BY DEF HInv, Taken, Stages
<1>2. HeldByTheTaken'
  BY <1>1 DEF TakesAgents, HInv, HeldByTheTaken
<1>3. KeptAsItWas'
  <2> SUFFICES ASSUME NEW a \in Agents
               PROVE  IF held'[a] = {} THEN agent'[a] = Origin ELSE was'[a] = Origin
    BY DEF KeptAsItWas, Origin
  <2>1. CASE a \in Drives[c] BY <2>1 DEF TakesAgents, HInv, KeptAsItWas
  <2>2. CASE a \notin Drives[c] BY <2>2 DEF TakesAgents, HInv, KeptAsItWas
  <2>3. QED BY <2>1, <2>2
<1>4. QED
  BY <1>2, <1>3 DEF TakesAgents, HInv, Stages

LEMMA EndsHInv == ASSUME HInv, NEW c \in Calls, Ends(c) PROVE HInv'
<1>1. Taken' = Taken \ {c} /\ c \in Taken
  BY DEF Ends, HInv, Taken, Stages
<1>2. held' = [a \in Agents |-> held[a] \ {c}]
  BY DEF Ends, GivesBack
<1>3. was' = was /\ DOMAIN agent' = Agents
  BY DEF Ends, GivesBack
<1>4. \A a \in Agents :
        /\ c \notin held[a] => agent'[a] = agent[a]
        /\ c \in held[a] /\ held[a] \ {c} = {} => agent'[a] = was[a]
  BY DEF Ends, GivesBack
<1>5. HeldByTheTaken'
  BY <1>1, <1>2 DEF HInv, HeldByTheTaken
<1>6. KeptAsItWas'
  BY <1>2, <1>3, <1>4 DEF HInv, KeptAsItWas, Origin
<1>7. stage' \in [Calls -> Stages]
  BY DEF Ends, HInv, Stages
<1>8. QED
  BY <1>3, <1>5, <1>6, <1>7 DEF HInv

LEMMA StepHInv == HInv /\ [Next]_vars => HInv'
<1> SUFFICES ASSUME HInv, [Next]_vars PROVE HInv'
  OBVIOUS
<1>1. ASSUME UNCHANGED claims, Taken' = Taken, stage' \in [Calls -> Stages] PROVE HInv'
  <2>1. held' = held /\ was' = was /\ agent' = agent
    BY <1>1 DEF claims
  <2>2. HeldByTheTaken'
    BY <1>1, <2>1 DEF HInv, HeldByTheTaken
  <2>3. KeptAsItWas'
    BY <2>1 DEF HInv, KeptAsItWas, Origin
  <2>4. QED
    BY <1>1, <2>1, <2>2, <2>3 DEF HInv, Stages
<1>2. ASSUME NEW c \in Calls, NEW n \in Nodes, CallsHere(c, n) PROVE HInv'
  <2>1. /\ stage[c] \in {"none", "pending"}
        /\ \E s \in {"made", "running"} : stage' = [stage EXCEPT ![c] = s]
        /\ TakesAgents(c)
    BY <1>2 DEF CallsHere, Takes, TakesAgents
  <2>2. QED BY <2>1, TakesHInv
<1>3. ASSUME NEW c \in Calls, NEW n \in Nodes, Gathers(c, n) PROVE HInv'
  <2>1. UNCHANGED claims BY <1>3 DEF Gathers
  <2>2. Taken' = Taken /\ stage' \in [Calls -> Stages]
    BY <1>3 DEF Gathers, HInv, Taken, Stages
  <2>3. QED BY <1>1, <2>1, <2>2
<1>4. ASSUME NEW c \in Calls, NEW n \in Nodes, Makes(c, n) PROVE HInv'
  <2>1. /\ stage[c] \in {"none", "pending"}
        /\ \E s \in {"made", "running"} : stage' = [stage EXCEPT ![c] = s]
        /\ TakesAgents(c)
    BY <1>4 DEF Makes, Takes, TakesAgents
  <2>2. QED BY <2>1, TakesHInv
<1>5. ASSUME NEW c \in Calls, Starts(c) PROVE HInv'
  <2>1. /\ stage[c] \in {"none", "pending"}
        /\ \E s \in {"made", "running"} : stage' = [stage EXCEPT ![c] = s]
        /\ TakesAgents(c)
    BY <1>5 DEF Starts, Takes, TakesAgents
  <2>2. QED BY <2>1, TakesHInv
<1>6. ASSUME NEW c \in Calls, NeverStarts(c) \/ RefusedApart(c) PROVE HInv'
  BY <1>6, <1>1 DEF NeverStarts, RefusedApart, Refused, HInv, Taken, Stages
<1>10. ASSUME NEW c \in Calls, NEW n \in Nodes, RefusedHere(c, n) PROVE HInv'
  BY <1>10, <1>1 DEF RefusedHere, Refused, HInv, Taken, Stages
<1>7. ASSUME NEW c \in Calls, AwaitsHere(c) \/ AwaitsApart(c) PROVE HInv'
  BY <1>7, <1>1 DEF AwaitsHere, AwaitsApart, HInv, Taken, Stages
<1>8. CASE UNCHANGED vars
  BY <1>8, <1>1 DEF vars, calls, HInv, Taken
<1>9. QED
  BY <1>2, <1>3, <1>4, <1>5, <1>6, <1>7, <1>8, <1>10, EndsHInv DEF Next

\* However many calls share an agent, and in whatever order they end, the last of them to
\* let go leaves it as it was before the first.
THEOREM GoesBackAsItCame == Spec => []HandedBack
<1>1. HInv => HandedBack
  BY DEF HInv, HeldByTheTaken, KeptAsItWas, HandedBack
<1>2. QED
  BY <1>1, InitHInv, StepHInv, PTL DEF Spec

-----------------------------------------------------------------------------
(* A call is on the branch of whoever made it.                             *)

\* The flows that have begun to run, whether or not they have ended.
Been == {Root} \cup {c \in Calls : stage[c] \in {"running", "over"}}

BTypes ==
    /\ stage \in [Calls -> Stages]
    /\ caller \in [Calls -> Nodes \cup {None}]
    /\ ctx \in [Nodes -> Nodes]
    /\ on \in [Nodes -> Nodes]

\* A call is made by a flow that is running, and is in a task of its own until it runs.
MadeByTheRunning ==
    /\ \A c \in Calls : stage[c] # "none" => caller[c] \in Been
    /\ \A n \in Nodes : n = Root \/ n \notin Been => ctx[n] = n
    /\ \A n \in Been : ctx[n] \in Been

\* _ON is the flow whose code is running, in the task it runs in; and in a task that has not
\* begun, the flow that started it.
OnIsWhoRuns ==
    /\ \A n \in Nodes : Runs(n) => on[ctx[n]] = n
    /\ \A c \in Calls : stage[c] = "pending" => on[c] = caller[c]

\* A branch is finite, holds the branch of each flow on it, and none of them is on its own.
Chained ==
    /\ above \in [Nodes -> SUBSET Nodes]
    /\ \A n \in Nodes :
        /\ IsFiniteSet(above[n]) /\ n \notin above[n] /\ above[n] \subseteq Been
        /\ \A v \in above[n] : above[v] \subseteq above[n]

BInv == BTypes /\ MadeByTheRunning /\ OnIsWhoRuns /\ Chained /\ BranchIsTheCallers

LEMMA InitBInv == Init => BInv
<1> SUFFICES ASSUME Init PROVE BInv
  OBVIOUS
<1>1. BTypes
  BY RootAssumption DEF Init, BTypes, Stages, Nodes
<1>2. MadeByTheRunning
  BY DEF Init, MadeByTheRunning, Been, Nodes
<1>3. Been = {Root} BY DEF Init, Been
<1>4. OnIsWhoRuns
  BY DEF Init, OnIsWhoRuns, Runs, Nodes
<1>5. Chained
  BY FS_EmptySet DEF Init, Chained
<1>6. BranchIsTheCallers
  BY DEF Init, BranchIsTheCallers, Taken
<1>7. QED BY <1>1, <1>2, <1>4, <1>5, <1>6 DEF BInv

\* A branch written down: that of a flow that has begun, and the flow itself.
Branches(c, n) == above' = [above EXCEPT ![c] = {n} \cup above[n]]

LEMMA BranchesChained ==
    ASSUME BInv, NEW c \in Calls, c \notin Been, NEW n \in Been, Branches(c, n),
           Been \subseteq Been'
    PROVE  Chained'
<1>0. n \in Nodes /\ c \in Nodes BY DEF Been, Nodes
<1>1. \A v \in Nodes : v # c => above'[v] = above[v]
  BY DEF BInv, Chained, Branches
<1>2. above'[c] = {n} \cup above[n]
  BY <1>0 DEF BInv, Chained, Branches
<1>3. IsFiniteSet(above'[c])
  BY <1>0, <1>2, FS_AddElement DEF BInv, Chained
<1>4. \A v \in Nodes : c \notin above[v]
  BY DEF BInv, Chained
<1> SUFFICES ASSUME NEW m \in Nodes
             PROVE  /\ IsFiniteSet(above'[m]) /\ m \notin above'[m] /\ above'[m] \subseteq Been'
                    /\ \A v \in above'[m] : above'[v] \subseteq above'[m]
  <2>1. above' \in [Nodes -> SUBSET Nodes]
    BY <1>0 DEF BInv, Chained, Branches
  <2>2. QED BY <2>1 DEF Chained
<1>5. \A v \in above[n] : v \in Nodes /\ v # c /\ above[v] \subseteq above[n]
  BY <1>0, <1>4 DEF BInv, Chained
<1>6. CASE m = c
  BY <1>0, <1>1, <1>2, <1>3, <1>4, <1>5, <1>6 DEF BInv, Chained
<1>7. CASE m # c
  <2>1. \A v \in above[m] : v \in Nodes /\ v # c
    BY <1>4 DEF BInv, Chained
  <2>2. QED BY <1>1, <1>7, <2>1 DEF BInv, Chained
<1>8. QED BY <1>6, <1>7

LEMMA BranchesCallers ==
    ASSUME BInv, NEW c \in Calls, c \notin Been, NEW n \in Been, Branches(c, n),
           Taken' \subseteq Taken \cup {c}, caller'[c] = n,
           \A d \in Calls : d # c => caller'[d] = caller[d]
    PROVE  BranchIsTheCallers'
<1>0. n \in Nodes /\ c \in Nodes BY DEF Been, Nodes
<1>1. \A v \in Nodes : v # c => above'[v] = above[v]
  BY DEF BInv, Chained, Branches
<1>2. above'[c] = {n} \cup above[n]
  BY <1>0 DEF BInv, Chained, Branches
<1> SUFFICES ASSUME NEW d \in Taken'
             PROVE  above'[d] = {caller'[d]} \cup above'[caller'[d]]
  BY DEF BranchIsTheCallers
<1>3. CASE d = c
  BY <1>0, <1>1, <1>2, <1>3
<1>4. CASE d # c
  <2>1. d \in Taken /\ d \in Nodes /\ d \in Calls /\ stage[d] # "none"
    BY <1>4 DEF Taken, Nodes
  <2>2. caller[d] \in Been /\ caller[d] # c
    BY <2>1 DEF BInv, MadeByTheRunning
  <2>3. caller[d] \in Nodes BY <2>2 DEF Been, Nodes
  <2>4. QED BY <1>1, <1>4, <2>1, <2>2, <2>3 DEF BInv, BranchIsTheCallers
<1>5. QED BY <1>3, <1>4

\* A call that leaves the branches alone.
LEMMA SameBranches ==
    ASSUME BInv, above' = above, caller' = caller, Taken' \subseteq Taken,
           Been \subseteq Been'
    PROVE  Chained' /\ BranchIsTheCallers'
BY DEF BInv, Chained, BranchIsTheCallers

\* A call that begins to run where its caller runs: the caller waits for it.
LEMMA RunsHere ==
    ASSUME BInv, NEW c \in Calls, c \notin Been, NEW n \in Nodes, Runs(n), n # c,
           stage' = [stage EXCEPT ![c] = "running"],
           caller' = [caller EXCEPT ![c] = n],
           ctx' = [ctx EXCEPT ![c] = ctx[n]],
           on' = [on EXCEPT ![ctx[n]] = c]
    PROVE  BTypes' /\ MadeByTheRunning' /\ OnIsWhoRuns' /\ Been \subseteq Been'
<1>0. c \in Nodes /\ n \in Been /\ on[ctx[n]] = n /\ ctx[n] \in Nodes /\ ctx[n] \in Been
  BY DEF BInv, BTypes, OnIsWhoRuns, MadeByTheRunning, Runs, Been, Nodes
<1>1. Been' = Been \cup {c}
  BY DEF BInv, BTypes, Been
<1>2. BTypes'
  <2>1. stage' \in [Calls -> Stages] /\ caller' \in [Calls -> Nodes \cup {None}]
    BY DEF BInv, BTypes, Stages
  <2>2. ctx' \in [Nodes -> Nodes] /\ on' \in [Nodes -> Nodes]
    BY <1>0 DEF BInv, BTypes
  <2>3. QED BY <2>1, <2>2 DEF BTypes
<1>3. MadeByTheRunning'
  <2>1. \A d \in Calls : stage'[d] # "none" => caller'[d] \in Been'
    BY <1>0, <1>1 DEF BInv, BTypes, MadeByTheRunning
  <2>2. \A m \in Nodes : m = Root \/ m \notin Been' => ctx'[m] = m
    BY <1>1, RootAssumption DEF BInv, BTypes, MadeByTheRunning
  <2>3. \A m \in Been' : ctx'[m] \in Been'
    BY <1>0, <1>1 DEF BInv, BTypes, MadeByTheRunning, Been, Nodes
  <2>4. QED BY <2>1, <2>2, <2>3 DEF MadeByTheRunning
<1>4. \A d \in Calls : stage'[d] = "running" <=> d = c \/ stage[d] = "running"
  BY DEF BInv, BTypes
<1>5. /\ ctx'[c] = ctx[n] /\ \A m \in Nodes : m # c => ctx'[m] = ctx[m]
      /\ caller'[c] = n /\ \A d \in Calls : d # c => caller'[d] = caller[d]
      /\ on'[ctx[n]] = c /\ \A m \in Nodes : m # ctx[n] => on'[m] = on[m]
  BY <1>0 DEF BInv, BTypes
<1>6. \A m \in Nodes : Runs(m)' => m = c \/ (Runs(m) /\ ctx[m] # ctx[n])
  <2> SUFFICES ASSUME NEW m \in Nodes, Runs(m)', m # c PROVE Runs(m) /\ ctx[m] # ctx[n]
    OBVIOUS
  <2>1. m \in {Root} \cup {d \in Calls : stage[d] = "running"}
    BY <1>4 DEF Runs
  <2>2. ASSUME NEW d \in Calls, stage[d] = "running", caller[d] = m, ctx[d] = ctx[m]
        PROVE  FALSE
    <3>1. d # c BY <2>2 DEF Been
    <3>2. stage'[d] = "running" /\ caller'[d] = m /\ ctx'[d] = ctx'[m]
      BY <1>4, <1>5, <2>2, <3>1 DEF Nodes
    <3>3. QED BY <3>2 DEF Runs
  <2>3. Runs(m) BY <2>1, <2>2 DEF Runs
  <2>4. m # n
    BY <1>4, <1>5 DEF Runs
  <2>5. on[ctx[m]] = m BY <2>3 DEF BInv, OnIsWhoRuns
  <2>6. QED BY <1>0, <2>3, <2>4, <2>5
<1>7. OnIsWhoRuns'
  <2>1. \A m \in Nodes : Runs(m)' => on'[ctx'[m]] = m
    BY <1>0, <1>5, <1>6 DEF BInv, BTypes, OnIsWhoRuns
  <2>2. \A d \in Calls : stage'[d] = "pending" => on'[d] = caller'[d]
    <3> SUFFICES ASSUME NEW d \in Calls, stage'[d] = "pending" PROVE on'[d] = caller'[d]
      OBVIOUS
    <3>1. d # c /\ stage[d] = "pending" BY DEF BInv, BTypes
    <3>2. d \in Nodes /\ d \notin Been BY <3>1, RootAssumption DEF Been, Nodes
    <3>3. QED BY <1>0, <1>5, <3>1, <3>2 DEF BInv, OnIsWhoRuns
  <2>3. QED BY <2>1, <2>2 DEF OnIsWhoRuns
<1>8. QED BY <1>1, <1>2, <1>3, <1>7

\* A call that begins to run in a task of its own.
LEMMA RunsApart ==
    ASSUME BInv, NEW c \in Calls, stage[c] \in {"pending", "made"},
           stage' = [stage EXCEPT ![c] = "running"], UNCHANGED <<caller, ctx>>,
           on' = [on EXCEPT ![c] = c]
    PROVE  BTypes' /\ MadeByTheRunning' /\ OnIsWhoRuns' /\ Been \subseteq Been'
<1>0. c \in Nodes /\ c # Root /\ c \notin Been /\ ctx[c] = c
  BY RootAssumption DEF BInv, MadeByTheRunning, Been, Nodes
<1>1. Been' = Been \cup {c}
  BY DEF BInv, BTypes, Been
<1>2. BTypes'
  BY <1>0 DEF BInv, BTypes, Stages
<1>3. MadeByTheRunning'
  <2>1. \A d \in Calls : stage'[d] # "none" => caller'[d] \in Been'
    BY <1>1 DEF BInv, BTypes, MadeByTheRunning
  <2>2. \A m \in Nodes : m = Root \/ m \notin Been' => ctx'[m] = m
    BY <1>1 DEF BInv, MadeByTheRunning
  <2>3. \A m \in Been' : ctx'[m] \in Been'
    BY <1>0, <1>1 DEF BInv, MadeByTheRunning
  <2>4. QED BY <2>1, <2>2, <2>3 DEF MadeByTheRunning
<1>4. \A d \in Calls : stage'[d] = "running" <=> d = c \/ stage[d] = "running"
  BY DEF BInv, BTypes
<1>5. on'[c] = c /\ \A m \in Nodes : m # c => on'[m] = on[m]
  BY <1>0 DEF BInv, BTypes
<1>6. \A m \in Nodes : Runs(m)' => m = c \/ (Runs(m) /\ m \in Been)
  BY <1>4 DEF Runs, Been
<1>7. OnIsWhoRuns'
  <2>1. ASSUME NEW m \in Nodes, Runs(m)' PROVE on'[ctx'[m]] = m
    <3>1. CASE m = c BY <1>0, <1>5, <3>1
    <3>2. CASE m # c
      <4>1. Runs(m) /\ ctx[m] \in Nodes /\ ctx[m] \in Been
        BY <1>6, <2>1, <3>2 DEF BInv, BTypes, MadeByTheRunning
      <4>2. ctx[m] # c BY <1>0, <4>1
      <4>3. QED BY <1>5, <4>1, <4>2 DEF BInv, OnIsWhoRuns
    <3>3. QED BY <3>1, <3>2
  <2>2. \A d \in Calls : stage'[d] = "pending" => on'[d] = caller'[d]
    BY <1>5 DEF BInv, BTypes, OnIsWhoRuns, Nodes
  <2>3. QED BY <2>1, <2>2 DEF OnIsWhoRuns
<1>8. QED BY <1>1, <1>2, <1>3, <1>7

\* A call that is written down and not begun, or that never will be: nothing that runs moves.
LEMMA RunsNothing ==
    ASSUME BInv, NEW c \in Calls, NEW s \in Stages, s # "running",
           stage[c] \notin {"running", "over"}, s # "none",
           stage' = [stage EXCEPT ![c] = s],
           NEW n \in Been, caller' = [caller EXCEPT ![c] = n],
           ctx' = ctx,
           s = "pending" => on' = [on EXCEPT ![c] = n],
           s # "pending" => on' = on
    PROVE  BTypes' /\ MadeByTheRunning' /\ OnIsWhoRuns' /\ Been \subseteq Been'
<1>0. c \in Nodes /\ c # Root /\ c \notin Been /\ n \in Nodes
  BY RootAssumption DEF Been, Nodes
<1>1. Been \subseteq Been' /\ Been' \subseteq Been \cup {c}
  BY <1>0 DEF BInv, BTypes, Been
<1>2. BTypes'
  BY <1>0 DEF BInv, BTypes, Stages
<1>3. MadeByTheRunning'
  <2>1. \A d \in Calls : stage'[d] # "none" => caller'[d] \in Been'
    BY <1>1 DEF BInv, BTypes, MadeByTheRunning
  <2>2. \A m \in Nodes : m = Root \/ m \notin Been' => ctx'[m] = m
    BY <1>1 DEF BInv, MadeByTheRunning
  <2>3. \A m \in Been' : ctx'[m] \in Been'
    BY <1>0, <1>1 DEF BInv, MadeByTheRunning
  <2>4. QED BY <2>1, <2>2, <2>3 DEF MadeByTheRunning
<1>4. \A d \in Calls : stage'[d] = "running" <=> stage[d] = "running"
  BY DEF BInv, BTypes
<1>5. \A d \in Calls : d # c => caller'[d] = caller[d] /\ stage'[d] = stage[d]
  BY DEF BInv, BTypes
<1>6. \A m \in Nodes : Runs(m)' => Runs(m) /\ m \in Been
  BY <1>4, <1>5 DEF Runs, Been
<1>7. \A m \in Nodes : m # c => on'[m] = on[m]
  BY DEF BInv, BTypes
<1>8. OnIsWhoRuns'
  <2>1. ASSUME NEW m \in Nodes, Runs(m)' PROVE on'[ctx'[m]] = m
    <3>1. Runs(m) /\ ctx[m] \in Nodes /\ ctx[m] \in Been
      BY <1>6, <2>1 DEF BInv, BTypes, MadeByTheRunning
    <3>2. QED BY <1>0, <1>7, <3>1 DEF BInv, OnIsWhoRuns
  <2>2. ASSUME NEW d \in Calls, stage'[d] = "pending" PROVE on'[d] = caller'[d]
    <3>1. CASE d = c
      BY <1>0, <2>2, <3>1 DEF BInv, BTypes
    <3>2. CASE d # c
      BY <1>5, <1>7, <2>2, <3>2 DEF BInv, OnIsWhoRuns, Nodes
    <3>3. QED BY <3>1, <3>2
  <2>3. QED BY <2>1, <2>2 DEF OnIsWhoRuns
<1>9. QED BY <1>1, <1>2, <1>3, <1>8

\* Of the flows on a call's branch, the one a step shorter than the call's is its caller.
LEMMA OneStepUp ==
    ASSUME BInv, NEW c \in Taken
    PROVE  (CHOOSE u \in above[c] : Depth(above, u) + 1 = Depth(above, c)) = caller[c]
<1>0. c \in Nodes /\ caller[c] \in Nodes
  <2>1. c \in Calls /\ stage[c] # "none" BY DEF Taken
  <2>2. QED BY <2>1 DEF BInv, MadeByTheRunning, Been, Nodes
<1> DEFINE u == caller[c]
<1>1. above[c] = {u} \cup above[u] BY DEF BInv, BranchIsTheCallers
<1>2. /\ IsFiniteSet(above[u]) /\ u \notin above[u]
      /\ \A v \in above[u] : v \in Nodes /\ v \notin above[v] /\ above[v] \subseteq above[u]
  BY <1>0 DEF BInv, Chained
<1>3. /\ Cardinality(above[u]) \in Nat
      /\ Cardinality(above[c]) = Cardinality(above[u]) + 1
  <2>1. above[c] = above[u] \cup {u} BY <1>1
  <2> HIDE DEF u
  <2>2. QED BY <1>2, <2>1, FS_AddElement, FS_CardinalityType
<1>4. ASSUME NEW v \in above[u] PROVE Cardinality(above[v]) + 1 # Cardinality(above[c])
  <2>1. above[v] \in SUBSET above[u] /\ above[v] # above[u] BY <1>2
  <2>2. Cardinality(above[v]) # Cardinality(above[u]) BY <1>2, <2>1, FS_Subset
  <2>3. Cardinality(above[v]) \in Nat BY <1>2, <2>1, FS_Subset, FS_CardinalityType
  <2>4. QED BY <1>3, <2>2, <2>3
<1>5. \A v \in above[c] : Depth(above, v) + 1 = Depth(above, c) <=> v = u
  BY <1>1, <1>3, <1>4 DEF Depth
<1>6. u \in above[c] BY <1>1
<1>7. QED BY <1>5, <1>6

LEMMA EndsBInv == ASSUME BInv, NEW c \in Calls, Ends(c) PROVE BInv'
<1>0. /\ c \in Nodes /\ c \in Taken /\ c \in Been /\ on[ctx[c]] = c
      /\ stage[c] = "running" /\ Runs(c) /\ ctx[c] \in Nodes /\ caller[c] \in Nodes
      /\ ctx[c] \in Been
  BY DEF Ends, BInv, BTypes, OnIsWhoRuns, MadeByTheRunning, Taken, Been, Nodes
<1>1. /\ stage' = [stage EXCEPT ![c] = "over"]
      /\ UNCHANGED <<caller, ctx, above>>
      /\ on' = [on EXCEPT ![ctx[c]] = caller[c]]
  <2>1. on' = [on EXCEPT ![ctx[c]] = IF on[ctx[c]] # c THEN on[ctx[c]] ELSE caller[c]]
    BY <1>0, OneStepUp DEF Ends, BInv, BTypes
  <2>2. QED BY <1>0, <2>1 DEF Ends
<1>2. Been' = Been /\ Taken' \subseteq Taken
  BY <1>0, <1>1 DEF BInv, BTypes, Been, Taken
<1>3. BTypes'
  BY <1>0, <1>1 DEF BInv, BTypes, Stages
<1>4. MadeByTheRunning'
  <2>1. \A d \in Calls : stage'[d] # "none" => stage[d] # "none"
    BY <1>0, <1>1 DEF BInv, BTypes
  <2>2. QED BY <1>1, <1>2, <2>1 DEF BInv, MadeByTheRunning
<1>5. \A d \in Calls : stage'[d] = "running" <=> d # c /\ stage[d] = "running"
  BY <1>1 DEF BInv, BTypes
<1>6. on'[ctx[c]] = caller[c] /\ \A m \in Nodes : m # ctx[c] => on'[m] = on[m]
  BY <1>0, <1>1 DEF BInv, BTypes
<1>7. OnIsWhoRuns'
  <2>1. ASSUME NEW m \in Nodes, Runs(m)' PROVE on'[ctx'[m]] = m
    <3>1. m # c /\ m \in {Root} \cup {d \in Calls : stage[d] = "running"}
      BY <1>5, <2>1, RootAssumption DEF Runs
    <3>2. CASE ctx[m] = ctx[c]
      <4>1. ~Runs(m) BY <1>0, <3>1, <3>2 DEF BInv, OnIsWhoRuns
      <4>2. PICK d \in Calls : stage[d] = "running" /\ caller[d] = m /\ ctx[d] = ctx[m]
        BY <3>1, <4>1 DEF Runs
      <4>3. d = c
        <5> SUFFICES ASSUME d # c PROVE FALSE
          OBVIOUS
        <5>1. stage'[d] = "running" /\ caller'[d] = m /\ ctx'[d] = ctx'[m]
          BY <1>1, <1>5, <4>2
        <5>2. QED BY <2>1, <5>1 DEF Runs
      <4>4. QED BY <1>1, <1>6, <3>2, <4>2, <4>3
    <3>3. CASE ctx[m] # ctx[c]
      <4>1. Runs(m)
        <5> SUFFICES ASSUME NEW d \in Calls, stage[d] = "running", caller[d] = m,
                            ctx[d] = ctx[m]
                     PROVE  FALSE
          BY <3>1 DEF Runs
        <5>1. stage'[d] = "running" /\ caller'[d] = m /\ ctx'[d] = ctx'[m]
          BY <1>1, <1>5, <3>3
        <5>2. QED BY <2>1, <5>1 DEF Runs
      <4>2. ctx[m] \in Nodes BY DEF BInv, BTypes
      <4>3. QED BY <1>1, <1>6, <3>3, <4>1, <4>2 DEF BInv, OnIsWhoRuns
    <3>4. QED BY <3>2, <3>3
  <2>2. ASSUME NEW d \in Calls, stage'[d] = "pending" PROVE on'[d] = caller'[d]
    <3>1. d # c /\ stage[d] = "pending" /\ d \in Nodes
      BY <1>1, <2>2 DEF BInv, BTypes, Nodes
    <3>2. d \notin Been BY <3>1, RootAssumption DEF Been
    <3>3. QED BY <1>0, <1>1, <1>6, <3>1, <3>2 DEF BInv, OnIsWhoRuns
  <2>3. QED BY <2>1, <2>2 DEF OnIsWhoRuns
<1>8. Chained' /\ BranchIsTheCallers'
  BY <1>1, <1>2, SameBranches
<1>9. QED BY <1>3, <1>4, <1>7, <1>8 DEF BInv

LEMMA StepBInv == BInv /\ [Next]_vars => BInv'
<1> SUFFICES ASSUME BInv, [Next]_vars PROVE BInv'
  OBVIOUS
<1>1. ASSUME NEW c \in Calls, NEW n \in Nodes \ {c}, CallsHere(c, n) PROVE BInv'
  <2>1. c \notin Been /\ n \in Been /\ on[ctx[n]] = n
    BY <1>1, RootAssumption DEF CallsHere, Runs, Been, BInv, OnIsWhoRuns
  <2>2. BTypes' /\ MadeByTheRunning' /\ OnIsWhoRuns' /\ Been \subseteq Been'
    BY <1>1, <2>1, RunsHere DEF CallsHere
  <2>3. Branches(c, n)
    BY <1>1, <2>1 DEF CallsHere, Takes, Branches
  <2>4. /\ Taken' \subseteq Taken \cup {c} /\ caller'[c] = n
        /\ \A d \in Calls : d # c => caller'[d] = caller[d]
    BY <1>1 DEF CallsHere, BInv, BTypes, Taken
  <2>5. QED
    BY <2>1, <2>2, <2>3, <2>4, BranchesChained, BranchesCallers DEF BInv
<1>2. ASSUME NEW c \in Calls, NEW n \in Nodes \ {c}, Gathers(c, n) PROVE BInv'
  <2>1. c \notin Been /\ n \in Been /\ on[ctx[n]] = n
    BY <1>2, RootAssumption DEF Gathers, Runs, Been, BInv, OnIsWhoRuns
  <2>2. BTypes' /\ MadeByTheRunning' /\ OnIsWhoRuns' /\ Been \subseteq Been'
    <3>1. /\ stage' = [stage EXCEPT ![c] = "pending"] /\ stage[c] = "none"
          /\ caller' = [caller EXCEPT ![c] = n] /\ ctx' = ctx
          /\ on' = [on EXCEPT ![c] = n]
      BY <1>2, <2>1 DEF Gathers
    <3>2. QED BY <2>1, <3>1, RunsNothing DEF Stages
  <2>3. above' = above /\ Taken' = Taken /\ c \notin Taken
    BY <1>2 DEF Gathers, BInv, BTypes, Taken
  <2>4. Chained' BY <2>2, <2>3 DEF BInv, Chained
  <2>5. \A d \in Taken : caller'[d] = caller[d]
    BY <1>2, <2>3 DEF Gathers, BInv, BTypes, Taken
  <2>6. BranchIsTheCallers' BY <2>3, <2>5 DEF BInv, BranchIsTheCallers
  <2>7. QED BY <2>2, <2>4, <2>6 DEF BInv
<1>3. ASSUME NEW c \in Calls, NEW n \in Nodes \ {c}, Makes(c, n) PROVE BInv'
  <2>1. c \notin Been /\ n \in Been /\ on[ctx[n]] = n
    BY <1>3, RootAssumption DEF Makes, Runs, Been, BInv, OnIsWhoRuns
  <2>2. BTypes' /\ MadeByTheRunning' /\ OnIsWhoRuns' /\ Been \subseteq Been'
    <3>1. /\ stage' = [stage EXCEPT ![c] = "made"] /\ stage[c] = "none"
          /\ caller' = [caller EXCEPT ![c] = n] /\ ctx' = ctx /\ on' = on
      BY <1>3 DEF Makes
    <3>2. QED BY <2>1, <3>1, RunsNothing DEF Stages
  <2>3. Branches(c, n)
    BY <1>3, <2>1 DEF Makes, Takes, Branches
  <2>4. /\ Taken' \subseteq Taken \cup {c} /\ caller'[c] = n
        /\ \A d \in Calls : d # c => caller'[d] = caller[d]
    BY <1>3 DEF Makes, BInv, BTypes, Taken
  <2>5. QED
    BY <2>1, <2>2, <2>3, <2>4, BranchesChained, BranchesCallers DEF BInv
<1>4. ASSUME NEW c \in Calls, Starts(c) PROVE BInv'
  <2>1. c \notin Been /\ on[c] = caller[c]
    BY <1>4, RootAssumption DEF Starts, Been, BInv, OnIsWhoRuns
  <2>2. PICK n \in Been : n = caller[c]
    BY <1>4 DEF Starts, BInv, MadeByTheRunning
  <2>3. BTypes' /\ MadeByTheRunning' /\ OnIsWhoRuns' /\ Been \subseteq Been'
    BY <1>4, RunsApart DEF Starts
  <2>4. Branches(c, n)
    BY <1>4, <2>1, <2>2 DEF Starts, Takes, Branches
  <2>5. /\ Taken' \subseteq Taken \cup {c} /\ caller'[c] = n
        /\ \A d \in Calls : d # c => caller'[d] = caller[d]
    BY <1>4, <2>2 DEF Starts, BInv, BTypes, Taken
  <2>6. QED
    BY <2>1, <2>3, <2>4, <2>5, BranchesChained, BranchesCallers DEF BInv
<1>5. ASSUME NEW c \in Calls, NeverStarts(c) PROVE BInv'
  <2>1. PICK n \in Been : n = caller[c]
    BY <1>5 DEF NeverStarts, BInv, MadeByTheRunning
  <2>2. BTypes' /\ MadeByTheRunning' /\ OnIsWhoRuns' /\ Been \subseteq Been'
    <3>1. /\ stage' = [stage EXCEPT ![c] = "over"] /\ stage[c] = "pending"
          /\ ctx' = ctx /\ on' = on
      BY <1>5 DEF NeverStarts
    <3>2. caller' = [caller EXCEPT ![c] = n]
      BY <1>5, <2>1 DEF NeverStarts, BInv, BTypes
    <3>3. QED BY <3>1, <3>2, RunsNothing DEF Stages
  <2>3. above' = above /\ caller' = caller /\ Taken' \subseteq Taken
    BY <1>5 DEF NeverStarts, BInv, BTypes, Taken
  <2>4. QED BY <2>2, <2>3, SameBranches DEF BInv
<1>6. ASSUME NEW c \in Calls, AwaitsHere(c) PROVE BInv'
  <2>1. PICK n \in Been : n = caller[c]
    BY <1>6 DEF AwaitsHere, BInv, MadeByTheRunning
  <2>2. c \notin Been /\ n # c /\ n \in Nodes
    BY <1>6, RootAssumption DEF AwaitsHere, Been, Nodes
  <2>3. caller' = [caller EXCEPT ![c] = n]
    BY <1>6, <2>1 DEF AwaitsHere, BInv, BTypes
  <2>4. BTypes' /\ MadeByTheRunning' /\ OnIsWhoRuns' /\ Been \subseteq Been'
    BY <1>6, <2>1, <2>2, <2>3, RunsHere DEF AwaitsHere
  <2>5. above' = above /\ caller' = caller /\ Taken' \subseteq Taken
    BY <1>6 DEF AwaitsHere, BInv, BTypes, Taken
  <2>6. QED BY <2>4, <2>5, SameBranches DEF BInv
<1>7. ASSUME NEW c \in Calls, AwaitsApart(c) PROVE BInv'
  <2>1. BTypes' /\ MadeByTheRunning' /\ OnIsWhoRuns' /\ Been \subseteq Been'
    BY <1>7, RunsApart DEF AwaitsApart
  <2>2. above' = above /\ caller' = caller /\ Taken' \subseteq Taken
    BY <1>7 DEF AwaitsApart, BInv, BTypes, Taken
  <2>3. QED BY <2>1, <2>2, SameBranches DEF BInv
<1>8. CASE UNCHANGED vars
  BY <1>8 DEF vars, calls, BInv, BTypes, MadeByTheRunning, OnIsWhoRuns, Chained,
              BranchIsTheCallers, Taken, Been, Runs
<1>9. ASSUME NEW c \in Calls, NEW n \in Nodes \ {c}, RefusedHere(c, n) PROVE BInv'
  <2>1. c \notin Been /\ n \in Been /\ on[ctx[n]] = n
    BY <1>9, RootAssumption DEF RefusedHere, Runs, Been, BInv, OnIsWhoRuns
  <2>2. BTypes' /\ MadeByTheRunning' /\ OnIsWhoRuns' /\ Been \subseteq Been'
    <3>1. /\ stage' = [stage EXCEPT ![c] = "over"] /\ stage[c] = "none"
          /\ caller' = [caller EXCEPT ![c] = n] /\ ctx' = ctx /\ on' = on
      BY <1>9 DEF RefusedHere, Refused
    <3>2. QED BY <2>1, <3>1, RunsNothing DEF Stages
  <2>3. Branches(c, n)
    BY <1>9, <2>1 DEF RefusedHere, Refused, Branches
  <2>4. /\ Taken' \subseteq Taken \cup {c} /\ caller'[c] = n
        /\ \A d \in Calls : d # c => caller'[d] = caller[d]
    BY <1>9 DEF RefusedHere, Refused, BInv, BTypes, Taken
  <2>5. QED
    BY <2>1, <2>2, <2>3, <2>4, BranchesChained, BranchesCallers DEF BInv
<1>10. ASSUME NEW c \in Calls, RefusedApart(c) PROVE BInv'
  <2>1. c \notin Been /\ on[c] = caller[c]
    BY <1>10, RootAssumption DEF RefusedApart, Been, BInv, OnIsWhoRuns
  <2>2. PICK n \in Been : n = caller[c]
    BY <1>10 DEF RefusedApart, BInv, MadeByTheRunning
  <2>3. BTypes' /\ MadeByTheRunning' /\ OnIsWhoRuns' /\ Been \subseteq Been'
    <3>1. /\ stage' = [stage EXCEPT ![c] = "over"] /\ stage[c] = "pending"
          /\ ctx' = ctx /\ on' = on
      BY <1>10 DEF RefusedApart, Refused
    <3>2. caller' = [caller EXCEPT ![c] = n]
      BY <1>10, <2>2 DEF RefusedApart, BInv, BTypes
    <3>3. QED BY <3>1, <3>2, RunsNothing DEF Stages
  <2>4. Branches(c, n)
    BY <1>10, <2>1, <2>2 DEF RefusedApart, Refused, Branches
  <2>5. /\ Taken' \subseteq Taken \cup {c} /\ caller'[c] = n
        /\ \A d \in Calls : d # c => caller'[d] = caller[d]
    BY <1>10, <2>2 DEF RefusedApart, Refused, BInv, BTypes, Taken
  <2>6. QED
    BY <2>1, <2>3, <2>4, <2>5, BranchesChained, BranchesCallers DEF BInv
<1>11. QED
  BY <1>1, <1>2, <1>3, <1>4, <1>5, <1>6, <1>7, <1>8, <1>9, <1>10, EndsBInv DEF Next

\* The branch a call is on is its caller's, however many calls are gathered, made, awaited
\* and cancelled around it, and whichever of them outlives the one that made it.
THEOREM OnTheBranchOfItsCaller == Spec => []BranchIsTheCallers
<1>1. BInv => BranchIsTheCallers
  BY DEF BInv
<1>2. QED
  BY <1>1, InitBInv, StepBInv, PTL DEF Spec

-----------------------------------------------------------------------------
(* Who has an agent that several calls have.                               *)

\* Branches as Chained has them.
Branching(b) ==
    /\ b \in [Nodes -> SUBSET Nodes]
    /\ \A n \in Nodes : /\ IsFiniteSet(b[n]) /\ n \notin b[n]
                        /\ \A v \in b[n] : b[v] \subseteq b[n]

\* Of those that have it, the one every other is under or that is under every other: there is
\* at most one of each kind.
LEMMA HolderAmong ==
    ASSUME NEW b, Branching(b), NEW H \in SUBSET Calls
    PROVE  /\ \/ Holder(b, H) = None
              \/ Holder(b, H) \in H /\ \A c \in H : \/ Beneath(b, c, Holder(b, H))
                                                    \/ Beneath(b, Holder(b, H), c)
           /\ \A d \in H : (\A c \in H : Beneath(b, d, c)) => Holder(b, H) = d
<1> DEFINE inner == {d \in H : \A c \in H : Beneath(b, d, c)}
           under == IF inner # {} THEN inner ELSE Shared(b, H)
           deepest(d) == \A c \in under : Depth(b, c) =< Depth(b, d)
<1>1. Holder(b, H) = IF under = {} THEN None ELSE CHOOSE d \in under : deepest(d)
  BY DEF Holder
<1>2. H \subseteq Nodes
  BY DEF Nodes
<1>3. ASSUME NEW d \in Nodes, NEW e \in Nodes, Beneath(b, d, e), Beneath(b, e, d) PROVE d = e
  BY <1>3 DEF Beneath, Branching
<1>4. \A d, e \in under : d = e
  <2>1. \A d, e \in inner : d = e
    BY <1>2, <1>3
  <2>2. \A d, e \in Shared(b, H) : d = e
    BY <1>2, <1>3 DEF Shared
  <2> QED
    BY <2>1, <2>2
<1>5. under \subseteq H
  BY DEF Shared
<1>6. ASSUME NEW d \in under PROVE deepest(d) /\ Holder(b, H) = d
  <2>1. Depth(b, d) \in Nat
    BY <1>2, <1>5, <1>6, FS_CardinalityType DEF Depth, Branching
  <2>2. deepest(d)
    BY <1>4, <1>6, <2>1
  <2>3. (CHOOSE x \in under : deepest(x)) \in under
    BY <1>6, <2>2
  <2> QED
    BY <1>1, <1>4, <1>6, <2>2, <2>3
<1>7. ASSUME NEW d \in under PROVE \A c \in H : Beneath(b, c, d) \/ Beneath(b, d, c)
  BY <1>7 DEF Shared
<1>8. ASSUME NEW d \in H, \A c \in H : Beneath(b, d, c) PROVE Holder(b, H) = d
  <2>1. d \in under
    BY <1>8
  <2> QED
    BY <1>6, <2>1
<1>9. CASE under = {}
  BY <1>1, <1>8, <1>9
<1>10. CASE under # {}
  BY <1>5, <1>6, <1>7, <1>8, <1>10
<1> QED
  BY <1>9, <1>10

-----------------------------------------------------------------------------
(* Where an agent writes, and what it is set up as.                        *)

AgentsTyped ==
    /\ filed \in [Calls -> Nodes \cup {None}]
    /\ held \in [Agents -> SUBSET Calls]
    /\ claim \in [Calls -> [Agents -> Setups]]
    /\ was \in [Agents -> Setups]
    /\ agent \in [Agents -> Setups]

Claimed == \A a \in Agents : \A c \in held[a] : claim[c][a].epic = c

\* Everybody is under the flow the run was started for.
Rooted(n) == n = Root \/ Root \in above[n]
RootAbove ==
    /\ above[Root] = {}
    /\ \A c \in Taken : Root \in above[c]
    /\ \A c \in Calls : stage[c] # "none" => Rooted(caller[c])

\* An agent somebody has is as one of them is to have it, or as it came.
Pointing ==
    \A a \in Agents :
        /\ agent[a].epic \in Been \cup Taken
        /\ \A c \in held[a] :
              /\ Beneath(above, c, agent[a].epic) \/ Beneath(above, agent[a].epic, c)
              /\ (\A d \in held[a] : Beneath(above, c, d)) => agent[a] = claim[c][a]

PInv == HInv /\ BInv /\ AgentsTyped /\ Claimed /\ RootAbove /\ Pointing

LEMMA OriginTyped == Origin \in Setups
<1>1. Root \in Nodes /\ Loosest \in Rungs
  BY RungAssumption DEF Nodes, Rungs
<1> QED
  BY <1>1 DEF Origin, Setups

LEMMA InitPInv == Init => PInv
<1> SUFFICES ASSUME Init PROVE PInv
  OBVIOUS
<1>1. AgentsTyped
  BY OriginTyped DEF Init, AgentsTyped
<1>2. Been = {Root} /\ Taken = {}
  BY DEF Init, Been, Taken
<1>3. Claimed /\ Pointing
  BY <1>2 DEF Init, Claimed, Pointing, Origin
<1>4. RootAbove
  BY <1>2 DEF Init, RootAbove, Nodes
<1> QED
  BY <1>1, <1>3, <1>4, InitHInv, InitBInv DEF PInv

\* What Pointed comes to, over an agent that came as the run's agents do.
LEMMA PointsWell ==
    ASSUME NEW b, Branching(b), NEW H \in SUBSET Calls,
           \A c \in H : Root \in b[c],
           NEW wanted \in [Calls -> Setups], \A c \in H : wanted[c].epic = c,
           NEW g, g = Pointed(b, H, wanted, Origin)
    PROVE  /\ g \in Setups /\ g.epic \in {Root} \cup H
           /\ \A c \in H : /\ Beneath(b, c, g.epic) \/ Beneath(b, g.epic, c)
                           /\ (\A d \in H : Beneath(b, c, d)) => g = wanted[c]
<1>1. None \notin H
  BY RootAssumption DEF Nodes
<1> DEFINE h == Holder(b, H)
<1>2. g = IF h = None THEN Origin ELSE wanted[h]
  BY DEF Pointed
<1>3. \A d \in H : (\A c \in H : Beneath(b, d, c)) => h = d
  BY HolderAmong
<1>4. h = None \/ (h \in H /\ \A c \in H : Beneath(b, c, h) \/ Beneath(b, h, c))
  BY HolderAmong
<1> HIDE DEF h
<1>5. CASE h = None
  <2>1. g = Origin /\ g.epic = Root
    BY <1>2, <1>5 DEF Origin
  <2>2. \A c \in H : Beneath(b, c, g.epic)
    BY <2>1 DEF Beneath
  <2> QED
    BY <1>1, <1>3, <1>5, <2>1, <2>2, OriginTyped
<1>6. CASE h # None
  <2>1. h \in H /\ g = wanted[h] /\ g.epic = h
    BY <1>2, <1>4, <1>6
  <2> QED
    BY <1>3, <1>4, <1>6, <2>1
<1> QED
  BY <1>5, <1>6

-----------------------------------------------------------------------------
(* Whose record a call is written down in.                                 *)

LEMMA Greatest ==
    ASSUME NEW K \in Nat, NEW D \in SUBSET Nat, D # {}, \A d \in D : d =< K
    PROVE  \E m \in D : \A d \in D : d =< m
<1> DEFINE T == {(d + 1) .. K : d \in D}
           R == StrictSubsetOrdering(1 .. K)
<1>1. IsWellFoundedOn(R, SUBSET (1 .. K))
  <2>1. IsFiniteSet(1 .. K)
    BY FS_Interval
  <2>2. FiniteSubsetsOf(1 .. K) = SUBSET (1 .. K)
    BY <2>1, FS_FiniteSubsetsOfFinite
  <2>3. IsWellFoundedOn(StrictSubsetOrdering(1 .. K), FiniteSubsetsOf(1 .. K))
    BY FS_StrictSubsetOrderingWellFounded
  <2> QED
    BY <2>2, <2>3, Zenon
<1>2. T \subseteq SUBSET (1 .. K) /\ T # {}
  <2>1. \A d \in D : (d + 1) .. K \in SUBSET (1 .. K)
    OBVIOUS
  <2> QED
    BY <2>1
<1>3. PICK x \in T : \A y \in T : <<y, x>> \notin R
  <2> HIDE DEF R, T
  <2> QED
    BY <1>1, <1>2, WFMin
<1>4. PICK m \in D : x = (m + 1) .. K
  BY <1>3
<1>5. ASSUME NEW d \in D, ~(d =< m) PROVE FALSE
  <2>1. (d + 1) .. K \in T /\ (d + 1) .. K \subseteq x
    BY <1>4, <1>5
  <2>2. m + 1 \in x /\ m + 1 \notin (d + 1) .. K
    BY <1>4, <1>5
  <2>3. <<(d + 1) .. K, x>> \in R
    <3>1. (d + 1) .. K # x
      BY <2>2
    <3>2. (d + 1) .. K \in SUBSET (1 .. K) /\ x \in SUBSET (1 .. K)
      BY <1>2, <1>3, <2>1
    <3> QED
      BY <2>1, <3>1, <3>2 DEF StrictSubsetOrdering
  <2> QED
    BY <1>3, <2>1, <2>3
<1> QED
  BY <1>5

\* The deepest of some flows of a branch.
LEMMA Deepests ==
    ASSUME NEW b, Branching(b), NEW n \in Nodes, NEW S \in SUBSET ({n} \cup b[n]), S # {}
    PROVE  \E m \in S : \A o \in S : Depth(b, o) =< Depth(b, m)
<1>1. \A o \in S : o \in Nodes /\ b[o] \subseteq b[n] /\ IsFiniteSet(b[n])
  BY DEF Branching
<1>2. Depth(b, n) \in Nat
  BY FS_CardinalityType DEF Branching, Depth
<1>3. ASSUME NEW o \in S PROVE Depth(b, o) \in Nat /\ Depth(b, o) =< Depth(b, n)
  BY <1>1, FS_CardinalityType, FS_Subset DEF Branching, Depth
<1> DEFINE D == {Depth(b, o) : o \in S}
<1>4. D \in SUBSET Nat /\ D # {} /\ \A d \in D : d =< Depth(b, n)
  BY <1>3
<1>5. PICK d \in D : \A e \in D : e =< d
  <2> HIDE DEF D
  <2> QED
    BY <1>2, <1>4, Greatest
<1>6. PICK m \in S : d = Depth(b, m)
  BY <1>5
<1> QED
  BY <1>5, <1>6

\* What is above a flow is less deep than it.
LEMMA Deeper ==
    ASSUME NEW b, Branching(b), NEW n \in Nodes, NEW v \in b[n]
    PROVE  Depth(b, v) \in Nat /\ Depth(b, n) \in Nat /\ Depth(b, v) < Depth(b, n)
<1>1. v \in Nodes /\ b[v] \in SUBSET b[n] /\ b[v] # b[n] /\ IsFiniteSet(b[n]) /\ IsFiniteSet(b[v])
  BY DEF Branching
<1>2. Cardinality(b[v]) \in Nat /\ Cardinality(b[n]) \in Nat
  BY <1>1, FS_CardinalityType
<1>3. Cardinality(b[v]) =< Cardinality(b[n]) /\ Cardinality(b[v]) # Cardinality(b[n])
  BY <1>1, FS_Subset
<1> QED
  BY <1>2, <1>3 DEF Depth

\* The record is the caller's own while it is going, and otherwise one further up that is.
LEMMA WrittenInOneGoing ==
    ASSUME BInv, RootAbove, NEW n \in Been, Rooted(n)
    PROVE  /\ Written(n) \in Nodes
           /\ Going(n) => Written(n) = n
           /\ ~Going(n) => Written(n) \in above[n] /\ Going(Written(n))
<1> DEFINE kept == {m \in {n} \cup above[n] : m \in Taken}
           deepest(m) == \A o \in kept : Depth(above, o) =< Depth(above, m)
<1>1. Written(n) = IF kept = {} THEN Root ELSE CHOOSE m \in kept : deepest(m)
  BY DEF Written
<1>2. n \in Nodes /\ Branching(above) /\ Root \in Nodes /\ Root \notin Taken
  BY RootAssumption DEF BInv, Chained, Branching, Been, Nodes, Taken
<1>3. kept \in SUBSET ({n} \cup above[n]) /\ kept \subseteq Nodes
  BY DEF Taken, Nodes
<1>4. CASE kept = {}
  <2>1. Written(n) = Root /\ n \notin Taken
    BY <1>1, <1>4
  <2>2. n # Root => Root \in above[n]
    BY DEF Rooted
  <2> QED
    BY <1>2, <2>1, <2>2 DEF Going
<1>5. CASE kept # {}
  <2>1. \E m \in kept : deepest(m)
    BY <1>2, <1>3, <1>5, Deepests
  <2> DEFINE w == CHOOSE m \in kept : deepest(m)
  <2>2. w \in kept /\ deepest(w)
    BY <2>1
  <2>3. Written(n) = w
    BY <1>1, <1>5
  <2> HIDE DEF w
  <2>4. w \in Taken /\ w \in Nodes /\ (w = n \/ w \in above[n])
    BY <1>3, <2>2
  <2>5. n = Root => above[n] = {}
    BY DEF RootAbove
  <2>6. ASSUME Going(n) PROVE w = n
    <3>1. CASE n \in Taken
      <4>1. n \in kept
        BY <3>1
      <4>2. Depth(above, n) =< Depth(above, w)
        BY <2>2, <4>1
      <4> QED
        BY <1>2, <2>4, <4>2, Deeper
    <3>2. CASE n = Root
      BY <2>4, <2>5, <3>2
    <3> QED
      BY <2>6, <3>1, <3>2 DEF Going
  <2>7. ~Going(n) => w # n
    BY <2>4 DEF Going
  <2> QED
    BY <2>3, <2>4, <2>6, <2>7 DEF Going
<1> QED
  BY <1>4, <1>5

-----------------------------------------------------------------------------
(* An agent is where the calls that have it agree.                         *)

\* A branch that is written down goes up to the root.
LEMMA RootedBranch ==
    ASSUME BInv, RootAbove, NEW c \in Calls, c \notin Been,
           stage[c] \in {"none", "pending"}, NEW here \in Been, Rooted(here), Branches(c, here),
           caller'[c] = here, \A d \in Calls \ {c} : caller'[d] = caller[d] /\ stage'[d] = stage[d],
           Taken' \subseteq Taken \cup {c}
    PROVE  RootAbove'
<1>t. BInv /\ RootAbove
  OBVIOUS
<1>0. c \in Nodes /\ here \in Nodes /\ c # Root /\ c # here /\ c \notin Taken /\ Root \in Nodes
  BY RootAssumption DEF Been, Nodes, Taken
<1>1. /\ above'[c] = {here} \cup above[here]
      /\ \A n \in Nodes : n # c => above'[n] = above[n]
  BY <1>0 DEF Branches, BInv, Chained
<1>2. \A d \in Taken : d \in Nodes /\ d # c
  BY <1>0 DEF Taken, Nodes
<1>3. Root \in above'[c]
  BY <1>1 DEF Rooted
<1>4. above'[Root] = {} /\ \A d \in Taken' : Root \in above'[d]
  BY <1>t, <1>0, <1>1, <1>2, <1>3 DEF RootAbove
<1>5. ASSUME NEW d \in Calls, stage'[d] # "none" PROVE Rooted(caller[d])'
  <2>1. CASE d = c
    BY <1>0, <1>1, <2>1 DEF Rooted
  <2>2. CASE d # c
    <3>1. stage[d] # "none" /\ caller'[d] = caller[d]
      BY <1>5, <2>2
    <3>2. caller[d] \in Been /\ caller[d] # c /\ caller[d] \in Nodes /\ Rooted(caller[d])
      BY <1>t, <3>1 DEF BInv, MadeByTheRunning, RootAbove, Been, Nodes
    <3> QED
      BY <1>1, <3>1, <3>2 DEF Rooted
  <2> QED
    BY <2>1, <2>2
<1> QED
  BY <1>4, <1>5 DEF RootAbove, Rooted

\* Taking, whichever way the call was made.
LEMMA TakesPInv ==
    ASSUME PInv, HInv', BInv', NEW c \in Calls, stage[c] \in {"none", "pending"}, c \notin Been,
           NEW here \in Been, Rooted(here), Takes(c, here),
           caller'[c] = here, \A d \in Calls \ {c} : caller'[d] = caller[d] /\ stage'[d] = stage[d],
           Taken' = Taken \cup {c}, Been \subseteq Been', Been' \subseteq Been \cup {c}
    PROVE  PInv'
<1>t. AgentsTyped /\ Claimed /\ RootAbove /\ Pointing /\ BInv /\ HInv
  BY DEF PInv
<1>0. c \in Nodes /\ here \in Nodes /\ c # Root /\ c # here /\ c \notin Taken /\ Root \in Nodes
  BY RootAssumption DEF Been, Nodes, Taken
<1>b. Branching(above) /\ Branching(above')
  BY DEF BInv, PInv, Chained, Branching
<1>1. /\ above'[c] = {here} \cup above[here]
      /\ \A n \in Nodes : n # c => above'[n] = above[n]
  BY <1>0, <1>b DEF Takes, Branching
<1>2. RootAbove'
  BY <1>t, RootedBranch DEF Takes, Branches
<1> DEFINE mine(a) == [epic |-> c, skills |-> Carried(c, a), config |-> Settled(c, a)]
           kept(a) == IF a \in Drives[c] /\ held[a] = {} THEN agent[a] ELSE was[a]
<1>3. ASSUME NEW a \in Agents PROVE mine(a) \in Setups
  <2>1. agent[a].config \in Int /\ Rung[c] \in Int /\ agent[a].config \in Rungs /\ Rung[c] \in Rungs
    BY <1>t, RungAssumption DEF AgentsTyped, Setups, Rungs
  <2>2. Settled(c, a) \in Rungs
    BY <2>1 DEF Settled, Least
  <2>3. Carried(c, a) \in SUBSET Nodes
    BY <1>t, <1>0 DEF AgentsTyped, Setups, Carried
  <2> QED
    BY <1>0, <2>2, <2>3 DEF Setups
<1>4. claim' = [claim EXCEPT ![c] = [a \in Agents |-> IF a \in Drives[c] THEN mine(a) ELSE claim[c][a]]]
  BY DEF Takes
<1>5. /\ held' = [a \in Agents |-> IF a \in Drives[c] THEN held[a] \cup {c} ELSE held[a]]
      /\ was' = [a \in Agents |-> kept(a)] /\ filed' = [filed EXCEPT ![c] = Written(here)]
  BY DEF Takes
<1> HIDE DEF mine
<1>6. /\ claim' \in [Calls -> [Agents -> Setups]]
      /\ \A a \in Agents, d \in Calls :
            claim'[d][a] = IF d = c /\ a \in Drives[c] THEN mine(a) ELSE claim[d][a]
  BY <1>t, <1>3, <1>4 DEF AgentsTyped
<1>7. /\ held' \in [Agents -> SUBSET Calls] /\ was' \in [Agents -> Setups]
      /\ filed' \in [Calls -> Nodes \cup {None}]
  <2>1. Written(here) \in Nodes
    BY <1>t, WrittenInOneGoing
  <2> QED
    BY <1>t, <1>5, <2>1 DEF AgentsTyped
<1>8. \A a \in Agents : c \notin held[a] /\ \A d \in held[a] : d \in Calls /\ d \in Taken
  BY <1>0, <1>t DEF HInv, HeldByTheTaken, Taken
<1>9. Claimed'
  <2> SUFFICES ASSUME NEW a \in Agents, NEW d \in held'[a]
               PROVE  claim'[d][a].epic = d
    BY DEF Claimed
  <2>1. CASE d = c
    <3>1. a \in Drives[c]
      BY <1>5, <1>8, <2>1
    <3>2. claim'[d][a] = mine(a) /\ mine(a).epic = c
      BY <1>6, <2>1, <3>1 DEF mine
    <3> QED
      BY <1>3, <2>1, <3>2
  <2>2. CASE d # c
    <3>1. d \in held[a] /\ d \in Calls
      BY <1>5, <1>8, <2>2
    <3>2. claim'[d][a] = claim[d][a]
      BY <1>6, <2>2, <3>1
    <3> QED
      BY <1>t, <3>1, <3>2 DEF Claimed
  <2> QED
    BY <2>1, <2>2
<1> DEFINE wanted(a) == [d \in Calls |-> claim'[d][a]]
<1>10. ASSUME NEW a \in Drives[c], a \in Agents
       PROVE  agent'[a] = Pointed(above', held'[a], wanted(a), Origin)
  <2>1. kept(a) = Origin
    BY <1>10, <1>t DEF HInv, KeptAsItWas
  <2>2. wanted(a) = [d \in Calls |-> [claim EXCEPT ![c] = [x \in Agents |-> IF x \in Drives[c]
               THEN [epic |-> c, skills |-> Carried(c, x), config |-> Settled(c, x)] ELSE claim[c][x]]][d][a]]
    BY <1>4 DEF mine
  <2>3. held'[a] = held[a] \cup {c} /\ above' = [above EXCEPT ![c] = {here} \cup above[here]]
    BY <1>5, <1>10 DEF Takes
  <2> HIDE DEF wanted
  <2>4. agent'[a] = Pointed(above', held'[a], wanted(a), kept(a))
    BY <1>10, <2>2, <2>3 DEF Takes
  <2> QED
    BY <2>1, <2>4
<1>11. ASSUME NEW a \in Drives[c], a \in Agents
       PROVE  /\ agent'[a] \in Setups /\ agent'[a].epic \in Been' \cup Taken'
              /\ \A d \in held'[a] :
                    /\ Beneath(above', d, agent'[a].epic) \/ Beneath(above', agent'[a].epic, d)
                    /\ (\A e \in held'[a] : Beneath(above', d, e)) => agent'[a] = claim'[d][a]
  <2>1. held'[a] \in SUBSET Calls /\ held'[a] \subseteq Taken'
    BY <1>5, <1>7, <1>8, <1>11
  <2>2. \A d \in held'[a] : Root \in above'[d]
    BY <1>2, <2>1, RootAssumption DEF RootAbove
  <2>3. wanted(a) \in [Calls -> Setups] /\ \A d \in held'[a] : wanted(a)[d] = claim'[d][a]
    BY <1>6, <1>11, <2>1
  <2>4. \A d \in held'[a] : wanted(a)[d].epic = d
    BY <1>9, <1>11, <2>3 DEF Claimed
  <2>5. Root \in Been'
    BY DEF Been
  <2> HIDE DEF wanted
  <2> QED
    BY <1>b, <1>10, <1>11, <2>1, <2>2, <2>3, <2>4, <2>5, PointsWell
<1>12. ASSUME NEW a \in Agents, a \notin Drives[c]
       PROVE  /\ agent'[a] \in Setups /\ agent'[a].epic \in Been' \cup Taken'
              /\ \A d \in held'[a] :
                    /\ Beneath(above', d, agent'[a].epic) \/ Beneath(above', agent'[a].epic, d)
                    /\ (\A e \in held'[a] : Beneath(above', d, e)) => agent'[a] = claim'[d][a]
  <2>1. agent'[a] = agent[a] /\ held'[a] = held[a]
    BY <1>5, <1>12 DEF Takes
  <2>2. agent[a].epic \in Nodes /\ agent[a].epic # c /\ agent[a].epic \in Been \cup Taken /\ agent[a] \in Setups
    BY <1>t, <1>0, <1>12 DEF Pointing, Been, Taken, Nodes, AgentsTyped
  <2>3. above'[agent[a].epic] = above[agent[a].epic]
    BY <1>1, <2>2
  <2>4. \A d \in held[a] : above'[d] = above[d] /\ claim'[d][a] = claim[d][a]
    BY <1>1, <1>6, <1>8, <1>12 DEF Nodes
  <2> QED
    BY <1>t, <1>12, <2>1, <2>2, <2>3, <2>4 DEF Pointing, Beneath
<1>13. Pointing'
  BY <1>11, <1>12 DEF Pointing
<1>14. agent' \in [Agents -> Setups]
  <2>1. agent' = [a \in Agents |-> agent'[a]]
    BY DEF Takes
  <2> QED
    BY <1>11, <1>12, <2>1
<1> QED
  BY <1>2, <1>6, <1>7, <1>9, <1>13, <1>14 DEF PInv, AgentsTyped

LEMMA EndsPInv == ASSUME PInv, HInv', BInv', NEW c \in Calls, Ends(c) PROVE PInv'
<1>t. AgentsTyped /\ Claimed /\ RootAbove /\ Pointing /\ BInv /\ HInv
  BY DEF PInv
<1>1. Been' = Been \cup {c} /\ Taken' = Taken \ {c} /\ c \in Been
  BY <1>t DEF Ends, BInv, BTypes, Been, Taken
<1>2. UNCHANGED <<above, claim, was, filed>> /\ held' = [a \in Agents |-> held[a] \ {c}]
  BY DEF Ends, GivesBack
<1>3. RootAbove'
  BY <1>t, <1>1, <1>2 DEF RootAbove, Rooted, Ends
<1>4. Claimed'
  BY <1>t, <1>2 DEF Claimed
<1>5. ASSUME NEW a \in Agents
      PROVE  /\ agent'[a] \in Setups /\ agent'[a].epic \in Been' \cup Taken'
             /\ \A d \in held'[a] :
                   /\ Beneath(above', d, agent'[a].epic) \/ Beneath(above', agent'[a].epic, d)
                   /\ (\A e \in held'[a] : Beneath(above', d, e)) => agent'[a] = claim'[d][a]
  <2>1. CASE c \notin held[a]
    <3>1. agent'[a] = agent[a] /\ held'[a] = held[a]
      BY <1>2, <2>1 DEF Ends, GivesBack
    <3> QED
      BY <1>t, <1>1, <1>2, <3>1 DEF Pointing, AgentsTyped
  <2>2. CASE c \in held[a] /\ held'[a] = {}
    <3>1. agent'[a] = was[a] /\ was[a] = Origin
      BY <1>t, <1>2, <2>2 DEF Ends, GivesBack, HInv, KeptAsItWas
    <3>2. Origin.epic = Root /\ Root \in Been
      BY DEF Origin, Been
    <3> QED
      BY <1>1, <2>2, <3>1, <3>2, OriginTyped
  <2>3. CASE c \in held[a] /\ held'[a] # {}
    <3> DEFINE wanted == [d \in Calls |-> claim[d][a]]
    <3>1. agent'[a] = Pointed(above, held'[a], wanted, was[a]) /\ was[a] = Origin
      BY <1>t, <1>2, <2>3 DEF Ends, GivesBack, HInv, KeptAsItWas
    <3>2. held'[a] \in SUBSET Calls /\ held'[a] \subseteq Taken /\ held'[a] \subseteq held[a]
      BY <1>t, <1>2 DEF AgentsTyped, HInv, HeldByTheTaken
    <3>3. \A d \in held'[a] : Root \in above[d]
      BY <1>t, <3>2, RootAssumption DEF RootAbove
    <3>4. wanted \in [Calls -> Setups] /\ \A d \in held'[a] : wanted[d] = claim[d][a]
      BY <1>t, <3>2 DEF AgentsTyped
    <3>5. \A d \in held'[a] : wanted[d].epic = d
      BY <1>t, <3>2, <3>4 DEF Claimed
    <3>6. Branching(above)
      BY <1>t DEF BInv, Chained, Branching
    <3>7. c \notin held'[a]
      BY <1>2
    <3>8. held'[a] \subseteq Taken' /\ Root \in Been'
      BY <1>1, <3>2, <3>7 DEF Been
    <3>9. wanted \in [Calls -> Setups]
      BY <3>4
    <3> HIDE DEF wanted
    <3>10. /\ agent'[a] \in Setups /\ agent'[a].epic \in {Root} \cup held'[a]
           /\ \A d \in held'[a] :
                 /\ Beneath(above, d, agent'[a].epic) \/ Beneath(above, agent'[a].epic, d)
                 /\ (\A e \in held'[a] : Beneath(above, d, e)) => agent'[a] = wanted[d]
      BY <3>1, <3>2, <3>3, <3>5, <3>6, <3>9, PointsWell
    <3> QED
      BY <1>2, <3>4, <3>8, <3>10
  <2> QED
    BY <2>1, <2>2, <2>3
<1>6. Pointing'
  BY <1>5 DEF Pointing
<1>7. AgentsTyped'
  <2>1. agent' = [a \in Agents |-> agent'[a]]
    BY DEF Ends, GivesBack
  <2>2. agent' \in [Agents -> Setups]
    BY <1>5, <2>1
  <2> QED
    BY <1>t, <1>2, <2>2 DEF AgentsTyped
<1> QED
  BY <1>3, <1>4, <1>6, <1>7 DEF PInv

LEMMA StepPInv == PInv /\ [Next]_vars => PInv'
<1> SUFFICES ASSUME PInv, [Next]_vars PROVE PInv'
  OBVIOUS
<1>t. BInv /\ HInv /\ HInv' /\ BInv'
  BY StepHInv, StepBInv DEF PInv
<1>1. ASSUME UNCHANGED <<above, filed, claims>>, (Been \cup Taken) \subseteq (Been \cup Taken)',
             Taken' \subseteq Taken, \A c \in Calls : stage'[c] # "none" => Rooted(caller'[c])
      PROVE  PInv'
  <2>1. RootAbove'
    BY <1>1 DEF PInv, RootAbove, Rooted
  <2> QED
    BY <1>t, <1>1, <2>1 DEF PInv, AgentsTyped, Claimed, Pointing, claims
<1>2. ASSUME NEW c \in Calls, NEW n \in Nodes \ {c}, Runs(n), stage[c] = "none"
      PROVE  c \notin Been /\ n \in Been /\ on[ctx[n]] = n /\ Rooted(n)
  <2>1. c \notin Been /\ n \in Been /\ on[ctx[n]] = n
    BY <1>t, <1>2, RootAssumption DEF Runs, Been, BInv, OnIsWhoRuns
  <2> QED
    BY <1>2, <2>1 DEF PInv, RootAbove, Rooted, Runs, Taken
<1>3. ASSUME NEW c \in Calls, NEW n \in Nodes \ {c}, CallsHere(c, n) \/ Makes(c, n) PROVE PInv'
  <2>1. c \notin Been /\ n \in Been /\ on[ctx[n]] = n /\ stage[c] = "none" /\ Rooted(n)
    BY <1>2, <1>3 DEF CallsHere, Makes
  <2>2. Takes(c, n)
    BY <1>3, <2>1 DEF CallsHere, Makes
  <2>3. Taken' = Taken \cup {c} /\ Been \subseteq Been' /\ Been' \subseteq Been \cup {c}
    BY <1>t, <1>3 DEF CallsHere, Makes, BInv, BTypes, Been, Taken
  <2>4. caller'[c] = n /\ \A d \in Calls \ {c} : caller'[d] = caller[d] /\ stage'[d] = stage[d]
    BY <1>t, <1>3 DEF CallsHere, Makes, BInv, BTypes
  <2> QED
    BY <1>t, <2>1, <2>2, <2>3, <2>4, TakesPInv
<1>4. ASSUME NEW c \in Calls, Starts(c) PROVE PInv'
  <2>1. /\ c \notin Been /\ on[c] = caller[c] /\ caller[c] \in Been /\ stage[c] = "pending"
        /\ Rooted(caller[c])
    BY <1>t, <1>4, RootAssumption DEF Starts, Been, BInv, OnIsWhoRuns, MadeByTheRunning, PInv, RootAbove
  <2>2. Takes(c, caller[c])
    BY <1>4, <2>1 DEF Starts
  <2>3. Taken' = Taken \cup {c} /\ Been \subseteq Been' /\ Been' \subseteq Been \cup {c}
    BY <1>t, <1>4 DEF Starts, BInv, BTypes, Been, Taken
  <2>4. UNCHANGED caller /\ \A d \in Calls \ {c} : stage'[d] = stage[d]
    BY <1>t, <1>4 DEF Starts, BInv, BTypes
  <2> QED
    BY <1>t, <2>1, <2>2, <2>3, <2>4, TakesPInv
<1>5. ASSUME NEW c \in Calls, NEW n \in Nodes \ {c}, Gathers(c, n) PROVE PInv'
  <2>1. Rooted(n)
    BY <1>2, <1>5 DEF Gathers
  <2>2. \A d \in Calls : stage'[d] # "none" => Rooted(caller'[d])
    BY <1>t, <1>5, <2>1 DEF Gathers, BInv, BTypes, PInv, RootAbove
  <2>3. Been' = Been /\ Taken' = Taken
    BY <1>t, <1>5 DEF Gathers, BInv, BTypes, Been, Taken
  <2> QED
    BY <1>1, <1>5, <2>2, <2>3 DEF Gathers
<1>6. ASSUME NEW c \in Calls, NeverStarts(c) \/ AwaitsHere(c) \/ AwaitsApart(c) PROVE PInv'
  <2>1. Been' = Been \cup {c} /\ Taken' \subseteq Taken /\ Taken' \cup {c} = Taken \cup {c}
    BY <1>t, <1>6 DEF NeverStarts, AwaitsHere, AwaitsApart, BInv, BTypes, Been, Taken
  <2>2. \A d \in Calls : stage'[d] # "none" => Rooted(caller'[d])
    BY <1>t, <1>6 DEF NeverStarts, AwaitsHere, AwaitsApart, BInv, BTypes, PInv, RootAbove
  <2> QED
    BY <1>1, <1>6, <2>1, <2>2 DEF NeverStarts, AwaitsHere, AwaitsApart
<1>8. ASSUME NEW c \in Calls, c \notin Been, stage[c] \in {"none", "pending"},
             NEW n \in Been, Rooted(n), Refused(c, n),
             caller'[c] = n, \A d \in Calls \ {c} : caller'[d] = caller[d]
      PROVE  PInv'
  <2>1. /\ Taken' = Taken /\ Been' = Been \cup {c} /\ c \notin Taken
        /\ \A d \in Calls \ {c} : stage'[d] = stage[d]
    BY <1>t, <1>8 DEF Refused, BInv, BTypes, Been, Taken
  <2>2. RootAbove'
    BY <1>t, <1>8, <2>1, RootedBranch DEF PInv, Refused, Branches
  <2>3. AgentsTyped' /\ Claimed'
    <3>1. Written(n) \in Nodes
      BY <1>t, <1>8, WrittenInOneGoing DEF PInv
    <3> QED
      BY <1>8, <3>1 DEF PInv, AgentsTyped, Claimed, Refused, claims
  <2>4. Pointing'
    <3>1. UNCHANGED <<held, claim, agent>>
      BY <1>8 DEF Refused, claims
    <3>2. \A d \in Nodes \ {c} : above'[d] = above[d]
      BY <1>t, <1>8 DEF Refused, BInv, Chained
    <3> SUFFICES ASSUME NEW a \in Agents
                 PROVE  /\ agent[a].epic \in (Been \cup Taken)'
                        /\ \A d \in held[a] :
                              /\ \/ Beneath(above', d, agent[a].epic)
                                 \/ Beneath(above', agent[a].epic, d)
                              /\ (\A e \in held[a] : Beneath(above', d, e)) => agent[a] = claim[d][a]
      BY <3>1 DEF Pointing, Beneath
    <3>3. agent[a].epic \in Been \cup Taken /\ agent[a].epic \in Nodes \ {c}
      BY <1>8, <2>1 DEF PInv, Pointing, Been, Taken, Nodes
    <3>4. \A d \in held[a] : d \in Nodes \ {c}
      BY <1>t, <2>1 DEF HInv, HeldByTheTaken, Taken, Nodes
    <3> QED
      BY <2>1, <3>2, <3>3, <3>4 DEF PInv, Pointing, Beneath
  <2> QED
    BY <1>t, <2>2, <2>3, <2>4 DEF PInv
<1>9. ASSUME NEW c \in Calls, NEW n \in Nodes \ {c}, RefusedHere(c, n) PROVE PInv'
  <2>1. c \notin Been /\ n \in Been /\ on[ctx[n]] = n /\ stage[c] = "none" /\ Rooted(n)
    BY <1>2, <1>9 DEF RefusedHere
  <2>2. caller'[c] = n /\ \A d \in Calls \ {c} : caller'[d] = caller[d]
    BY <1>t, <1>9 DEF RefusedHere, BInv, BTypes
  <2> QED
    BY <1>8, <1>9, <2>1, <2>2 DEF RefusedHere
<1>10. ASSUME NEW c \in Calls, RefusedApart(c) PROVE PInv'
  <2>1. /\ c \notin Been /\ on[c] = caller[c] /\ caller[c] \in Been /\ stage[c] = "pending"
        /\ Rooted(caller[c]) /\ UNCHANGED caller
    BY <1>t, <1>10, RootAssumption
    DEF RefusedApart, Been, BInv, OnIsWhoRuns, MadeByTheRunning, PInv, RootAbove
  <2> QED
    BY <1>8, <1>10, <2>1 DEF RefusedApart
<1>7. CASE UNCHANGED vars
  <2>1. \A d \in Calls : stage'[d] # "none" => Rooted(caller'[d])
    BY <1>7 DEF vars, calls, PInv, RootAbove
  <2> QED
    BY <1>1, <1>7, <2>1 DEF vars, calls, Been, Taken
<1> QED
  BY <1>3, <1>4, <1>5, <1>6, <1>7, <1>9, <1>10, <1>t, EndsPInv DEF Next

\* The types of Calls, for any number of calls, agents and rungs.
THEOREM TypeCorrect == Spec => []TypeOK
<1>1. PInv => TypeOK
  BY DEF PInv, BInv, BTypes, Chained, AgentsTyped, TypeOK, Stages
<1> QED
  BY InitPInv, StepPInv, <1>1, PTL DEF Spec

\* However many calls share an agent, and however they are beside and under each other, what
\* it does is written under none of two beside each other.
THEOREM NeverUnderASibling == Spec => []NeverFiledUnderASibling
<1>1. PInv => NeverFiledUnderASibling
  BY DEF PInv, Pointing, NeverFiledUnderASibling
<1> QED
  BY InitPInv, StepPInv, <1>1, PTL DEF Spec

\* However many calls had an agent before, a call taking it from the flows it was called under
\* is to run no looser than the nearest of them was settled.
THEOREM NoLooserThanTheCaller == Spec => SettledUnderTheCaller
<1> DEFINE Under == \A c \in Calls, a \in Agents :
                c \in held'[a] \ held[a] /\ held[a] \subseteq above'[c] =>
                    \A d \in held[a] : (\A e \in held[a] : Beneath(above, d, e)) =>
                        claim'[c][a].config =< claim[d][a].config
<1>1. PInv /\ [Next]_vars => [Under]_vars
  <2> SUFFICES ASSUME PInv, Next, NEW c \in Calls, NEW a \in Agents, c \in held'[a] \ held[a],
                      NEW d \in held[a], \A e \in held[a] : Beneath(above, d, e)
               PROVE  claim'[c][a].config =< claim[d][a].config
    OBVIOUS
  <2>1. agent[a] = claim[d][a] /\ agent[a] \in Setups
    BY DEF PInv, Pointing, AgentsTyped
  <2>b. PICK b \in Calls : \E here : Takes(b, here)
    BY DEF Next, CallsHere, Gathers, Makes, RefusedHere, RefusedApart, Refused, Starts,
           NeverStarts, AwaitsHere, AwaitsApart, Ends, GivesBack, claims, PInv, AgentsTyped
  <2>2. PICK here : Takes(b, here)
    BY <2>b
  <2>3. b = c /\ a \in Drives[c]
    BY <2>2 DEF Takes
  <2>4. claim'[c][a] = [epic |-> c, skills |-> Carried(c, a), config |-> Settled(c, a)]
    BY <2>2, <2>3 DEF Takes, PInv, AgentsTyped
  <2>5. agent[a].config \in Int /\ Rung[c] \in Int
    BY <2>1, RungAssumption DEF Setups, Rungs
  <2> QED
    BY <2>1, <2>4, <2>5 DEF Settled, Least
<1> QED
  BY InitPInv, StepPInv, <1>1, PTL DEF Spec, SettledUnderTheCaller

\* A call is written down in its caller's record, or above it where that one has ended.
THEOREM InTheCallersRecord == Spec => FiledUnderWhoCalled
<1> DEFINE Filed == \A c \in Calls : filed'[c] # filed[c] =>
                LET u == caller'[c] IN
                IF Going(u) THEN filed'[c] = u ELSE filed'[c] \in above[u] /\ Going(filed'[c])
<1>1. PInv /\ [Next]_vars => [Filed]_vars
  <2> SUFFICES ASSUME PInv, Next, NEW c \in Calls, filed'[c] # filed[c]
               PROVE  /\ Going(caller'[c]) => filed'[c] = caller'[c]
                      /\ ~Going(caller'[c]) => filed'[c] \in above[caller'[c]] /\ Going(filed'[c])
    OBVIOUS
  <2>t. BInv /\ AgentsTyped /\ RootAbove
    BY DEF PInv
  <2> DEFINE Here(d, m) == CallsHere(d, m) \/ Makes(d, m) \/ RefusedHere(d, m)
             Apart(d) == Starts(d) \/ RefusedApart(d)
  <2>1. PICK n \in Nodes : Here(c, n) \/ (Apart(c) /\ n = caller[c])
    <3>1. PICK d \in Calls : (\E m \in Nodes \ {d} : Here(d, m)) \/ Apart(d)
      BY DEF Next, Gathers, NeverStarts, AwaitsHere, AwaitsApart, Ends
    <3>2. \E x : filed' = [filed EXCEPT ![d] = x]
      BY <3>1 DEF CallsHere, Makes, Starts, Takes, RefusedHere, RefusedApart, Refused
    <3>3. d = c
      BY <2>t, <3>2 DEF AgentsTyped
    <3>4. Apart(c) => caller[c] \in Nodes
      BY <2>t DEF Starts, RefusedApart, BInv, MadeByTheRunning, Been, Nodes
    <3> QED
      BY <3>1, <3>3, <3>4
  <2>2. n \in Been /\ Rooted(n) /\ caller'[c] = n /\ filed'[c] = Written(n)
    <3>1. CASE Apart(c) /\ n = caller[c]
      BY <2>t, <3>1
      DEF Starts, Takes, RefusedApart, Refused, BInv, MadeByTheRunning, OnIsWhoRuns, RootAbove,
          AgentsTyped
    <3>2. CASE Here(c, n)
      <4>1. Runs(n) /\ on[ctx[n]] = n
        BY <2>t, <3>2 DEF CallsHere, Makes, RefusedHere, BInv, OnIsWhoRuns
      <4>2. n \in Been /\ Rooted(n)
        BY <2>t, <4>1 DEF Runs, Been, RootAbove, Rooted, Taken
      <4> QED
        BY <2>t, <3>2, <4>1, <4>2
        DEF CallsHere, Makes, Takes, RefusedHere, Refused, BInv, BTypes, AgentsTyped
    <3> QED
      BY <2>1, <3>1, <3>2
  <2> QED
    BY <2>t, <2>2, WrittenInOneGoing
<1> QED
  BY InitPInv, StepPInv, <1>1, PTL DEF Spec, FiledUnderWhoCalled
===============================================================================
