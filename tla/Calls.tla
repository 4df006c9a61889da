-------------------------------- MODULE Calls ---------------------------------
(***************************************************************************)
(* Flows of one run calling flows over the agents they share: load and     *)
(* what it answers with, entered and left, and the claims _takes and       *)
(* _gives_back keep, in hmz.flows.driving.  A call is awaited where it is  *)
(* made, gathered as a task of its own, or made as an awaitable by an      *)
(* ordinary function and awaited later; one may end while a task it        *)
(* started has not.  Each step here runs between two awaits.               *)
(***************************************************************************)
EXTENDS FiniteSets, Integers

CONSTANTS Calls,    \* calls of one flow by another
          Root,     \* the flow somebody started
          Agents,   \* the run's agents
          None,
          Drives,   \* which of the agents each call is handed
          Rung,     \* the loosest rung the called flow says its places may work at
          Brings,   \* the calls of a flow that brings skills of its own
          Inherits, \* those of them that keep what the agents carry reachable
          Loosest,  \* the rung the agents of the run came with
          Deepest   \* how deep one flow calling another goes (_DEEPEST)

Nodes == Calls \cup {Root}
Rungs == 0..Loosest

ASSUME RootAssumption == Root \notin Calls /\ None \notin Nodes
ASSUME DrivesAssumption == Drives \in [Calls -> SUBSET Agents]
ASSUME RungAssumption == Loosest \in Nat /\ Rung \in [Calls -> Rungs]
ASSUME FlowsAssumption == Brings \subseteq Calls /\ Inherits \subseteq Brings
ASSUME DeepAssumption == Deepest \in Nat

VARIABLES
    stage,   \* how far each call has got
    caller,  \* whose code made each call
    ctx,     \* the task each flow runs in, by the flow that task was started for
    on,      \* _ON in the context of each task
    above,   \* the branch each call was written down on: Running.under, and its own
    filed,   \* whose record each call's own record was opened in
    held,    \* _CLAIMED: which calls have each agent now
    claim,   \* what each call is to have of each agent: skills and config
    was,     \* each agent as it was before any call took it
    agent    \* each agent now: where it writes, what it carries, what it may do

calls == <<stage, caller, ctx, on, above, filed>>
claims == <<held, claim, was, agent>>
vars == <<calls, claims>>

-----------------------------------------------------------------------------
(* Types.                                                                  *)

\* A skill is told apart only by the flow that brought it.
Setups == [epic : Nodes, skills : SUBSET Nodes, config : Rungs]
Origin == [epic |-> Root, skills |-> {Root}, config |-> Loosest]

TypeOK ==
    /\ stage \in [Calls -> {"none", "pending", "made", "running", "over"}]
    /\ caller \in [Calls -> Nodes \cup {None}]
    /\ ctx \in [Nodes -> Nodes]
    /\ on \in [Nodes -> Nodes]
    /\ above \in [Nodes -> SUBSET Nodes]
    /\ filed \in [Calls -> Nodes \cup {None}]
    /\ held \in [Agents -> SUBSET Calls]
    /\ claim \in [Calls -> [Agents -> Setups]]
    /\ was \in [Agents -> Setups]
    /\ agent \in [Agents -> Setups]

Init ==
    /\ stage = [c \in Calls |-> "none"]
    /\ caller = [c \in Calls |-> None]
    /\ ctx = [n \in Nodes |-> n]
    /\ on = [n \in Nodes |-> Root]
    /\ above = [n \in Nodes |-> {}]
    /\ filed = [c \in Calls |-> None]
    /\ held = [a \in Agents |-> {}]
    /\ claim = [c \in Calls |-> [a \in Agents |-> Origin]]
    /\ was = [a \in Agents |-> Origin]
    /\ agent = [a \in Agents |-> Origin]

-----------------------------------------------------------------------------
(* Helpers.                                                                *)

Least(x, y) == IF x < y THEN x ELSE y

\* The calls that have taken their agents and not handed them back.
Taken == {c \in Calls : stage[c] \in {"made", "running"}}
Going(n) == n = Root \/ n \in Taken

\* _beneath: one flow is the other, or is running somewhere under it.
Beneath(branch, c, d) == c = d \/ d \in branch[c]

Depth(branch, c) == Cardinality(branch[c])

\* The claims that every claim is under: a chain, the deepest of which is the fork.
Shared(branch, claimants) ==
    {d \in claimants : \A c \in claimants : Beneath(branch, c, d)}

\* FAULT: of siblings, whichever of the calls is deepest has the agent.
FaultHolder(branch, claimants) ==
    CHOOSE d \in claimants : \A c \in claimants : Depth(branch, c) =< Depth(branch, d)

\* One call has it, or the innermost of a chain, or the fork of a pair beside each other;
\* and where no call of them holds them all, nobody of them.
Holder(branch, claimants) ==
    LET inner == {d \in claimants : \A c \in claimants : Beneath(branch, d, c)}
        under == IF inner # {} THEN inner ELSE Shared(branch, claimants)
    IN  IF under = {} THEN None
        ELSE CHOOSE d \in under : \A c \in under : Depth(branch, c) =< Depth(branch, d)

\* _points: an agent is where the calls that have it agree it is working.
Pointed(branch, claimants, wanted, before) ==
    LET found == Holder(branch, claimants) IN
    IF found = None THEN before ELSE wanted[found]

\* FAULT: the record of whatever flow the run was started for.
FaultWritten(n) == Root

\* _writes: the record of the flow running here, or of the nearest above it that has one.
Written(n) ==
    LET kept == {m \in {n} \cup above[n] : m \in Taken} IN
    IF kept = {} THEN Root
    ELSE CHOOSE m \in kept : \A o \in kept : Depth(above, o) =< Depth(above, m)

\* _carried: the called flow's own, over what the agent carries where that is kept.
Carried(c, a) ==
    IF c \notin Brings THEN agent[a].skills
    ELSE {c} \cup IF c \in Inherits THEN agent[a].skills ELSE {}

\* runs_at: tighter only, never looser, than what the agent is set up as now.
Settled(c, a) == Least(agent[a].config, Rung[c])

\* The code of a flow that is running, and that is not waiting on a call in its own task.
Runs(n) ==
    /\ n \in {Root} \cup {c \in Calls : stage[c] = "running"}
    /\ ~\E d \in Calls : stage[d] = "running" /\ caller[d] = n /\ ctx[d] = ctx[n]

\* _deep, asked where the call is made.
Shallow(n) == Depth(above, on[ctx[n]]) + 1 =< Deepest

-----------------------------------------------------------------------------
(* Faulty forms of the definitions below, as the two above marked FAULT    *)
(* are: each one a plausible edit, put in place of the sound one to show   *)
(* which property breaks.                                                  *)

\* What an agent goes back to is what the call that is ending was handed.
FaultGivesBack(c) ==
    /\ held' = [a \in Agents |-> held[a] \ {c}]
    /\ agent' = [a \in Agents |->
                   IF c \notin held[a] THEN agent[a]
                   ELSE IF held[a] = {c} THEN [claim[c][a] EXCEPT !.epic = filed[c]]
                   ELSE agent[a]]
    /\ UNCHANGED <<claim, was>>

\* An agent that others still have is left set up as it is.
FaultLeavesIt(c) ==
    /\ held' = [a \in Agents |-> held[a] \ {c}]
    /\ agent' = [a \in Agents |-> IF held[a] = {c} THEN was[a] ELSE agent[a]]
    /\ UNCHANGED <<claim, was>>

-----------------------------------------------------------------------------
(* A call taking its agents, and handing them back.                        *)

\* entered, _carried, _opened, _settled and _takes: nothing is awaited between them.
Takes(c, here) ==
    LET branch == [above EXCEPT ![c] = {here} \cup above[here]]
        mine == [a \in Agents |->
                   IF a \in Drives[c]
                   THEN [epic |-> c, skills |-> Carried(c, a), config |-> Settled(c, a)]
                   ELSE claim[c][a]]
        wanted == [claim EXCEPT ![c] = mine]
        kept == [a \in Agents |->
                   IF a \in Drives[c] /\ held[a] = {} THEN agent[a] ELSE was[a]]
        claimants == [a \in Agents |->
                   IF a \in Drives[c] THEN held[a] \cup {c} ELSE held[a]]
    IN
    /\ above' = branch
    /\ filed' = [filed EXCEPT ![c] = Written(here)]
    /\ claim' = wanted
    /\ was' = kept
    /\ held' = claimants
    /\ agent' = [a \in Agents |->
                   IF a \in Drives[c]
                   THEN Pointed(branch, claimants[a], [d \in Calls |-> wanted[d][a]], kept[a])
                   ELSE agent[a]]

\* _gives_back: where those that still have it agree, or as it was before any of them.
GivesBack(c) ==
    LET claimants == [a \in Agents |-> held[a] \ {c}] IN
    /\ held' = claimants
    /\ agent' = [a \in Agents |->
                   IF c \notin held[a] THEN agent[a]
                   ELSE IF claimants[a] = {} THEN was[a]
                   ELSE Pointed(above, claimants[a], [d \in Calls |-> claim[d][a]], was[a])]
    /\ UNCHANGED <<claim, was>>

-----------------------------------------------------------------------------
(* The ways a call is made and ended.                                      *)

\* Awaited where it is made, or an ordinary function: in the caller's own context.
CallsHere(c, n) ==
    /\ stage[c] = "none" /\ Runs(n) /\ Shallow(n)
    /\ stage' = [stage EXCEPT ![c] = "running"]
    /\ caller' = [caller EXCEPT ![c] = n]
    /\ ctx' = [ctx EXCEPT ![c] = ctx[n]]
    /\ on' = [on EXCEPT ![ctx[n]] = c]
    /\ Takes(c, on[ctx[n]])

\* Gathered: a task of its own with a copy of the context, and nothing taken yet.
Gathers(c, n) ==
    /\ stage[c] = "none" /\ Runs(n) /\ Shallow(n)
    /\ stage' = [stage EXCEPT ![c] = "pending"]
    /\ caller' = [caller EXCEPT ![c] = n]
    /\ on' = [on EXCEPT ![c] = on[ctx[n]]]
    /\ UNCHANGED <<ctx, above, filed, claims>>

\* Its first step.
Starts(c) ==
    /\ stage[c] = "pending"
    /\ stage' = [stage EXCEPT ![c] = "running"]
    /\ on' = [on EXCEPT ![c] = c]
    /\ Takes(c, on[c])
    /\ UNCHANGED <<caller, ctx>>

\* A backend that cannot be told what the called flow says: the record has been opened, what
\* was settled is put back, and the call is over before it has taken anything.
Refused(c, here) ==
    /\ Drives[c] # {}
    /\ stage' = [stage EXCEPT ![c] = "over"]
    /\ above' = [above EXCEPT ![c] = {here} \cup above[here]]
    /\ filed' = [filed EXCEPT ![c] = Written(here)]
    /\ UNCHANGED <<ctx, on, claims>>

RefusedHere(c, n) ==
    /\ stage[c] = "none" /\ Runs(n) /\ Shallow(n) /\ Refused(c, on[ctx[n]])
    /\ caller' = [caller EXCEPT ![c] = n]

RefusedApart(c) ==
    /\ stage[c] = "pending" /\ Refused(c, on[c]) /\ UNCHANGED caller

\* Cancelled before it: it never was.
NeverStarts(c) ==
    /\ stage[c] = "pending"
    /\ stage' = [stage EXCEPT ![c] = "over"]
    /\ UNCHANGED <<caller, ctx, on, above, filed, claims>>

\* An ordinary function that answered with something to await: taken as it was made, and
\* the branch goes back to the caller until it is awaited -- which it may never be.
Makes(c, n) ==
    /\ stage[c] = "none" /\ Runs(n) /\ Shallow(n)
    /\ stage' = [stage EXCEPT ![c] = "made"]
    /\ caller' = [caller EXCEPT ![c] = n]
    /\ Takes(c, on[ctx[n]])
    /\ UNCHANGED <<ctx, on>>

\* _awaited, by the caller itself or in a task with a copy of its context.
AwaitsHere(c) ==
    /\ stage[c] = "made" /\ Runs(caller[c])
    /\ stage' = [stage EXCEPT ![c] = "running"]
    /\ ctx' = [ctx EXCEPT ![c] = ctx[caller[c]]]
    /\ on' = [on EXCEPT ![ctx[caller[c]]] = c]
    /\ UNCHANGED <<caller, above, filed, claims>>

AwaitsApart(c) ==
    /\ stage[c] = "made"
    /\ stage' = [stage EXCEPT ![c] = "running"]
    /\ on' = [on EXCEPT ![c] = c]
    /\ UNCHANGED <<caller, ctx, above, filed, claims>>

\* However it ended, and whatever tasks it started: _gives_back, and then left.
Ends(c) ==
    /\ stage[c] = "running" /\ Runs(c)
    /\ stage' = [stage EXCEPT ![c] = "over"]
    /\ GivesBack(c)
    /\ on' = [on EXCEPT ![ctx[c]] =
                IF @ # c THEN @ ELSE CHOOSE u \in above[c] : Depth(above, u) + 1 = Depth(above, c)]
    /\ UNCHANGED <<caller, ctx, above, filed>>

Next ==
    \E c \in Calls :
        \/ \E n \in Nodes \ {c} :
             CallsHere(c, n) \/ Gathers(c, n) \/ Makes(c, n) \/ RefusedHere(c, n)
        \/ RefusedApart(c) \/ Starts(c) \/ NeverStarts(c) \/ AwaitsHere(c) \/ AwaitsApart(c) \/ Ends(c)

Spec == Init /\ [][Next]_vars

-----------------------------------------------------------------------------
(* Properties.                                                             *)

\* The branch a call is written down on is the one its caller is on, however many calls are
\* made, awaited and cancelled around it (_ON, entered, left).
BranchIsTheCallers ==
    \A c \in Taken : above[c] = {caller[c]} \cup above[caller[c]]

\* An agent no call has is exactly as it was before any call took it, in whatever order the
\* calls that shared it ended (_gives_back).
HandedBack ==
    \A a \in Agents : (\A c \in Taken : a \notin Drives[c]) => agent[a] = Origin

\* What a session of a shared agent is written under is a flow that each call having the
\* agent is under, or that is under it: never one of two beside each other (_points).
NeverFiledUnderASibling ==
    \A a \in Agents : \A c \in held[a] :
        \/ Beneath(above, c, agent[a].epic)
        \/ Beneath(above, agent[a].epic, c)

\* What a call is to run at is measured against what the calling flow settled: where no flow
\* but those it was called under has the agent, whoever else had it before, the call is
\* settled no looser than the nearest of them (runs_at, _points).
SettledUnderTheCaller ==
    [][\A c \in Calls, a \in Agents :
         c \in held'[a] \ held[a] /\ held[a] \subseteq above'[c] =>
             \A d \in held[a] : (\A e \in held[a] : Beneath(above, d, e)) =>
                 claim'[c][a].config =< claim[d][a].config]_vars

\* The record of a call is opened in its caller's while the caller is still going, and in the
\* nearest flow above that is where it has ended (_writes).
FiledUnderWhoCalled ==
    [][\A c \in Calls : filed'[c] # filed[c] =>
         LET u == caller'[c] IN
         IF Going(u) THEN filed'[c] = u
         ELSE filed'[c] \in above[u] /\ Going(filed'[c])]_vars

=============================================================================
