-------------------------------- MODULE Walk --------------------------------
(***************************************************************************)
(* Where a turn that failed goes next: SessionBase._falling_back of the    *)
(* conversations of one agent, each on a thread of its own, over the       *)
(* account chain they share and then over the places the agent falls back  *)
(* to.  A go at a turn is one step here; what ends one is module Turn's.   *)
(***************************************************************************)
EXTENDS Naturals, Sequences, FiniteSets, FiniteSetsExt

CONSTANTS Sessions,  \* the conversations of the agent
          Accounts,  \* the accounts of its backend there are
          First,     \* the one a place starts under
          Nowhere,   \* a fallback naming an account there is none of
          Worlds,    \* what is written down, and what may go wrong, when they begin
          Lengths,   \* how long a go may take, in seconds
          Beyond     \* bound: how many places the agent may fall back over

Ends == Accounts \cup {Nowhere, ""}
Policies == {"none", "constant", "linear", "exponential", "exponential-jitter", "fibonacci"}
Kinds == {"", "throttled", "refused", "retired", "contended", "dropped", "killed", "missing"}
ASSUME AccountsAssumption ==
    /\ First \in Accounts /\ Nowhere \notin Accounts /\ "" \notin Accounts
    /\ IsFiniteSet(Accounts)
Tried == [tries : Nat, policy : Policies, timeout : Nat]
Places == 0..Beyond
ASSUME BeyondAssumption == Beyond \in Nat /\ Lengths \subseteq Nat

\* Who falls to whom, how each place is tried again, the failures a go of each conversation
\* may come to, and two bounds: the turns each takes, and whether somebody writes one
\* fallback anew meanwhile.
World == [falls : [Accounts -> Ends], again : [Places -> Tried],
          faults : [Sessions -> SUBSET Kinds], turns : [Sessions -> Nat],
          anew : {"never", "may"}]
ASSUME WorldsAssumption == Worlds \subseteq World

Nobody == [name |-> First, fallback |-> ""]

VARIABLES
    falls,    \* the fallbacks written down, which every chain is read off
    again,    \* how each place is tried again
    faults,   \* the failures a go of each conversation may come to
    under,    \* _at: the account the agent of each place is on, as it was read
    beyond,   \* _stands_in of each place's agent: not asked yet, none, or made
    stopped,  \* whether the agents were told to stop
    stage,    \* where each conversation's turn has got to
    place,    \* whose session it is being taken in
    account,  \* account: what the loop over accounts is trying
    tried,    \* tried: the names this turn has been under at this place
    attempt,  \* attempt: which go of this account it is
    answer,   \* answer: the kind of the last failure
    since,    \* seconds at this account, where the place has a timeout
    waited,   \* the wait before this go
    instead,  \* instead: the account about to be moved to
    turns,    \* the turns each conversation has left to take
    anew,     \* whether a fallback may be written anew, and whether it has been
    alone     \* whether nobody else moved the agent this turn, or wrote its chain anew

shared == <<falls, again, faults, under, beyond, stopped, anew>>
walk == <<place, account, tried, attempt, answer, since, waited, instead>>
walking == <<shared, stage, walk, turns, alone>>

\* A file read afresh: what an account falls back to now.
Find(name) == [name |-> name, fallback |-> falls[name]]

WalkInit ==
    /\ \E world \in Worlds :
         /\ falls = world.falls /\ again = world.again /\ faults = world.faults
         /\ turns = world.turns /\ anew = world.anew
    /\ under = [p \in Places |-> Find(First)]
    /\ beyond = [p \in Places |-> "unasked"]
    /\ stopped = FALSE
    /\ stage = [s \in Sessions |-> "idle"] /\ place = [s \in Sessions |-> 0]
    /\ account = [s \in Sessions |-> Nobody] /\ instead = [s \in Sessions |-> Nobody]
    /\ tried = [s \in Sessions |-> {}] /\ attempt = [s \in Sessions |-> 0]
    /\ answer = [s \in Sessions |-> ""]
    /\ since = [s \in Sessions |-> 0] /\ waited = [s \in Sessions |-> 0]
    /\ alone = [s \in Sessions |-> TRUE]

-----------------------------------------------------------------------------
(* What each failure is answered with, and how long is waited.             *)

\* ANSWERS: a row per kind, and the row of a failure nobody recognised.
Unretried(kind) == kind \in {"refused", "retired", "missing"}
Walkable(kind) == kind \notin {"retired", "missing"}
Least(kind) == IF kind = "throttled" THEN 30 ELSE 0
Own(kind) == IF kind \in {"contended", "killed"} THEN "constant" ELSE ""
Floor(kind) == IF kind = "contended" THEN 3
               ELSE IF kind \in {"throttled", "dropped", "killed"} THEN 1 ELSE 0

\* goes: what the place asks for, floored by the failure, or none at all.
Worth(p, kind) == IF Unretried(kind) THEN 0 ELSE Max({again[p].tries, Floor(kind)})

\* _fibonacci.
Fibonacci[n \in Nat] == IF n <= 2 THEN IF n = 0 THEN 0 ELSE 1
                        ELSE Fibonacci[n - 1] + Fibonacci[n - 2]

\* waits: every wait a policy may answer with before this go.
Waits(policy, nth) ==
    LET over == nth - 1
        held == CASE over = 0 \/ policy = "none" -> {0}
                  [] policy = "constant" -> {1}
                  [] policy = "linear" -> {over}
                  [] policy = "fibonacci" -> {Fibonacci[over]}
                  [] policy = "exponential" -> {2 ^ (over - 1)}
                  [] OTHER -> 0..2 ^ (over - 1)
    IN {Min({w, 60}) : w \in held}

\* waiting: the place's wait, floored by what the failure itself asks for.
Waiting(p, kind, nth) ==
    {Max({w, Least(kind)} \cup IF Own(kind) = "" THEN {} ELSE Waits(Own(kind), nth)) :
        w \in Waits(again[p].policy, nth)}

\* chain: the accounts a turn under this one walks, which ends at the first fallback that
\* names nobody, or somebody already in it.
Chain(provider) ==
    LET Names(walked) == {walked[i].name : i \in DOMAIN walked}
        Longer(walked) ==
            LET to == walked[Len(walked)].fallback
            IN IF to \in Accounts \ Names(walked) THEN Append(walked, Find(to)) ELSE walked
        walk_[n \in Nat] == IF n = 0 THEN <<provider>> ELSE Longer(walk_[n - 1])
    IN walk_[Cardinality(Accounts)]

\* Faulty: the account after the next one is where a turn carries on.
FaultUntried(s, chain) == {i \in 3..Len(chain) : chain[i].name \notin tried[s]}

\* Where in a chain the accounts further on are that this turn has not been under.
Untried(s, chain) == {i \in 2..Len(chain) : chain[i].name \notin tried[s]}

\* The other conversations in the middle of a turn at the same place.
Others(s) == {o \in Sessions \ {s} : stage[o] # "idle" /\ place[o] = place[s]}

\* The turn is over, whichever way, and what the walk held goes with it.
Over(s) ==
    /\ stage' = [stage EXCEPT ![s] = "idle"] /\ place' = [place EXCEPT ![s] = 0]
    /\ account' = [account EXCEPT ![s] = Nobody] /\ instead' = [instead EXCEPT ![s] = Nobody]
    /\ tried' = [tried EXCEPT ![s] = {}] /\ attempt' = [attempt EXCEPT ![s] = 0]
    /\ answer' = [answer EXCEPT ![s] = ""]
    /\ since' = [since EXCEPT ![s] = 0] /\ waited' = [waited EXCEPT ![s] = 0]

-----------------------------------------------------------------------------
(* Faulty forms of the definitions below, each one a plausible edit.  The  *)
(* runs put them in place of the sound ones to show which property breaks. *)

\* An account this turn has been under is no reason to look any further.
FaultAsks(s) ==
    /\ stage[s] = "asking"
    /\ account' = [account EXCEPT ![s] = under[place[s]]]
    /\ tried' = [tried EXCEPT ![s] = {under[place[s]].name}]
    /\ attempt' = [attempt EXCEPT ![s] = 0] /\ since' = [since EXCEPT ![s] = 0]
    /\ stage' = [stage EXCEPT ![s] = "trying"]
    /\ UNCHANGED <<shared, place, answer, waited, instead, turns, alone>>

-----------------------------------------------------------------------------
(* One turn.                                                               *)

\* The turn is begun: how the place is tried again is read once, and nothing has failed.
TakesTurn(s) ==
    /\ stage[s] = "idle" /\ turns[s] > 0
    /\ stage' = [stage EXCEPT ![s] = "asking"]
    /\ turns' = [turns EXCEPT ![s] = @ - 1] /\ alone' = [alone EXCEPT ![s] = anew # "did"]
    /\ UNCHANGED <<shared, walk>>

\* The head of the loop: node(), unless this turn has been under it.
Asks(s) ==
    LET held == under[place[s]] IN
    /\ stage[s] = "asking"
    /\ IF held.name \in tried[s]
       THEN /\ stage' = [stage EXCEPT ![s] = "spent"]
            /\ UNCHANGED <<account, tried, attempt, since>>
       ELSE /\ account' = [account EXCEPT ![s] = held]
            /\ tried' = [tried EXCEPT ![s] = @ \cup {held.name}]
            /\ attempt' = [attempt EXCEPT ![s] = 0] /\ since' = [since EXCEPT ![s] = 0]
            /\ stage' = [stage EXCEPT ![s] = "trying"]
    /\ UNCHANGED <<shared, place, answer, waited, instead, turns, alone>>

\* Another go: not once stopped, and not where waiting for it takes the place's time up.
Tries(s) ==
    /\ stage[s] = "trying"
    /\ UNCHANGED <<shared, turns, alone>>
    /\ \/ stopped /\ Over(s)
       \/ LET nth == attempt[s] + 1
              timeout == again[place[s]].timeout IN
          /\ ~stopped
          /\ attempt' = [attempt EXCEPT ![s] = nth]
          /\ \E wait \in IF nth > 1 THEN Waiting(place[s], answer[s], nth) ELSE {0} :
               IF nth > 1 /\ timeout > 0 /\ since[s] + wait > timeout
               THEN stage' = [stage EXCEPT ![s] = "failed"] /\ UNCHANGED <<waited, since>>
               ELSE /\ stage' = [stage EXCEPT ![s] = IF nth > 1 THEN "waiting" ELSE "running"]
                    /\ waited' = [waited EXCEPT ![s] = wait]
                    /\ since' = [since EXCEPT ![s] = IF timeout > 0 THEN @ + wait ELSE 0]
          /\ UNCHANGED <<place, account, tried, answer, instead>>

\* time.sleep: nobody asks whether the agent was stopped when it is over.
Slept(s) ==
    /\ stage[s] = "waiting"
    /\ stage' = [stage EXCEPT ![s] = "running"] /\ waited' = [waited EXCEPT ![s] = 0]
    /\ UNCHANGED <<shared, place, account, tried, attempt, answer, since, instead, turns, alone>>

\* The go lands, or fails in a way that is not this walk's to answer: the same wherever it is
\* taken, or cut off.
Comes(s) == stage[s] = "running" /\ Over(s) /\ UNCHANGED <<shared, turns, alone>>

\* The go fails, and what went wrong says how many goes it is worth here.
Fails(s) ==
    /\ stage[s] = "running"
    /\ \E kind \in faults[s], long \in Lengths :
         /\ answer' = [answer EXCEPT ![s] = kind]
         /\ since' = [since EXCEPT ![s] = IF again[place[s]].timeout > 0 THEN @ + long ELSE 0]
         /\ stage' = [stage EXCEPT ![s] =
                        IF attempt[s] > Worth(place[s], kind) THEN "failed" ELSE "trying"]
    /\ UNCHANGED <<shared, place, account, tried, attempt, waited, instead, turns, alone>>

\* This account is done with: another place where no account answers it, the account another
\* conversation has moved the agent to, or the next one this turn has not been under.
LooksFurther(s) ==
    /\ stage[s] = "failed"
    /\ UNCHANGED <<shared, turns, alone>>
    /\ \/ stopped /\ Over(s)
       \/ \E chain \in {Chain(account[s])} :
          LET moved == under[place[s]].name # account[s].name
              next == Untried(s, chain)
              to == IF ~Walkable(answer[s]) THEN "spent" ELSE IF moved THEN "asking"
                    ELSE IF next = {} THEN "spent" ELSE "moving" IN
          /\ ~stopped
          /\ stage' = [stage EXCEPT ![s] = to]
          /\ IF to = "moving" THEN instead' = [instead EXCEPT ![s] = chain[Min(next)]]
             ELSE UNCHANGED instead
          /\ UNCHANGED <<place, account, tried, attempt, answer, since, waited>>

\* fall_back: every turn of the agent from here on is under that account.
Moves(s) ==
    /\ stage[s] = "moving"
    /\ under' = [under EXCEPT ![place[s]] = instead[s]]
    /\ stage' = [stage EXCEPT ![s] = "asking"] /\ instead' = [instead EXCEPT ![s] = Nobody]
    /\ alone' = [o \in Sessions |-> alone[o] /\ o \notin Others(s)]
    /\ UNCHANGED <<falls, again, faults, beyond, stopped, anew, turns>>
    /\ UNCHANGED <<place, account, tried, attempt, answer, since, waited>>

\* stands_in, asked once for the agent's life and remembered either way, and _may_stand_in:
\* the turn's last failure is its own where nobody takes it from here.
StandsIn(s) ==
    LET p == place[s] IN
    /\ stage[s] = "spent"
    /\ \E stands \in IF beyond[p] # "unasked" THEN {beyond[p]}
                     ELSE IF p < Beyond THEN {"none", "made"} ELSE {"none"} :
         /\ beyond' = [beyond EXCEPT ![p] = stands]
         /\ \/ stands = "made" /\ stage' = [stage EXCEPT ![s] = "leaving"] /\ UNCHANGED walk
            \/ Over(s)
    /\ UNCHANGED <<falls, again, faults, under, stopped, anew, turns, alone>>

\* _instead: the turn is the stand-in's session's, with a walk of its own from here.
StepsAside(s) ==
    /\ stage[s] = "leaving"
    /\ stage' = [stage EXCEPT ![s] = "asking"] /\ place' = [place EXCEPT ![s] = @ + 1]
    /\ tried' = [tried EXCEPT ![s] = {}] /\ answer' = [answer EXCEPT ![s] = ""]
    /\ UNCHANGED <<shared, account, attempt, since, waited, instead, turns, alone>>

-----------------------------------------------------------------------------
(* What goes on beside them.                                               *)

\* AgentBase.stop, of the agent and of every one standing in for it.
Stop ==
    /\ ~stopped /\ stopped' = TRUE
    /\ UNCHANGED <<falls, again, faults, under, beyond, anew, stage, walk, turns, alone>>

\* providers.points: somebody says an account falls to another one from here on, which is
\* refused where it names itself or nobody.
Points(name, to) ==
    /\ anew = "may" /\ to # name /\ to # Nowhere /\ to # falls[name]
    /\ falls' = [falls EXCEPT ![name] = to] /\ anew' = "did"
    /\ alone' = [s \in Sessions |-> FALSE]
    /\ UNCHANGED <<again, faults, under, beyond, stopped, stage, walk, turns>>

Session(s) ==
    \/ Asks(s) \/ Tries(s) \/ Slept(s) \/ Comes(s) \/ Fails(s) \/ LooksFurther(s) \/ Moves(s)
    \/ StandsIn(s) \/ StepsAside(s)

WalkNext ==
    \/ \E s \in Sessions : TakesTurn(s) \/ Session(s)
    \/ Stop
    \/ \E name \in Accounts, to \in Ends : Points(name, to)

WalkSpec == WalkInit /\ [][WalkNext]_walking /\ \A s \in Sessions : WF_walking(Session(s))

-----------------------------------------------------------------------------
(* Properties.                                                             *)

\* A turn that gives a place up to an account chain, and not because no account answers it.
GivenUp(s) == stage[s] = "spent" /\ Walkable(answer[s])

\* A turn nobody else moved the agent during leaves its place only once it has been under
\* the account the agent is on, and under whatever each account it was under falls to.
WalkedAlone ==
    \A s \in Sessions : GivenUp(s) /\ alone[s] =>
        /\ under[place[s]].name \in tried[s]
        /\ \A name \in tried[s] : falls[name] \in Accounts => falls[name] \in tried[s]

\* Every turn comes to something, whatever the chain says and whoever else walks it.
WalkEnds == \A s \in Sessions : stage[s] # "idle" ~> stage[s] = "idle"
=============================================================================
