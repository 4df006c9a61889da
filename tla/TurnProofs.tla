------------------------------ MODULE TurnProofs ------------------------------
(***************************************************************************)
(* Proofs about Turn, for any number of turns, goes, interrupts, stops and *)
(* closes, with a stand-in or without and whatever budgets are offered.    *)
(***************************************************************************)
EXTENDS Turn, TLAPS

USE BoundsAssumption
USE DEF Sides, walk, flags, cuts, places, procs, others, Drives, Comes

-----------------------------------------------------------------------------
(* The inductive invariant: what the thread driving the turn may rely on.  *)

\* A place is gone to with a go to have at it.
GoesLeft ==
    /\ at \in {"opened", "allowed", "mounted", "begun", "trying", "waiting", "starting"}
          => left > 0

\* _working is what stands between stream's lock and its `finally`.
WorksWhileIn == "own" \in working <=> at \notin {"idle", "leaving"}

\* A command runs where the thread that started it is waiting on it, and nowhere else.
RunsWhereRead ==
    \A s \in Sides :
        proc[s] = "running" => side = s /\ at \in {"spawned", "registered", "reading"}

IInv == TypeOK /\ GoesLeft /\ WorksWhileIn /\ RunsWhereRead

\* What a turn comes to, wherever it does.
LEMMA KnownFates ==
    /\ "" \in Fates /\ "result" \in Fates /\ "short" \in Fates /\ "failed" \in Fates
    /\ "unrecoverable" \in Fates /\ "stopped" \in Fates
BY DEF Fates

LEMMA InitIInv == Init => IInv
<1> SUFFICES ASSUME Init PROVE IInv
  OBVIOUS
<1>1. /\ proc \in [Sides -> Statuses]
      /\ hand \in [Hands -> HandStates]
      /\ ender \in [Enders -> EnderStates]
  BY DEF Init, Statuses, HandStates, EnderStates
<1>2. TypeOK
  <2>1. left = 0 /\ turns \in 0..Turns /\ late = 0
    <3>1. PICK world \in Worlds : turns = Turns - world.turns
      BY DEF Init
    <3>2. world.turns \in 0..Turns
      BY WorldsAssumption
    <3>3. turns \in 0..Turns
      BY <3>1, <3>2
    <3>4. QED
      BY <3>3 DEF Init
  <2>2. left \in 0..Tries /\ turns \in 0..Turns /\ late \in Nat
    BY <2>1
  <2>3. /\ at \in Places /\ side \in Sides /\ fate \in Fates
        /\ capped \in Offered \cup {None} /\ clock \in {"off", "armed", "landing"}
    BY KnownFates DEF Init, Places
  <2>4. /\ started \in BOOLEAN /\ ended \in BOOLEAN /\ moved \in BOOLEAN
        /\ over \in BOOLEAN /\ wedged \in BOOLEAN /\ made \in BOOLEAN
    BY DEF Init
  <2>5. /\ working \subseteq Sides /\ cut \subseteq Sides /\ stopped \subseteq Sides
        /\ mounted \subseteq Sides /\ under \subseteq Sides
    BY DEF Init
  <2>6. QED
    BY <1>1, <2>2, <2>3, <2>4, <2>5 DEF TypeOK
<1>3. \A s \in Sides : proc[s] = "none"
  BY DEF Init
<1>4. GoesLeft /\ WorksWhileIn /\ RunsWhereRead
  BY <1>3 DEF Init, GoesLeft, WorksWhileIn, RunsWhereRead
<1>5. QED
  BY <1>2, <1>4 DEF IInv

LEMMA DriverIInv == ASSUME IInv, Opens \/ Driver PROVE IInv'
<1> USE DEF Places, IInv, TypeOK, GoesLeft, WorksWhileIn, RunsWhereRead
<1>1. CASE Opens
  <2>1. left' = Tries /\ turns' = turns + 1 /\ turns < Turns BY <1>1 DEF Opens
  <2>2. left' \in 0..Tries /\ turns' \in 0..Turns /\ left' > 0 BY <2>1
  <2>3. TypeOK' BY <1>1, <2>2, KnownFates DEF Opens
  <2>4. (WorksWhileIn /\ RunsWhereRead)' BY <1>1 DEF Opens
  <2>5. QED BY <2>2, <2>3, <2>4
<1>2. CASE Asks
  <2>1. TypeOK' BY <1>2, KnownFates DEF Asks, TypeOK
  <2>2. (GoesLeft /\ WorksWhileIn /\ RunsWhereRead)' BY <1>2 DEF Asks
  <2>3. QED BY <2>1, <2>2
<1>3. CASE Mounts BY <1>3 DEF Mounts
<1>4. CASE Begins BY <1>4 DEF Begins
<1>5. CASE Caps BY <1>5, KnownFates DEF Caps
<1>6. CASE TakesGo
  <2>1. TypeOK' BY <1>6, KnownFates DEF TakesGo, TypeOK
  <2>2. (GoesLeft /\ WorksWhileIn /\ RunsWhereRead)' BY <1>6 DEF TakesGo
  <2>3. QED BY <2>1, <2>2
<1>7. CASE Waits BY <1>7 DEF Waits
<1>8. CASE Spawns BY <1>8 DEF Spawns, Statuses
<1>9. CASE NothingRan BY <1>9 DEF NothingRan
<1>10. CASE Registers BY <1>10 DEF Registers
<1>11. CASE Rechecks
  <2>1. proc' \in [Sides -> Statuses] /\ under' \subseteq Sides
    BY <1>11 DEF Rechecks, Statuses, EndsCommand
  <2>2. TypeOK' BY <1>11, <2>1 DEF Rechecks
  <2>3. \A s \in Sides : proc'[s] = "running" => proc[s] = "running"
    BY <1>11 DEF Rechecks, Statuses, EndsCommand
  <2>4. (GoesLeft /\ WorksWhileIn /\ RunsWhereRead)' BY <1>11, <2>3 DEF Rechecks
  <2>5. QED BY <2>2, <2>4
<1>12. CASE Reads
  <2>1. TypeOK' BY <1>12 DEF Reads, TypeOK
  <2>2. (GoesLeft /\ WorksWhileIn /\ RunsWhereRead)' BY <1>12 DEF Reads
  <2>3. QED BY <2>1, <2>2
<1>13. CASE Fails
  <2>1. at' \in {"raised", "trying", "spent"} /\ (at' = "trying" => left > 0)
    BY <1>13 DEF Fails
  <2>2. at = "failed" /\ UNCHANGED <<walk, flags, cuts, places, procs>> /\ others' = others
    BY <1>13 DEF Fails
  <2>3. TypeOK' BY <2>1, <2>2
  <2>4. (GoesLeft /\ WorksWhileIn /\ RunsWhereRead)' BY <2>1, <2>2
  <2>5. QED BY <2>3, <2>4
<1>14. CASE GivesUp
  <2>1. at' \in {"ending", "moving", "raised"} /\ fate' \in Fates
    BY <1>14, KnownFates DEF GivesUp, Comes
  <2>2. at = "spent" /\ UNCHANGED <<side, left, turns, flags, cuts, places, procs, others>>
    BY <1>14 DEF GivesUp, Comes
  <2>3. TypeOK' BY <2>1, <2>2
  <2>4. (GoesLeft /\ WorksWhileIn /\ RunsWhereRead)' BY <2>1, <2>2
  <2>5. QED BY <2>3, <2>4
<1>15. CASE MakesStandIn BY <1>15 DEF MakesStandIn
<1>16. CASE Moves BY <1>16 DEF Moves
<1>17. CASE Catches BY <1>17, KnownFates DEF Catches, ShortFate
<1>18. CASE Lands
  <2>1. TypeOK' BY <1>18, KnownFates DEF Lands, ShortFate, TypeOK
  <2>2. (GoesLeft /\ WorksWhileIn /\ RunsWhereRead)' BY <1>18 DEF Lands, ShortFate
  <2>3. QED BY <2>1, <2>2
<1>19. CASE Answers BY <1>19, KnownFates DEF Answers
<1>20. CASE SentOn BY <1>20 DEF SentOn
<1>21. CASE Unbudgets BY <1>21 DEF Unbudgets
<1>22. CASE Rests BY <1>22 DEF Rests
<1>23. CASE Leaves BY <1>23 DEF Leaves
<1>24. QED
  BY <1>1, <1>2, <1>3, <1>4, <1>5, <1>6, <1>7, <1>8, <1>9, <1>10, <1>11, <1>12,
     <1>13, <1>14, <1>15, <1>16, <1>17, <1>18, <1>19, <1>20, <1>21, <1>22, <1>23
  DEF Driver

LEMMA CutterIInv ==
    ASSUME IInv, RunsOut \/ Landed \/ \E h \in Hands : Cutter(h) PROVE IInv'
<1> USE DEF HandStates, Statuses, Hands, IInv, TypeOK, GoesLeft, WorksWhileIn, RunsWhereRead, Hand
<1>1. CASE RunsOut BY <1>1 DEF RunsOut, Budgets
<1>2. CASE Landed BY <1>2 DEF Landed
<1>3. ASSUME NEW h \in Hands, Interrupts(h) PROVE IInv' BY <1>3 DEF Interrupts
<1>4. ASSUME NEW h \in Hands, Barks(h) PROVE IInv' BY <1>4 DEF Barks
<1>5. ASSUME NEW h \in Hands, Sets(h) PROVE IInv' BY <1>5 DEF Sets
<1>6. ASSUME NEW h \in Hands, Cuts(h) PROVE IInv' BY <1>6 DEF Cuts, EndsCommand
<1>7. ASSUME NEW h \in Hands, CutsMoved(h) PROVE IInv'
  <2>1. /\ proc' \in [Sides -> Statuses] /\ under' \subseteq Sides /\ cut' \subseteq Sides
        /\ hand' \in [Hands -> HandStates]
    BY <1>7 DEF CutsMoved, EndsCommand
  <2>2. TypeOK' BY <1>7, <2>1 DEF CutsMoved
  <2>3. (GoesLeft /\ WorksWhileIn /\ RunsWhereRead)' BY <1>7 DEF CutsMoved, EndsCommand
  <2>4. QED BY <2>2, <2>3
<1>8. QED BY <1>1, <1>2, <1>3, <1>4, <1>5, <1>6, <1>7 DEF Cutter

LEMMA EnderIInv == ASSUME IInv, NEW e \in Enders, Ender(e) PROVE IInv'
<1> USE DEF EnderStates, Statuses, IInv, TypeOK, GoesLeft, WorksWhileIn, RunsWhereRead, End
<1>1. CASE Stops(e) BY <1>1 DEF Stops
<1>2. CASE Closes(e) BY <1>2 DEF Closes
<1>3. CASE EndsSession(e) BY <1>3 DEF EndsSession
<1>4. CASE Shuts(e) BY <1>4 DEF Shuts, EndsCommand
<1>5. CASE ClosesMoved(e)
  <2>1. /\ proc' \in [Sides -> Statuses] /\ under' \subseteq Sides
        /\ mounted' \subseteq Sides
    BY <1>5 DEF ClosesMoved, EndsCommand
  <2>2. TypeOK' BY <1>5, <2>1 DEF ClosesMoved
  <2>3. (GoesLeft /\ WorksWhileIn /\ RunsWhereRead)' BY <1>5 DEF ClosesMoved, EndsCommand
  <2>4. QED BY <2>2, <2>3
<1>6. CASE LooksBusy(e) BY <1>6 DEF LooksBusy
<1>7. CASE Unmounts(e) BY <1>7 DEF Unmounts
<1>8. CASE StopsStandIn(e) BY <1>8 DEF StopsStandIn
<1>9. CASE ClosesStandIn(e) BY <1>9 DEF ClosesStandIn, EndsCommand
<1>10. QED
  BY <1>1, <1>2, <1>3, <1>4, <1>5, <1>6, <1>7, <1>8, <1>9 DEF Ender

LEMMA StepIInv == IInv /\ [Next]_vars => IInv'
<1> SUFFICES ASSUME IInv, [Next]_vars PROVE IInv'
  OBVIOUS
<1>1. ASSUME NEW s \in Sides, Exits(s) PROVE IInv'
  BY <1>1 DEF IInv, TypeOK, GoesLeft, WorksWhileIn, RunsWhereRead, Exits,
           Statuses
<1>2. CASE UNCHANGED vars
  BY <1>2 DEF vars, IInv, TypeOK, GoesLeft, WorksWhileIn, RunsWhereRead
<1>3. QED
  BY <1>1, <1>2, DriverIInv, CutterIInv, EnderIInv DEF Next

LEMMA Inductive == Spec => []IInv
BY InitIInv, StepIInv, PTL DEF Spec

\* The flags, the command and everybody's place stay ones the code can be in.
THEOREM TypeCorrect == Spec => []TypeOK
BY Inductive, PTL DEF IInv

-----------------------------------------------------------------------------
(* What a conversation put down goes with it.                              *)

\* Somebody is still about to take away what a closed conversation has down.
SomebodyTakesAway ==
    ended /\ "own" \in mounted =>
        \/ "own" \in working
        \/ at = "leaving"
        \/ \E e \in Enders : ender[e] \in {"shutting", "shut", "looking", "unmounting"}

LEMMA StepTakesAway ==
    IInv /\ SomebodyTakesAway /\ [Next]_vars => SomebodyTakesAway'
<1> SUFFICES ASSUME IInv, SomebodyTakesAway, [Next]_vars PROVE SomebodyTakesAway'
  OBVIOUS
<1> USE DEF SomebodyTakesAway
<1>1. CASE Opens BY <1>1 DEF Opens
<1>2. CASE Mounts BY <1>2 DEF Mounts, IInv, WorksWhileIn
<1>3. CASE Moves BY <1>3 DEF Moves
<1>4. CASE Rests BY <1>4 DEF Rests
<1>5. CASE Leaves BY <1>5 DEF Leaves
<1>6. CASE Driver /\ ~(Mounts \/ Moves \/ Rests \/ Leaves)
  <2>1. UNCHANGED <<ended, mounted, working, ender>> /\ at # "leaving"
    BY <1>6
    DEF Driver, Asks, Begins, Caps, TakesGo, Waits, Spawns, NothingRan, Registers,
        Rechecks, Reads, Fails, GivesUp, MakesStandIn, Catches, Lands, Answers, SentOn,
        Unbudgets
  <2>2. QED BY <2>1
<1>7. CASE RunsOut \/ Landed \/ (\E s \in Sides : Exits(s)) \/ (\E h \in Hands : Cutter(h))
  <2>1. UNCHANGED <<ended, mounted, working, ender, at>>
    BY <1>7
    DEF RunsOut, Landed, Exits, Cutter, Interrupts, Barks, Sets, Cuts, CutsMoved, Hand
  <2>2. QED BY <2>1
<1>8. ASSUME NEW e \in Enders, Ender(e) PROVE SomebodyTakesAway'
  <2> USE DEF End, IInv, TypeOK
  <2>1. CASE Stops(e) \/ Closes(e) BY <2>1 DEF Stops, Closes
  <2>2. CASE EndsSession(e) BY <2>2 DEF EndsSession
  <2>3. CASE Shuts(e) BY <2>3 DEF Shuts
  <2>4. CASE ClosesMoved(e) BY <2>4 DEF ClosesMoved
  <2>5. CASE LooksBusy(e) BY <2>5 DEF LooksBusy
  <2>6. CASE Unmounts(e) BY <2>6 DEF Unmounts
  <2>7. CASE StopsStandIn(e) \/ ClosesStandIn(e) BY <2>7 DEF StopsStandIn, ClosesStandIn
  <2>8. QED BY <1>8, <2>1, <2>2, <2>3, <2>4, <2>5, <2>6, <2>7 DEF Ender
<1>9. CASE UNCHANGED vars BY <1>9 DEF vars
<1>10. QED
  BY <1>1, <1>2, <1>3, <1>4, <1>5, <1>6, <1>7, <1>8, <1>9 DEF Next

\* Whichever of the turn and its closes is last takes the skills away, however they pass
\* each other.
THEOREM NothingIsLeft == Spec => []NothingStaysMounted
<1>1. Init => SomebodyTakesAway
  BY DEF Init, SomebodyTakesAway
<1>2. IInv /\ SomebodyTakesAway => NothingStaysMounted
  BY DEF IInv, TypeOK, WorksWhileIn, SomebodyTakesAway, NothingStaysMounted
<1>3. QED
  BY <1>1, <1>2, StepTakesAway, Inductive, PTL DEF Spec

-----------------------------------------------------------------------------
(* A stopped agent has the go it was about to have, and no other.          *)

\* Once a command has started late there is nowhere left to start another from.
LastOne ==
    \/ late = 0
    \/ late = 1 /\ "own" \in stopped /\ (side = "own" => at \notin {"waiting", "starting"})

LEMMA StepLastOne == IInv /\ LastOne /\ [Next]_vars => LastOne'
<1> SUFFICES ASSUME IInv, LastOne, [Next]_vars PROVE LastOne'
  OBVIOUS
<1> USE DEF LastOne
<1>1. CASE Spawns BY <1>1 DEF Spawns
<1>2. CASE TakesGo BY <1>2 DEF TakesGo
<1>3. CASE Opens \/ Moves \/ SentOn BY <1>3 DEF Opens, Moves, SentOn
<1>4. CASE Driver /\ ~(Spawns \/ TakesGo \/ Moves \/ SentOn)
  <2>1. /\ UNCHANGED <<late, stopped, side>>
        /\ at' \in {"waiting", "starting"} => at \in {"waiting", "starting"}
    BY <1>4
    DEF Driver, Asks, Mounts, Begins, Caps, Waits, NothingRan, Registers, Rechecks, Reads,
        Fails, GivesUp, MakesStandIn, Catches, Lands, Answers, Unbudgets, Rests, Leaves
  <2>2. QED BY <2>1
<1>5. CASE RunsOut \/ Landed \/ (\E s \in Sides : Exits(s)) \/ (\E h \in Hands : Cutter(h))
  <2>1. UNCHANGED <<late, stopped, side, at>>
    BY <1>5
    DEF RunsOut, Landed, Exits, Cutter, Interrupts, Barks, Sets, Cuts, CutsMoved, Hand
  <2>2. QED BY <2>1
<1>6. ASSUME NEW e \in Enders, Ender(e) PROVE LastOne'
  <2>1. UNCHANGED <<late, side, at>> /\ stopped \subseteq stopped'
    BY <1>6
    DEF Ender, End, Stops, Closes, EndsSession, Shuts, ClosesMoved, LooksBusy, Unmounts,
        StopsStandIn, ClosesStandIn
  <2>2. QED BY <2>1
<1>7. CASE UNCHANGED vars BY <1>7 DEF vars
<1>8. QED
  BY <1>1, <1>2, <1>3, <1>4, <1>5, <1>6, <1>7 DEF Next

\* However many goes are left at the place and whatever the hooks send it on with, one
\* command at most is started once the agent has been told to stop.
THEOREM OneGoAfterAStop == Spec => []OneMoreAtMost
<1>1. Init => LastOne
  BY DEF Init, LastOne
<1>2. LastOne => OneMoreAtMost
  BY DEF LastOne, OneMoreAtMost
<1>3. QED
  BY <1>1, <1>2, StepLastOne, Inductive, PTL DEF Spec

-----------------------------------------------------------------------------
(* Until somebody else closes it, what a turn works by stays down.         *)

\* Between its skills being put down and its answer, a turn is working by them.
Working ==
    {"mounted", "begun", "trying", "waiting", "starting", "spawned", "registered",
     "reading", "failed", "spent", "moving", "answered", "asking", "raised"}

\* Whoever is about to take them away has stopped the agent first, and found no turn
\* opened before that.
KeptDown ==
    Unclosed =>
        /\ at \in Working => "own" \in mounted
        /\ \A e \in Enders : ender[e] \notin {"absent", "idle"} => "own" \in stopped
        /\ \A e \in Enders : ender[e] = "unmounting" => at \notin Working \cup {"allowed"}

LEMMA StepKeptDown ==
    IInv /\ KeptDown /\ [Next]_vars => KeptDown'
<1> SUFFICES ASSUME IInv, KeptDown, [Next]_vars PROVE KeptDown'
  OBVIOUS
<1> USE DEF KeptDown, Working, Unclosed
<1>1. CASE Opens BY <1>1 DEF Opens
<1>2. CASE Asks BY <1>2 DEF Asks
<1>3. CASE Mounts BY <1>3 DEF Mounts
<1>4. CASE Moves BY <1>4 DEF Moves
<1>5. CASE Leaves BY <1>5 DEF Leaves
<1>6. CASE Driver /\ ~(Asks \/ Mounts \/ Moves \/ Leaves)
  <2>1. /\ UNCHANGED <<mounted, ender, stopped>>
        /\ at' \in Working => at \in Working
        /\ at' # "allowed"
    BY <1>6
    DEF Driver, Begins, Caps, TakesGo, Waits, Spawns, NothingRan, Registers, Rechecks,
        Reads, Fails, GivesUp, MakesStandIn, Catches, Lands, Answers, SentOn, Unbudgets,
        Rests
  <2>2. QED BY <2>1
<1>7. CASE RunsOut \/ Landed \/ (\E s \in Sides : Exits(s)) \/ (\E h \in Hands : Cutter(h))
  <2>1. UNCHANGED <<mounted, ender, stopped, at>>
    BY <1>7
    DEF RunsOut, Landed, Exits, Cutter, Interrupts, Barks, Sets, Cuts, CutsMoved, Hand
  <2>2. QED BY <2>1
<1>8. ASSUME NEW e \in Enders, Ender(e) PROVE KeptDown'
  <2> USE DEF End, IInv, TypeOK
  <2>1. CASE Stops(e) BY <2>1 DEF Stops
  <2>2. CASE e \in Closers
    <3>1. ender' = [ender EXCEPT ![e] = ender'[e]] /\ ender'[e] \notin {"absent", "idle"}
      BY <1>8
      DEF Ender, Stops, Closes, EndsSession, Shuts, ClosesMoved, LooksBusy, Unmounts,
          StopsStandIn, ClosesStandIn
    <3>2. ~Unclosed' BY <2>2, <3>1
    <3>3. QED BY <3>2
  <2>3. CASE EndsSession(e) BY <2>3 DEF EndsSession
  <2>4. CASE Shuts(e) BY <2>4 DEF Shuts
  <2>5. CASE ClosesMoved(e) BY <2>5 DEF ClosesMoved
  <2>6. CASE LooksBusy(e) BY <2>6 DEF LooksBusy, WorksWhileIn
  <2>7. CASE Unmounts(e) BY <2>7 DEF Unmounts
  <2>8. CASE StopsStandIn(e) BY <2>8 DEF StopsStandIn
  <2>9. CASE ClosesStandIn(e) BY <2>9 DEF ClosesStandIn
  <2>10. QED
    BY <1>8, <2>1, <2>2, <2>3, <2>4, <2>5, <2>6, <2>7, <2>8, <2>9 DEF Ender
<1>9. CASE UNCHANGED vars BY <1>9 DEF vars
<1>10. QED
  BY <1>1, <1>2, <1>3, <1>4, <1>5, <1>6, <1>7, <1>8, <1>9 DEF Next

\* No number of stops takes the skills of a conversation from under a command that is
\* running by them, however a stop and a turn that is opening pass each other.
THEOREM SkillsStayDown == Spec => []StillMounted
<1>1. Init => KeptDown
  BY DEF Init, KeptDown, Working
<1>2. IInv /\ KeptDown /\ [Next]_vars => KeptDown'
  BY StepKeptDown
<1>3. IInv /\ KeptDown => StillMounted
  BY DEF IInv, RunsWhereRead, KeptDown, Working, StillMounted
<1>4. QED
  BY <1>1, <1>2, <1>3, Inductive, PTL DEF Spec

-----------------------------------------------------------------------------
(* A cut-off reaches the command, however it and the start of it pass.     *)

\* From being put where it is reached to being read to its end, a command that is
\* running is where EndsCommand finds it.
Reachable ==
    side = "own" /\ at \in {"registered", "reading"} /\ proc["own"] = "running"
        => "own" \in under

LEMMA StepReachable ==
    IInv /\ Reachable /\ CutReaches /\ [Next]_vars => Reachable' /\ CutReaches'
<1> SUFFICES ASSUME IInv, Reachable, CutReaches, [Next]_vars
             PROVE  Reachable' /\ CutReaches'
  OBVIOUS
<1> USE DEF Reachable, CutReaches, Cutoff
<1>1. CASE Registers BY <1>1 DEF Registers
<1>2. CASE Rechecks
  <2>1. CASE Cutting(side) BY <1>2, <2>1 DEF Rechecks, EndsCommand, IInv, TypeOK
  <2>2. CASE ~Cutting(side)
    BY <1>2, <2>2 DEF Rechecks, Cutting
  <2>3. QED BY <2>1, <2>2
<1>3. CASE Opens BY <1>3 DEF Opens
<1>4. CASE Driver /\ ~(Registers \/ Rechecks)
  <2>1. at' \notin {"registered", "reading"}
    BY <1>4
    DEF Driver, Asks, Mounts, Begins, Caps, TakesGo, Waits, Spawns, NothingRan, Reads,
        Fails, GivesUp, MakesStandIn, Moves, Catches, Lands, Answers, SentOn, Unbudgets,
        Rests, Leaves
  <2>2. QED BY <2>1
<1>5. ASSUME NEW s \in Sides, Exits(s) PROVE Reachable' /\ CutReaches'
  BY <1>5 DEF Exits, IInv, TypeOK
<1>6. CASE RunsOut \/ Landed
  <2>1. /\ UNCHANGED <<at, side, proc, under, cut>>
        /\ \A h \in Hands : hand[h] \in {"asked", "set"} => hand'[h] \in {"asked", "set"}
    BY <1>6 DEF RunsOut, Landed, Hand, IInv, TypeOK
  <2>2. QED BY <2>1
<1>7. ASSUME NEW h \in Hands, Cutter(h) PROVE Reachable' /\ CutReaches'
  <2> USE DEF Hand, IInv, TypeOK
  <2>1. CASE Interrupts(h) \/ Barks(h) \/ Sets(h)
    <3>1. CASE Sets(h)
      <4>1. hand'[h] = "set" /\ UNCHANGED <<at, side, proc, under>> BY <3>1 DEF Sets
      <4>2. QED BY <4>1
    <3>2. CASE Interrupts(h) \/ Barks(h)
      <4>1. /\ UNCHANGED <<at, side, proc, under, cut>>
            /\ \A g \in Hands : hand[g] \in {"asked", "set"} => hand'[g] \in {"asked", "set"}
        BY <3>2 DEF Interrupts, Barks
      <4>2. QED BY <4>1
    <3>3. QED BY <2>1, <3>1, <3>2
  <2>2. CASE Cuts(h)
    <3>1. EndsCommand("own", "cut") /\ UNCHANGED <<at, side>> BY <2>2 DEF Cuts
    <3>2. QED BY <3>1 DEF EndsCommand
  <2>3. CASE CutsMoved(h)
    <3>1. /\ UNCHANGED <<at, side>> /\ proc'["own"] = proc["own"]
          /\ "own" \in under => "own" \in under'
          /\ "own" \in cut' => "own" \in cut
          /\ \A g \in Hands : hand[g] \in {"asked", "set"} => hand'[g] \in {"asked", "set"}
      BY <2>3 DEF CutsMoved, EndsCommand
    <3>2. QED BY <3>1
  <2>4. QED BY <1>7, <2>1, <2>2, <2>3 DEF Cutter
<1>8. ASSUME NEW e \in Enders, Ender(e) PROVE Reachable' /\ CutReaches'
  <2> USE DEF End, IInv, TypeOK
  <2>1. CASE Shuts(e)
    BY <2>1 DEF Shuts, EndsCommand
  <2>2. CASE ClosesMoved(e) \/ ClosesStandIn(e)
    <3>1. /\ UNCHANGED <<at, side, cut, hand>> /\ proc'["own"] = proc["own"]
          /\ "own" \in under => "own" \in under'
      BY <2>2 DEF ClosesMoved, ClosesStandIn, EndsCommand
    <3>2. QED BY <3>1
  <2>3. CASE \/ Stops(e) \/ Closes(e) \/ EndsSession(e) \/ LooksBusy(e) \/ Unmounts(e)
             \/ StopsStandIn(e)
    <3>1. UNCHANGED <<at, side, cut, hand, proc, under>>
      BY <2>3 DEF Stops, Closes, EndsSession, LooksBusy, Unmounts, StopsStandIn
    <3>2. QED BY <3>1
  <2>4. QED BY <1>8, <2>1, <2>2, <2>3 DEF Ender
<1>9. CASE UNCHANGED vars BY <1>9 DEF vars
<1>10. QED
  BY <1>1, <1>2, <1>3, <1>4, <1>5, <1>6, <1>7, <1>8, <1>9 DEF Next

\* An interrupt, a watchdog's or a budget's cut-off is never lost to a command that was
\* being started as it came, whatever number of them there are.
THEOREM CutsReach == Spec => []CutReaches
<1>1. Init => Reachable /\ CutReaches
  BY DEF Init, Reachable, CutReaches
<1>2. QED
  BY <1>1, StepReachable, Inductive, PTL DEF Spec
=============================================================================
