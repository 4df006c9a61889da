------------------------------ MODULE GoesProofs ------------------------------
(***************************************************************************)
(* What is promised of the goes at a turn.  Of Watching, for any window,   *)
(* any number of grants, goes and holders: the watchdog of a go that is    *)
(* over neither asks the next to stop nor puts down what it rides, and a   *)
(* go it cut off fails.  Of Walk, for any conversations and accounts and   *)
(* whatever falls to whatever: a turn nobody came across leaves no account *)
(* of its chain out.                                                       *)
(***************************************************************************)
EXTENDS Watching, Walk, TLAPS, WellFoundedInduction, FiniteSetTheorems, SequenceTheorems

-----------------------------------------------------------------------------
(* Types.                                                                  *)

LEMMA InitTypeOK == Init => TypeOK
<1> SUFFICES ASSUME Init PROVE TypeOK
  OBVIOUS
<1>1. ReadingOK
  BY BoundsAssumption DEF Init, ReadingOK
<1>4. SaidOK
  BY DEF Init, SaidOK
<1>3. SessionOK
  <2>1. 0 \in 0..Goes
    BY BoundsAssumption
  <2> QED
    BY <2>1 DEF Init, SessionOK
<1>2. ClockOK /\ LadderOK
  BY WindowAssumption, BoundsAssumption DEF Init, ClockOK, LadderOK, Watches, Rungs, Tickings
<1> QED
  BY <1>1, <1>2, <1>3, <1>4 DEF TypeOK

LEMMA BeginsTypeOK == ASSUME TypeOK, Begins PROVE TypeOK'
<1>1. go + 1 \in Watches /\ go + 1 \in 0..Goes /\ 0 \in 0..Goes
  BY BoundsAssumption DEF TypeOK, ReadingOK, Begins, Watches
<1>2. ReadingOK' /\ SaidOK'
  BY <1>1 DEF TypeOK, ReadingOK, SaidOK, Begins
<1>3. SessionOK'
  <2>1. PICK p \in IF ~profile.rides THEN {0}
                   ELSE IF go > 0 /\ rides[go] \in alive THEN {rides[go], go + 1} ELSE {go + 1} :
            rides' = [rides EXCEPT ![go + 1] = p] /\ alive' = {p} \ {0}
    BY DEF Begins
  <2>2. p = 0 \/ p \in alive \/ p = go + 1
    BY <2>1
  <2>3. alive \subseteq Watches /\ Watches \subseteq 0..Goes
    BY BoundsAssumption DEF TypeOK, SessionOK, Watches
  <2>4. p \in 0..Goes /\ {p} \ {0} \subseteq Watches
    BY <1>1, <2>2, <2>3
  <2> QED
    BY <2>1, <2>4 DEF TypeOK, SessionOK
<1>4. ClockOK'
  BY WindowAssumption, BoundsAssumption DEF TypeOK, ClockOK, Begins
<1>5. LadderOK'
  BY DEF TypeOK, LadderOK, Begins, Tickings
<1> QED
  BY <1>2, <1>3, <1>4, <1>5 DEF TypeOK

LEMMA ReaderTypeOK ==
    ASSUME TypeOK, Saw \/ Sticks \/ Crashes \/ Leaves \/ Joins \/ Tick PROVE TypeOK'
<1>1. ReadingOK'
  <2>1. CASE Saw \/ Sticks \/ Leaves \/ Tick
    BY <2>1 DEF TypeOK, ReadingOK, Saw, Sticks, Leaves, Tick, reading
  <2>2. CASE Crashes
    BY <2>2 DEF TypeOK, ReadingOK, Crashes, Dies, reading
  <2>3. CASE Joins
    <3>1. fate' \in {"wedged", "short", fate}
      BY <2>3, Zenon DEF Joins
    <3> QED
      BY <2>3, <3>1 DEF TypeOK, ReadingOK, Joins
  <2> QED
    BY <2>1, <2>2, <2>3
<1>2. SessionOK'
  BY DEF TypeOK, SessionOK, Saw, Sticks, Crashes, Dies, Leaves, Joins, Tick, session
<1>3. SaidOK'
  BY DEF TypeOK, SaidOK, Saw, Sticks, Crashes, Leaves, Joins, Tick, session, clock
<1>4. ClockOK'
  <2>1. CASE Tick
    BY <2>1, BoundsAssumption DEF TypeOK, ClockOK, Tick
  <2>2. CASE Saw \/ Sticks \/ Crashes \/ Leaves \/ Joins
    BY <2>2, WindowAssumption DEF TypeOK, ClockOK, Saw, Sticks, Crashes, Leaves, Joins, clock, hands
  <2> QED
    BY <2>1, <2>2
<1>5. LadderOK'
  BY DEF TypeOK, LadderOK, Saw, Sticks, Crashes, Leaves, Joins, Tick, ladder
<1> QED
  BY <1>1, <1>2, <1>3, <1>4, <1>5 DEF TypeOK

LEMMA HolderTypeOK ==
    ASSUME TypeOK, NEW h \in Holders, Holds(h) \/ LetsGo(h) \/ MovesOn(h) PROVE TypeOK'
<1>1. ReadingOK' /\ SessionOK'
  BY DEF TypeOK, ReadingOK, SessionOK, Holds, LetsGo, MovesOn, reading, session
<1>2. SaidOK' /\ LadderOK'
  BY DEF TypeOK, SaidOK, LadderOK, Holds, LetsGo, MovesOn, session, clock, ladder
<1>3. ClockOK'
  BY BoundsAssumption DEF TypeOK, ClockOK, Holds, LetsGo, MovesOn, clock
<1> QED
  BY <1>1, <1>2, <1>3 DEF TypeOK

LEMMA TickerTypeOK == ASSUME TypeOK, NEW w \in Watches, Ticker(w) PROVE TypeOK'
<1>1. ReadingOK' /\ SessionOK'
  BY DEF TypeOK, ReadingOK, SessionOK, Ticker, Quits, Wakes, Climbs, Looks, Warns, Interrupts, Cuts, Asked, Drops,
     PutsDown, LetGo, Kills, Killed, Reaped, Steps, Harmless, Does, Hurts, Dies, reading
<1>2. SaidOK'
  <2>1. wedged' \in BOOLEAN /\ verdict' \in BOOLEAN /\ woke' \in BOOLEAN
    BY Zenon DEF TypeOK, SaidOK, Ticker, Quits, Wakes, Climbs, Looks, Warns, Interrupts, Cuts, Asked, Drops,
       PutsDown, LetGo, Kills, Killed, Reaped, Steps, Verdicts
  <2>2. hurt' \in {hurt, hurt \cup {"asked"}, hurt \cup {"cut"}, hurt \cup {"down"},
                   hurt \cup {"balked"}, hurt \cup {"killed"}}
    BY DEF Ticker, Quits, Wakes, Climbs, Looks, Warns, Interrupts, Cuts, Asked, Drops, PutsDown, LetGo,
       Kills, Killed, Reaped, Harmless, Does, Hurts
  <2> QED
    BY <2>1, <2>2 DEF TypeOK, SaidOK
<1>3. ClockOK'
  BY WindowAssumption DEF TypeOK, ClockOK, Ticker, Quits, Wakes, Climbs, Looks, Warns, Interrupts, Cuts, Asked,
     Drops, PutsDown, LetGo, Kills, Killed, Reaped, Steps, hands
<1>4. LadderOK'
  <2>1. at' \in [Watches -> Rungs]
    BY DEF TypeOK, LadderOK, Rungs, Ticker, Quits, Wakes, Climbs, Looks, Warns, Interrupts, Cuts, Asked, Drops,
       PutsDown, LetGo, Kills, Killed, Reaped, Rung
  <2>2. pc' \in [Watches -> Tickings]
    BY DEF TypeOK, LadderOK, Tickings, Blocked, Ticker, Quits, Wakes, Climbs, Looks, Warns, Interrupts, Cuts, Asked,
       Drops, PutsDown, LetGo, Kills, Killed, Reaped, Steps
  <2>3. doomed' \in [Watches -> 0..Goes]
    <3>1. 0 \in 0..Goes /\ rides[w] \in 0..Goes
      BY BoundsAssumption DEF TypeOK, SessionOK
    <3> QED
      BY <3>1 DEF TypeOK, LadderOK, Ticker, Quits, Wakes, Climbs, Looks, Warns, Interrupts, Cuts, Asked, Drops,
         PutsDown, LetGo, Kills, Killed, Reaped
  <2> QED
    BY <2>1, <2>2, <2>3 DEF LadderOK
<1> QED
  BY <1>1, <1>2, <1>3, <1>4 DEF TypeOK

LEMMA StepTypeOK == TypeOK /\ [Next]_vars => TypeOK'
<1> SUFFICES ASSUME TypeOK, [Next]_vars PROVE TypeOK'
  OBVIOUS
<1>1. CASE UNCHANGED vars
  BY <1>1 DEF TypeOK, ReadingOK, SessionOK, SaidOK, ClockOK, LadderOK, vars, reading, session, clock, ladder,
     hands
<1> QED
  BY <1>1, BeginsTypeOK, ReaderTypeOK, HolderTypeOK, TickerTypeOK DEF Next

\* The types of Watching, for any window, grants, goes and holders.
THEOREM TypeCorrect == Spec => []TypeOK
  BY InitTypeOK, StepTypeOK, PTL DEF Spec

-----------------------------------------------------------------------------
(* No watchdog touches another's go.                                       *)

\* Where the thread of a watchdog whose go is over may still be: held up where the end of the
\* go gave up on it, or on its way out from there by a step that asks once more.
Late == Blocked \cup {"off", "waiting", "dropping"}

\* A go is over once a later one has begun, or its end has been waited for.
OverFor(w) == w < go \/ (w = go /\ phase = "idle")

OnlyItsOwn ==
    \A w \in Watches : /\ OverFor(w) => pc[w] \in Late
                       /\ w > go => pc[w] = "off"

HInv == TypeOK /\ OnlyItsOwn /\ HandsOff

LEMMA InitHInv == Init => HInv
<1> SUFFICES ASSUME Init PROVE OnlyItsOwn /\ HandsOff
  BY InitTypeOK DEF HInv
<1> QED
  BY BoundsAssumption DEF Init, OnlyItsOwn, OverFor, HandsOff, Late, Watches

LEMMA StepHInv == HInv /\ [Next]_vars => HInv'
<1> SUFFICES ASSUME HInv, [Next]_vars PROVE HInv'
  OBVIOUS
<1>t. TypeOK /\ OnlyItsOwn /\ HandsOff /\ TypeOK'
  BY StepTypeOK DEF HInv
<1>p. pc \in [Watches -> Tickings]
  BY <1>t DEF TypeOK, LadderOK
<1>g. go \in Int /\ \A w \in Watches : w \in Int
  BY <1>t, BoundsAssumption DEF TypeOK, ReadingOK, Watches
<1> SUFFICES OnlyItsOwn' /\ HandsOff'
  BY <1>t DEF HInv
<1>1. ASSUME UNCHANGED <<go, phase, pc, hurt>> PROVE OnlyItsOwn' /\ HandsOff'
  BY <1>t, <1>1 DEF OnlyItsOwn, OverFor, HandsOff
<1>2. CASE Begins
  <2>1. phase = "idle" /\ go' = go + 1 /\ phase' = "reading" /\ UNCHANGED hurt
        /\ pc' = [pc EXCEPT ![go + 1] = "waiting"]
    BY <1>2 DEF Begins
  <2>2. ASSUME NEW w \in Watches, w <= go PROVE pc[w] \in Late /\ pc'[w] = pc[w]
    BY <1>t, <1>p, <1>g, <2>1, <2>2 DEF OnlyItsOwn, OverFor
  <2>3. ASSUME NEW w \in Watches, w > go' PROVE pc'[w] = "off"
    BY <1>t, <1>p, <1>g, <2>1, <2>3 DEF OnlyItsOwn
  <2> QED
    BY <1>t, <1>g, <2>1, <2>2, <2>3 DEF OnlyItsOwn, OverFor, HandsOff
<1>3. CASE Saw \/ Sticks \/ Crashes \/ Tick
  BY <1>1, <1>3 DEF Saw, Sticks, Crashes, Tick, reading, ladder
<1>4. CASE Leaves
  BY <1>t, <1>4 DEF Leaves, ladder, OnlyItsOwn, OverFor, HandsOff
<1>5. CASE Joins
  <2>1. pc[go] \in Late /\ UNCHANGED <<go, pc, hurt>> /\ phase # "idle"
    BY <1>5 DEF Joins, ladder, Late
  <2> QED
    BY <1>t, <2>1 DEF OnlyItsOwn, OverFor, HandsOff
<1>6. ASSUME NEW h \in Holders, Holds(h) \/ LetsGo(h) \/ MovesOn(h) PROVE OnlyItsOwn' /\ HandsOff'
  BY <1>1, <1>6 DEF Holds, LetsGo, MovesOn, reading, ladder
<1>7. ASSUME NEW w \in Watches, Ticker(w) PROVE OnlyItsOwn' /\ HandsOff'
  <2>1. UNCHANGED <<go, phase>> /\ \A v \in Watches \ {w} : pc'[v] = pc[v]
    BY <1>p, <1>7 DEF Ticker, Quits, Wakes, Climbs, Looks, Warns, Interrupts, Cuts, Asked, Drops, PutsDown,
       LetGo, Kills, Killed, Reaped, Steps, reading
  <2>2. pc[w] # "off"
    BY <1>7 DEF Ticker, Quits, Wakes, Climbs, Looks, Warns, Interrupts, Cuts, Asked, Drops, PutsDown, LetGo, Kills,
       Killed, Reaped, Steps
  <2>3. OverFor(w) => Done(w)
    BY DEF OverFor, Done
  <2>4. ASSUME OverFor(w) PROVE pc'[w] \in Late
    <3>1. pc[w] \in Late
      BY <1>t, <2>4 DEF OnlyItsOwn
    <3> QED
      BY <1>p, <1>7, <2>3, <2>4, <3>1 DEF Late, Blocked, Ticker, Quits, Wakes, Climbs, Looks, Warns,
         Interrupts, Cuts, Asked, Drops, PutsDown, LetGo, Kills, Killed, Reaped, Steps
  <2>5. OnlyItsOwn'
    BY <1>t, <2>1, <2>2, <2>4 DEF OnlyItsOwn, OverFor
  <2>6. hurt' \subseteq {"cut", "killed"}
    <3>1. w <= go
      BY <1>t, <1>g, <2>2 DEF OnlyItsOwn
    <3>2. CASE Interrupts(w)
      <4>1. pc[w] = "warned"
        BY <3>2 DEF Interrupts, Steps
      <4>2. ~OverFor(w)
        BY <1>t, <4>1 DEF OnlyItsOwn, Late, Blocked
      <4>3. w = go
        BY <1>g, <3>1, <4>2 DEF OverFor
      <4> QED
        BY <1>t, <3>2, <4>3 DEF Interrupts, Does, Hurts, HandsOff
    <3>3. CASE PutsDown(w)
      <4>1. CASE Done(w)
        BY <1>t, <3>3, <4>1 DEF PutsDown, Harmless, HandsOff
      <4>2. CASE ~Done(w)
        <5>1. w = go
          BY <1>g, <3>1, <4>2 DEF Done
        <5> QED
          BY <1>t, <3>3, <4>2, <5>1 DEF PutsDown, Does, Hurts, HandsOff
      <4> QED
        BY <4>1, <4>2
    <3>4. CASE Cuts(w) \/ Killed(w)
      BY <1>t, <3>4 DEF Cuts, Killed, Hurts, HandsOff
    <3>5. CASE ~Interrupts(w) /\ ~PutsDown(w) /\ ~Cuts(w) /\ ~Killed(w)
      BY <1>t, <1>7, <3>5 DEF Ticker, Quits, Wakes, Climbs, Looks, Warns, Asked, Drops, LetGo, Kills,
         Reaped, Harmless, HandsOff
    <3> QED
      BY <3>2, <3>3, <3>4, <3>5
  <2> QED
    BY <2>5, <2>6 DEF HandsOff
<1>8. CASE UNCHANGED vars
  BY <1>1, <1>8 DEF vars, reading, ladder
<1> QED
  BY <1>2, <1>3, <1>4, <1>5, <1>6, <1>7, <1>8 DEF Next

\* However long any step of a watchdog takes, and however many goes follow: it asks none but its
\* own to stop and puts down what none but its own rides.  What it had begun against its own may
\* reach the next only as the end of an interrupt, or as the killing of what it had asked to go.
THEOREM NothingToTheNext == Spec => []HandsOff
<1>1. HInv => HandsOff
  BY DEF HInv
<1> QED
  BY InitHInv, StepHInv, <1>1, PTL DEF Spec

-----------------------------------------------------------------------------
(* What a watchdog cut off fails.                                          *)

\* A go was said to be wedged before anything was done to cut it off.
WedgedFirst == (act = "asked" \/ \E w \in Watches : pc[w] = "warned") => wedged

SInv == HInv /\ WedgedFirst /\ NeverPassesForShort

LEMMA StepSInv == SInv /\ [Next]_vars => SInv'
<1> SUFFICES ASSUME SInv, [Next]_vars PROVE WedgedFirst' /\ NeverPassesForShort'
  BY StepHInv DEF SInv
<1>t. TypeOK /\ OnlyItsOwn /\ WedgedFirst /\ NeverPassesForShort
  BY DEF SInv, HInv
<1>p. pc \in [Watches -> Tickings]
  BY <1>t DEF TypeOK, LadderOK
<1>1. CASE Begins
  <2>1. go \in Int /\ \A w \in Watches : w \in Int
    BY <1>t, BoundsAssumption DEF TypeOK, ReadingOK, Watches
  <2>2. phase = "idle" /\ pc' = [pc EXCEPT ![go + 1] = "waiting"] /\ act' = "none" /\ fate' = "none"
    BY <1>1 DEF Begins
  <2>3. ASSUME NEW w \in Watches PROVE pc'[w] # "warned"
    <3>1. CASE w <= go
      BY <1>t, <1>p, <2>1, <2>2, <3>1 DEF OnlyItsOwn, OverFor, Late, Blocked
    <3>2. CASE w > go
      BY <1>t, <1>p, <2>1, <2>2, <3>2 DEF OnlyItsOwn
    <3> QED
      BY <2>1, <3>1, <3>2
  <2> QED
    BY <2>2, <2>3 DEF WedgedFirst, NeverPassesForShort
<1>2. CASE Saw \/ Sticks \/ Crashes \/ Tick
  BY <1>t, <1>2 DEF Saw, Sticks, Crashes, Tick, reading, session, ladder, WedgedFirst, NeverPassesForShort
<1>3. CASE Leaves \/ Joins
  <2>1. WedgedFirst'
    BY <1>t, <1>3 DEF Leaves, Joins, session, ladder, WedgedFirst
  <2>2. fate' \in {"answered", "failed", "wedged", fate}
    BY <1>t, <1>3, Zenon DEF Leaves, Joins, WedgedFirst
  <2> QED
    BY <1>t, <2>1, <2>2 DEF NeverPassesForShort
<1>4. ASSUME NEW h \in Holders, Holds(h) \/ LetsGo(h) \/ MovesOn(h)
      PROVE WedgedFirst' /\ NeverPassesForShort'
  BY <1>t, <1>4 DEF Holds, LetsGo, MovesOn, reading, session, ladder, WedgedFirst, NeverPassesForShort
<1>5. ASSUME NEW w \in Watches, Ticker(w) PROVE WedgedFirst' /\ NeverPassesForShort'
  <2>1. UNCHANGED fate /\ \A v \in Watches \ {w} : pc'[v] = pc[v]
    BY <1>p, <1>5 DEF Ticker, Quits, Wakes, Climbs, Looks, Warns, Interrupts, Cuts, Asked, Drops, PutsDown,
       LetGo, Kills, Killed, Reaped, Steps, reading
  <2>2. wedged => wedged'
    BY <1>5, Zenon DEF Ticker, Quits, Wakes, Climbs, Looks, Warns, Interrupts, Cuts, Asked, Drops, PutsDown,
       LetGo, Kills, Killed, Reaped, Steps, Verdicts
  <2>3. pc'[w] = "warned" => wedged'
    BY <1>p, <1>5 DEF Ticker, Quits, Wakes, Climbs, Looks, Warns, Interrupts, Cuts, Asked, Drops, PutsDown,
       LetGo, Kills, Killed, Reaped, Steps
  <2>4. act' = "asked" => act = "asked" \/ pc[w] = "warned"
    BY <1>5 DEF Ticker, Quits, Wakes, Climbs, Looks, Warns, Interrupts, Cuts, Asked, Drops, PutsDown,
       LetGo, Kills, Killed, Reaped, Steps, Harmless, Does
  <2> QED
    BY <1>t, <2>1, <2>2, <2>3, <2>4 DEF WedgedFirst, NeverPassesForShort
<1>6. CASE UNCHANGED vars
  BY <1>t, <1>6 DEF vars, reading, session, ladder, WedgedFirst, NeverPassesForShort
<1> QED
  BY <1>1, <1>2, <1>3, <1>4, <1>5, <1>6 DEF Next

\* A go a watchdog cut off never answers with what there was of it: by the time its reader is
\* free, the conversation says that it was wedged.
THEOREM CutOffFails == Spec => []NeverPassesForShort
<1>1. Init => SInv
  <2>1. ASSUME Init PROVE WedgedFirst /\ NeverPassesForShort
    BY <2>1 DEF Init, WedgedFirst, NeverPassesForShort, Watches
  <2> QED
    BY <2>1, InitHInv DEF SInv
<1>2. SInv => NeverPassesForShort
  BY DEF SInv
<1> QED
  BY <1>1, <1>2, StepSInv, PTL DEF Spec

-----------------------------------------------------------------------------
(* Walk: induction over the numbers, stated of a set of them, and from it  *)
(* that the recursive functions the model is written with are what they    *)
(* are defined to be.                                                      *)

Below == {ss \in Nat \X Nat : ss[1] < ss[2]}

LEMMA BelowWellFounded == IsWellFoundedOn(Below, Nat)
<1>1. Below = OpToRel(<, Nat)
  BY Zenon DEF Below, OpToRel
<1> QED
  BY <1>1, NatLessThanWellFounded, Zenon

\* The least of some numbers.
LEMMA LeastOf ==
    ASSUME NEW S \in SUBSET Nat, S # {}
    PROVE  \E m \in S : \A k \in S : m <= k
<1>1. PICK m \in S : \A k \in S : <<k, m>> \notin Below
  BY BelowWellFounded, WFMin
<1>2. \A k \in S : ~(k < m)
  BY <1>1 DEF Below
<1> QED
  BY <1>2

LEMMA AllNat ==
    ASSUME NEW Q, 0 \in Q, \A n \in Nat : n \in Q => n + 1 \in Q
    PROVE  \A n \in Nat : n \in Q
<1> SUFFICES ASSUME NEW n \in Nat, n \notin Q PROVE FALSE
  OBVIOUS
<1>1. PICK m \in {k \in Nat : k \notin Q} : \A k \in {j \in Nat : j \notin Q} : m <= k
  BY LeastOf, {k \in Nat : k \notin Q} \in SUBSET Nat, n \in {k \in Nat : k \notin Q}
<1>2. m # 0 /\ m \in Nat /\ m \notin Q
  BY <1>1
<1>3. m - 1 \in Nat /\ m - 1 + 1 = m
  BY <1>2
<1>4. m - 1 \in Q
  BY <1>1, <1>2, <1>3
<1> QED
  BY <1>2, <1>3, <1>4
\* What a step taken from somewhere again and again comes to.
StepsBy(f, n, x, step) == f[0] = x /\ \A i \in 0 .. n - 1 : f[i + 1] = step[f[i]]

LEMMA StepsFar ==
    ASSUME NEW S, NEW x \in S, NEW step \in [S -> S], NEW n \in Nat
    PROVE  \E f \in [0 .. n -> S] : StepsBy(f, n, x, step)
<1> DEFINE Far == {k \in Nat : \E f \in [0 .. k -> S] : StepsBy(f, k, x, step)}
<1>1. 0 \in Far
  <2>1. [i \in 0 .. 0 |-> x] \in [0 .. 0 -> S] /\ StepsBy([i \in 0 .. 0 |-> x], 0, x, step)
    BY DEF StepsBy
  <2> QED
    BY <2>1
<1>2. ASSUME NEW k \in Nat, k \in Far PROVE k + 1 \in Far
  <2>1. PICK f \in [0 .. k -> S] : StepsBy(f, k, x, step)
    BY <1>2
  <2> DEFINE g == [i \in 0 .. k + 1 |-> IF i = k + 1 THEN step[f[k]] ELSE f[i]]
  <2>2. f[k] \in S
    OBVIOUS
  <2>3. g \in [0 .. k + 1 -> S]
    BY <2>2
  <2>4. ASSUME NEW i \in 0 .. k + 1 - 1 PROVE g[i + 1] = step[g[i]]
    <3>1. CASE i = k
      BY <3>1
    <3>2. CASE i # k
      <4>1. i \in 0 .. k - 1 /\ i + 1 \in 0 .. k
        BY <3>2
      <4> QED
        BY <2>1, <4>1 DEF StepsBy
    <3> QED
      BY <3>1, <3>2
  <2>5. g[0] = x
    BY <2>1 DEF StepsBy
  <2> HIDE DEF g
  <2>6. StepsBy(g, k + 1, x, step)
    BY <2>4, <2>5 DEF StepsBy
  <2> QED
    BY <2>3, <2>6
<1> HIDE DEF Far
<1>3. n \in Far
  BY <1>1, <1>2, AllNat
<1> QED
  BY <1>3 DEF Far

LEMMA StepsAgree ==
    ASSUME NEW S, NEW x \in S, NEW step \in [S -> S], NEW n \in Nat, NEW m \in Nat,
           NEW f, NEW g, StepsBy(f, n, x, step), StepsBy(g, m, x, step)
    PROVE  \A i \in Nat : i <= n /\ i <= m => f[i] = g[i]
<1> DEFINE Same == {i \in Nat : i <= n /\ i <= m => f[i] = g[i]}
<1>1. 0 \in Same
  BY DEF StepsBy
<1>2. ASSUME NEW k \in Nat, k \in Same PROVE k + 1 \in Same
  <2> SUFFICES ASSUME k + 1 <= n, k + 1 <= m PROVE f[k + 1] = g[k + 1]
    OBVIOUS
  <2>1. k \in 0 .. n - 1 /\ k \in 0 .. m - 1 /\ f[k] = g[k]
    BY <1>2
  <2> QED
    BY <2>1 DEF StepsBy
<1> HIDE DEF Same
<1>3. \A i \in Nat : i \in Same
  BY <1>1, <1>2, AllNat
<1> QED
  BY <1>3 DEF Same

\* Taken as often as one likes.
Iterated(f, x, step) == f[0] = x /\ \A n \in Nat : f[n + 1] = step[f[n]]

LEMMA Iterates ==
    ASSUME NEW S, NEW x \in S, NEW step \in [S -> S]
    PROVE  \E f \in [Nat -> S] : Iterated(f, x, step)
<1> DEFINE far(n) == CHOOSE f \in [0 .. n -> S] : StepsBy(f, n, x, step)
           f == [n \in Nat |-> far(n)[n]]
<1>1. ASSUME NEW n \in Nat PROVE far(n) \in [0 .. n -> S] /\ StepsBy(far(n), n, x, step)
  BY StepsFar
<1> HIDE DEF far
<1>2. f \in [Nat -> S]
  <2>1. ASSUME NEW n \in Nat PROVE far(n)[n] \in S
    BY <1>1
  <2> QED
    BY <2>1
<1>3. f[0] = x
  BY <1>1 DEF StepsBy
<1>4. ASSUME NEW n \in Nat PROVE f[n + 1] = step[f[n]]
  <2>1. StepsBy(far(n), n, x, step) /\ StepsBy(far(n + 1), n + 1, x, step)
    BY <1>1
  <2>2. far(n)[n] = far(n + 1)[n]
    BY <2>1, StepsAgree
  <2>3. far(n + 1)[n + 1] = step[far(n + 1)[n]]
    BY <2>1 DEF StepsBy
  <2> QED
    BY <2>2, <2>3
<1> HIDE DEF f
<1>5. Iterated(f, x, step)
  BY <1>3, <1>4 DEF Iterated
<1> QED
  BY <1>2, <1>5

-----------------------------------------------------------------------------
(* The chain.                                                              *)

Account == [name : Accounts, fallback : Ends]

NamesOf(walked) == {walked[i].name : i \in DOMAIN walked}
Longer(walked) ==
    LET to == walked[Len(walked)].fallback
    IN IF to \in Accounts \ NamesOf(walked) THEN Append(walked, Find(to)) ELSE walked

LEMMA Appended ==
    ASSUME NEW T, NEW s \in Seq(T), NEW e \in T
    PROVE  /\ Append(s, e) \in Seq(T) /\ Len(Append(s, e)) = Len(s) + 1
           /\ Append(s, e)[Len(s) + 1] = e
           /\ \A i \in 1 .. Len(s) : Append(s, e)[i] = s[i]
  OBVIOUS

\* A chain as far as it has been read off the fallbacks: each account after the first as it
\* is written down.
ReadOff(walked, provider) ==
    /\ walked \in Seq(Account) /\ Len(walked) >= 1 /\ walked[1] = provider
    /\ \A i \in 2 .. Len(walked) : walked[i] = Find(walked[i].name)

LEMMA LongerOn ==
    ASSUME falls \in [Accounts -> Ends], NEW provider, NEW walked, ReadOff(walked, provider)
    PROVE  /\ ReadOff(Longer(walked), provider) /\ Len(Longer(walked)) >= Len(walked)
           /\ \A i \in 1 .. Len(walked) : Longer(walked)[i] = walked[i]
<1> DEFINE to == walked[Len(walked)].fallback
<1>1. walked \in Seq(Account) /\ Len(walked) \in Nat /\ Len(walked) >= 1
  BY DEF ReadOff
<1>2. CASE Longer(walked) = walked
  BY <1>1, <1>2
<1>3. CASE Longer(walked) # walked
  <2>1. to \in Accounts /\ Longer(walked) = Append(walked, Find(to))
    BY <1>3 DEF Longer
  <2> HIDE DEF to
  <2>2. Find(to) \in Account /\ Find(to) = Find(Find(to).name)
    BY <2>1 DEF Find, Account
  <2>3. /\ Longer(walked) \in Seq(Account) /\ Len(Longer(walked)) = Len(walked) + 1
        /\ Longer(walked)[Len(walked) + 1] = Find(to)
        /\ \A i \in 1 .. Len(walked) : Longer(walked)[i] = walked[i]
    BY <1>1, <2>1, <2>2, Appended
  <2>4. Longer(walked)[1] = provider
    BY <1>1, <2>3 DEF ReadOff
  <2>5. ASSUME NEW i \in 2 .. Len(walked) + 1
        PROVE  Longer(walked)[i] = Find(Longer(walked)[i].name)
    <3>1. CASE i = Len(walked) + 1
      BY <2>2, <2>3, <3>1
    <3>2. CASE i # Len(walked) + 1
      <4>1. i \in 2 .. Len(walked) /\ i \in 1 .. Len(walked)
        BY <1>1, <3>2
      <4>2. Longer(walked)[i] = walked[i] /\ walked[i] = Find(walked[i].name)
        BY <2>3, <4>1 DEF ReadOff
      <4> QED
        BY <4>2
    <3> QED
      BY <3>1, <3>2
  <2>6. ReadOff(Longer(walked), provider)
    BY <1>1, <2>3, <2>4, <2>5 DEF ReadOff
  <2> QED
    BY <1>1, <2>3, <2>6
<1> QED
  BY <1>2, <1>3

\* The second account of a chain is what the first one falls to.
LEMMA LongerOne ==
    ASSUME falls \in [Accounts -> Ends], NEW provider \in Account
    PROVE  /\ ReadOff(<<provider>>, provider)
           /\ provider.fallback \in Accounts \ {provider.name} =>
                /\ Len(Longer(<<provider>>)) = 2
                /\ Longer(<<provider>>)[2] = Find(provider.fallback)
<1> DEFINE one == <<provider>>
           to == provider.fallback
<1>1. one \in Seq(Account) /\ Len(one) = 1 /\ one[1] = provider /\ NamesOf(one) = {provider.name}
  BY DEF NamesOf
<1> HIDE DEF one
<1>2. ReadOff(one, provider)
  BY <1>1 DEF ReadOff
<1>3. ASSUME to \in Accounts \ {provider.name}
      PROVE  Len(Longer(one)) = 2 /\ Longer(one)[2] = Find(to)
  <2>1. Longer(one) = Append(one, Find(to)) /\ Find(to) \in Account
    BY <1>1, <1>3 DEF Longer, Find, Account
  <2> HIDE DEF to
  <2>2. Len(Longer(one)) = Len(one) + 1 /\ Longer(one)[Len(one) + 1] = Find(to)
    <3>1. one \in Seq(Account) /\ Find(to) \in Account
      BY <1>1, <2>1
    <3>2. Len(Append(one, Find(to))) = Len(one) + 1 /\ Append(one, Find(to))[Len(one) + 1] = Find(to)
      BY <3>1, Appended
    <3> QED
      BY <2>1, <3>2
  <2> QED
    BY <1>1, <2>2
<1> QED
  BY <1>2, <1>3 DEF one

\* What a chain begins with, however long it is.
LEMMA ChainBegins ==
    ASSUME falls \in [Accounts -> Ends], NEW provider \in Account
    PROVE  /\ ReadOff(Chain(provider), provider)
           /\ provider.fallback \in Accounts \ {provider.name} =>
                Len(Chain(provider)) >= 2 /\ Chain(provider)[2] = Find(provider.fallback)
<1> DEFINE step == [w \in Seq(Account) |-> Longer(w)]
           spec(f) == f = [n \in Nat |-> IF n = 0 THEN <<provider>> ELSE Longer(f[n - 1])]
           walk_ == CHOOSE f : spec(f)
<1>1. step \in [Seq(Account) -> Seq(Account)]
  <2>1. ASSUME NEW w \in Seq(Account) PROVE Longer(w) \in Seq(Account)
    <3>1. \A to \in Accounts : Find(to) \in Account
      BY DEF Find, Account
    <3> QED
      BY <3>1 DEF Longer
  <2> QED
    BY <2>1
<1>2. <<provider>> \in Seq(Account)
  OBVIOUS
<1>3. \A w \in Seq(Account) : step[w] = Longer(w)
  OBVIOUS
<1> HIDE DEF step, spec
<1>4. \E f \in [Nat -> Seq(Account)] : Iterated(f, <<provider>>, step)
  BY <1>1, <1>2, Iterates
<1>5. PICK f \in [Nat -> Seq(Account)] :
        f[0] = <<provider>> /\ \A n \in Nat : f[n + 1] = step[f[n]]
  BY <1>4 DEF Iterated
<1>6. spec(f)
  <2>1. ASSUME NEW n \in Nat, n # 0 PROVE f[n] = Longer(f[n - 1])
    <3>1. n - 1 \in Nat /\ n - 1 + 1 = n
      BY <2>1
    <3> QED
      BY <1>3, <1>5, <3>1
  <2>2. \A n \in Nat : f[n] = IF n = 0 THEN <<provider>> ELSE Longer(f[n - 1])
    BY <1>5, <2>1
  <2> QED
    BY <1>5, <2>2 DEF spec
<1>7. spec(walk_)
  BY <1>6
<1>8. Chain(provider) = walk_[Cardinality(Accounts)]
  BY DEF Chain, Longer, NamesOf, spec
<1>9. walk_[0] = <<provider>> /\ \A n \in Nat : walk_[n + 1] = Longer(walk_[n])
  <2>1. walk_ = [n \in Nat |-> IF n = 0 THEN <<provider>> ELSE Longer(walk_[n - 1])]
    BY <1>7 DEF spec
  <2> HIDE DEF walk_
  <2>2. \A n \in Nat : walk_[n] = IF n = 0 THEN <<provider>> ELSE Longer(walk_[n - 1])
    BY <2>1
  <2>3. walk_[0] = <<provider>>
    BY <2>2
  <2>4. ASSUME NEW n \in Nat PROVE walk_[n + 1] = Longer(walk_[n])
    <3>1. n + 1 \in Nat /\ n + 1 # 0 /\ n + 1 - 1 = n
      OBVIOUS
    <3> QED
      BY <2>2, <3>1
  <2> QED
    BY <2>3, <2>4
<1> HIDE DEF walk_
<1> DEFINE to == provider.fallback
           begins(w) == /\ ReadOff(w, provider)
                        /\ to \in Accounts \ {provider.name} => Len(w) >= 2 /\ w[2] = Find(to)
           Good == {n \in Nat : begins(walk_[n + 1])}
<1>10. begins(Longer(<<provider>>))
  BY LongerOne, LongerOn
<1>11. ASSUME NEW w, begins(w) PROVE begins(Longer(w))
  <2>1. /\ ReadOff(Longer(w), provider) /\ Len(Longer(w)) >= Len(w)
        /\ \A i \in 1 .. Len(w) : Longer(w)[i] = w[i]
    BY <1>11, LongerOn
  <2>2. Len(w) \in Nat /\ Len(Longer(w)) \in Nat
    BY <1>11, <2>1 DEF ReadOff
  <2> QED
    BY <1>11, <2>1, <2>2
<1> HIDE DEF begins
<1>12. \A n \in Nat : n \in Good
  <2>1. 0 \in Good
    BY <1>9, <1>10
  <2>2. ASSUME NEW n \in Nat, n \in Good PROVE n + 1 \in Good
    BY <1>9, <1>11, <2>2
  <2> HIDE DEF Good
  <2> QED
    BY <2>1, <2>2, AllNat
<1>13. Cardinality(Accounts) \in Nat \ {0}
  BY AccountsAssumption, FS_CardinalityType, FS_EmptySet
<1>14. begins(Chain(provider))
  <2>1. Cardinality(Accounts) - 1 \in Nat /\ Cardinality(Accounts) - 1 + 1 = Cardinality(Accounts)
    BY <1>13
  <2>2. begins(walk_[Cardinality(Accounts) - 1 + 1])
    BY <1>12, <2>1
  <2> QED
    BY <1>8, <2>1, <2>2
<1> QED
  BY <1>14 DEF begins

-----------------------------------------------------------------------------
(* A turn walks alone.                                                     *)

Stages == {"idle", "asking", "trying", "waiting", "running", "failed", "moving", "spent", "leaving"}
Trying == {"trying", "waiting", "running", "failed"}

WalkTypeOK ==
    /\ falls \in [Accounts -> Ends] /\ faults \in [Sessions -> SUBSET Kinds]
    /\ under \in [Places -> Account] /\ beyond \in [Places -> {"unasked", "none", "made"}]
    /\ stage \in [Sessions -> Stages] /\ place \in [Sessions -> Places]
    /\ account \in [Sessions -> Account] /\ instead \in [Sessions -> Account]
    /\ tried \in [Sessions -> SUBSET Accounts] /\ answer \in [Sessions -> Kinds]
    /\ anew \in {"never", "may", "did"} /\ alone \in [Sessions -> BOOLEAN]
    /\ \A p \in Places : beyond[p] = "made" => p < Beyond
    /\ \A s \in Sessions : stage[s] = "leaving" => place[s] < Beyond

\* What each of these falls to is one of those.
Leads(names, to) == \A name \in names : falls[name] \in Accounts => falls[name] \in to

\* What is held of an account is what is written down of it, until that is written anew.
AsWritten ==
    anew # "did" =>
        /\ \A p \in Places : under[p] = Find(under[p].name)
        /\ \A s \in Sessions : stage[s] = "moving" => instead[s] = Find(instead[s].name)

\* A turn nobody came across has been wherever what it was under falls to, but for where it is.
Walks(s) ==
    /\ stage[s] = "asking" =>
         /\ under[place[s]].name \notin tried[s]
         /\ Leads(tried[s], tried[s] \cup {under[place[s]].name})
    /\ stage[s] \in Trying \cup {"moving"} =>
         account[s] = under[place[s]] /\ account[s].name \in tried[s]
    /\ stage[s] \in Trying => Leads(tried[s] \ {account[s].name}, tried[s])
    /\ stage[s] = "moving" =>
         instead[s].name \notin tried[s] /\ Leads(tried[s], tried[s] \cup {instead[s].name})
    /\ GivenUp(s) => under[place[s]].name \in tried[s] /\ Leads(tried[s], tried[s])

WalkInv ==
    /\ WalkTypeOK /\ AsWritten
    /\ \A s \in Sessions : stage[s] = "idle" => tried[s] = {}
    /\ \A s \in Sessions : alone[s] => anew # "did" /\ Walks(s)

LEMMA InitWalkInv == WalkInit => WalkInv
<1> SUFFICES ASSUME WalkInit PROVE WalkInv
  OBVIOUS
<1>1. PICK world \in Worlds :
        falls = world.falls /\ faults = world.faults /\ anew = world.anew
  BY DEF WalkInit
<1>2. /\ falls \in [Accounts -> Ends] /\ faults \in [Sessions -> SUBSET Kinds]
      /\ anew \in {"never", "may"}
  BY <1>1, WorldsAssumption DEF World
<1>3. /\ 0 \in Places /\ Nobody \in Account
      /\ Find(First) \in Account /\ Find(First) = Find(Find(First).name)
  <2>1. 0 \in Places
    BY BeyondAssumption DEF Places
  <2>2. Nobody \in Account
    BY AccountsAssumption DEF Nobody, Account, Ends
  <2>3. Find(First) \in Account /\ Find(First).name = First
    BY <1>2, AccountsAssumption DEF Find, Account
  <2> QED
    BY <2>1, <2>2, <2>3
<1>4. WalkTypeOK
  BY <1>2, <1>3 DEF WalkInit, WalkTypeOK, Stages, Kinds
<1>5. AsWritten
  BY <1>3 DEF WalkInit, AsWritten
<1>6. \A s \in Sessions : stage[s] = "idle" /\ tried[s] = {} /\ Walks(s)
  BY DEF WalkInit, Walks, Trying, GivenUp
<1> QED
  BY <1>2, <1>4, <1>5, <1>6 DEF WalkInv

\* What the next account is, where there is one: whatever this one falls to, unless the turn
\* has been under that.
LEMMA UntriedOn ==
    ASSUME WalkTypeOK, NEW s \in Sessions, NEW walked, walked = Chain(account[s]),
           NEW rest, rest = Untried(s, walked), NEW one, one = walked[Min(rest)]
    PROVE  /\ rest # {} =>
                one \in Account /\ one = Find(one.name) /\ one.name \notin tried[s]
           /\ account[s].name \in tried[s] /\ account[s].fallback \in Accounts \ tried[s] =>
                rest # {} /\ one = Find(account[s].fallback)
<1> DEFINE k == Min(rest)
<1>1. account[s] \in Account /\ falls \in [Accounts -> Ends]
  BY DEF WalkTypeOK
<1>2. /\ ReadOff(walked, account[s])
      /\ account[s].fallback \in Accounts \ {account[s].name} =>
           Len(walked) >= 2 /\ walked[2] = Find(account[s].fallback)
  BY <1>1, ChainBegins
<1>3. rest = {i \in 2 .. Len(walked) : walked[i].name \notin tried[s]}
  BY DEF Untried
<1>4. walked \in Seq(Account) /\ Len(walked) \in Nat /\ \A i \in 2 .. Len(walked) : walked[i] = Find(walked[i].name)
  BY <1>2 DEF ReadOff
<1>5. ASSUME rest # {} PROVE k \in rest /\ \A i \in rest : k <= i
  <2>1. rest \in SUBSET Nat
    BY <1>3, <1>4
  <2>2. \E m \in rest : \A i \in rest : m <= i
    BY <1>5, <2>1, LeastOf
  <2> QED
    BY <2>2 DEF Min
<1>6. ASSUME rest # {}
      PROVE  one \in Account /\ one = Find(one.name) /\ one.name \notin tried[s]
  <2>1. k \in 2 .. Len(walked) /\ walked[k].name \notin tried[s] /\ one = walked[k]
    BY <1>3, <1>5, <1>6
  <2>2. k \in 1 .. Len(walked)
    BY <1>4, <2>1
  <2> QED
    BY <1>4, <2>1, <2>2
<1>7. ASSUME account[s].name \in tried[s], account[s].fallback \in Accounts \ tried[s]
      PROVE  rest # {} /\ one = Find(account[s].fallback)
  <2>1. Len(walked) >= 2 /\ walked[2] = Find(account[s].fallback)
    BY <1>2, <1>7
  <2>2. 2 \in rest
    BY <1>3, <1>4, <1>7, <2>1 DEF Find
  <2>3. k = 2
    <3>1. k \in rest /\ k <= 2
      BY <1>5, <2>2
    <3>2. k \in 2 .. Len(walked)
      BY <1>3, <3>1
    <3> QED
      BY <1>4, <3>1, <3>2
  <2> QED
    BY <2>1, <2>2, <2>3
<1> QED
  BY <1>6, <1>7

\* The turn is over: nothing is held of it.
LEMMA OverOn ==
    ASSUME WalkTypeOK, NEW s \in Sessions, Over(s)
    PROVE  /\ stage'[s] = "idle" /\ tried'[s] = {}
           /\ stage' \in [Sessions -> Stages] /\ place' \in [Sessions -> Places]
           /\ account' \in [Sessions -> Account] /\ instead' \in [Sessions -> Account]
           /\ tried' \in [Sessions -> SUBSET Accounts] /\ answer' \in [Sessions -> Kinds]
           /\ \A o \in Sessions \ {s} :
                /\ stage'[o] = stage[o] /\ place'[o] = place[o] /\ account'[o] = account[o]
                /\ instead'[o] = instead[o] /\ tried'[o] = tried[o] /\ answer'[o] = answer[o]
<1>1. 0 \in Places
  BY BeyondAssumption DEF Places
<1>2. Nobody \in Account
  BY AccountsAssumption DEF Nobody, Account, Ends
<1> QED
  BY <1>1, <1>2 DEF Over, WalkTypeOK, Stages, Kinds

LEMMA StepWalkTypeOK == ASSUME WalkTypeOK, [WalkNext]_walking PROVE WalkTypeOK'
<1> USE DEF WalkTypeOK
<1>1. ASSUME NEW s \in Sessions, TakesTurn(s) PROVE WalkTypeOK'
  BY <1>1 DEF TakesTurn, shared, walk, Stages
<1>2. ASSUME NEW s \in Sessions, Asks(s) PROVE WalkTypeOK'
  <2>1. under[place[s]] \in Account /\ under[place[s]].name \in Accounts
    BY DEF Account
  <2> QED
    BY <1>2, <2>1 DEF Asks, shared, Stages
<1>3. ASSUME NEW s \in Sessions, Over(s), UNCHANGED shared, UNCHANGED alone PROVE WalkTypeOK'
  BY <1>3, OverOn DEF shared
<1>4. ASSUME NEW s \in Sessions, Tries(s), ~Over(s) PROVE WalkTypeOK'
  <2>1. /\ UNCHANGED <<shared, alone, place, account, tried, answer, instead>>
        /\ stage' = [stage EXCEPT ![s] = "failed"] \/ stage' = [stage EXCEPT ![s] = "waiting"]
             \/ stage' = [stage EXCEPT ![s] = "running"]
    BY <1>4 DEF Tries
  <2> QED
    BY <2>1 DEF shared, Stages
<1>5. ASSUME NEW s \in Sessions, Slept(s) PROVE WalkTypeOK'
  BY <1>5 DEF Slept, shared, Stages
<1>6. ASSUME NEW s \in Sessions, Fails(s) PROVE WalkTypeOK'
  <2>1. PICK kind \in faults[s] : answer' = [answer EXCEPT ![s] = kind]
    BY <1>6 DEF Fails
  <2>2. /\ UNCHANGED <<shared, alone, place, account, tried, instead>>
        /\ stage' = [stage EXCEPT ![s] = "failed"] \/ stage' = [stage EXCEPT ![s] = "trying"]
    BY <1>6 DEF Fails
  <2>3. kind \in Kinds
    BY <2>1
  <2> QED
    BY <2>1, <2>2, <2>3 DEF shared, Stages
<1>7. ASSUME NEW s \in Sessions, LooksFurther(s), ~Over(s) PROVE WalkTypeOK'
  <2> DEFINE walked == Chain(account[s])
             rest == Untried(s, walked)
             one == walked[Min(rest)]
  <2>1. /\ UNCHANGED <<shared, alone, place, account, tried, answer>>
        /\ \/ /\ rest # {} /\ stage' = [stage EXCEPT ![s] = "moving"]
              /\ instead' = [instead EXCEPT ![s] = one]
           \/ /\ stage' = [stage EXCEPT ![s] = "spent"] \/ stage' = [stage EXCEPT ![s] = "asking"]
              /\ instead' = instead
    BY <1>7 DEF LooksFurther
  <2>2. rest # {} => one \in Account
    BY UntriedOn
  <2> HIDE DEF rest, one
  <2> QED
    BY <2>1, <2>2 DEF shared, Stages
<1>8. ASSUME NEW s \in Sessions, Moves(s) PROVE WalkTypeOK'
  <2>1. Nobody \in Account
    BY AccountsAssumption DEF Nobody, Account, Ends
  <2> QED
    BY <1>8, <2>1 DEF Moves, Stages
<1>9. ASSUME NEW s \in Sessions, StandsIn(s) PROVE WalkTypeOK'
  <2>1. PICK stands \in {"unasked", "none", "made"} :
           /\ beyond' = [beyond EXCEPT ![place[s]] = stands]
           /\ \/ stands = "made" /\ stage' = [stage EXCEPT ![s] = "leaving"] /\ UNCHANGED walk
              \/ Over(s)
           /\ stands = "made" => place[s] < Beyond
    BY <1>9 DEF StandsIn
  <2>2. UNCHANGED <<falls, faults, under, anew, alone>>
    BY <1>9 DEF StandsIn
  <2>3. beyond' \in [Places -> {"unasked", "none", "made"}]
        /\ \A p \in Places : beyond'[p] = "made" => p < Beyond
    BY <2>1
  <2>4. CASE Over(s)
    BY <2>2, <2>3, <2>4, OverOn
  <2>5. CASE stands = "made" /\ stage' = [stage EXCEPT ![s] = "leaving"] /\ UNCHANGED walk
    BY <2>1, <2>2, <2>3, <2>5 DEF walk, Stages
  <2> QED
    BY <2>1, <2>4, <2>5
<1>10. ASSUME NEW s \in Sessions, StepsAside(s) PROVE WalkTypeOK'
  <2>1. place[s] + 1 \in Places
    <3>1. stage[s] = "leaving" /\ place[s] \in Places
      BY <1>10 DEF StepsAside
    <3>2. place[s] < Beyond
      BY <3>1
    <3> HIDE DEF WalkTypeOK
    <3> QED
      BY <3>1, <3>2, BeyondAssumption DEF Places
  <2> QED
    BY <1>10, <2>1 DEF StepsAside, shared, Stages, Kinds
<1>11. CASE Stop
  BY <1>11 DEF Stop, walk
<1>12. ASSUME NEW name \in Accounts, NEW to \in Ends, Points(name, to) PROVE WalkTypeOK'
  BY <1>12 DEF Points, walk
<1>13. CASE UNCHANGED walking
  BY <1>13 DEF walking, shared, walk
<1>14. ASSUME NEW s \in Sessions, Comes(s) PROVE WalkTypeOK'
  BY <1>3, <1>14 DEF Comes
<1>15. ASSUME NEW s \in Sessions, Tries(s) PROVE WalkTypeOK'
  BY <1>3, <1>4, <1>15 DEF Tries
<1>16. ASSUME NEW s \in Sessions, LooksFurther(s) PROVE WalkTypeOK'
  BY <1>3, <1>7, <1>16 DEF LooksFurther
<1> QED
  BY <1>1, <1>2, <1>5, <1>6, <1>8, <1>9, <1>10, <1>11, <1>12, <1>13, <1>14, <1>15, <1>16
     DEF WalkNext, Session

\* A step of one conversation leaves the turns of all others as they were.
Beside(s) ==
    \A o \in Sessions \ {s} :
        /\ stage'[o] = stage[o] /\ place'[o] = place[o] /\ account'[o] = account[o]
        /\ instead'[o] = instead[o] /\ tried'[o] = tried[o] /\ answer'[o] = answer[o]

LEMMA WalksKept ==
    ASSUME NEW o \in Sessions, Walks(o), falls' = falls,
           stage'[o] = stage[o], place'[o] = place[o], account'[o] = account[o],
           instead'[o] = instead[o], tried'[o] = tried[o], answer'[o] = answer[o],
           under'[place[o]] = under[place[o]]
    PROVE  Walks(o)'
  BY DEF Walks, GivenUp, Leads

\* What a step of one conversation has to bring about for it to hold of all of them.
LEMMA HoldsBeside ==
    ASSUME WalkInv, NEW s \in Sessions, Beside(s), WalkTypeOK', falls' = falls, anew' = anew,
           stage'[s] = "idle" => tried'[s] = {},
           alone'[s] => alone[s] \/ anew # "did", alone'[s] => Walks(s)',
           \A o \in Sessions \ {s} :
             alone'[o] => alone[o] /\ (stage[o] # "idle" => under'[place[o]] = under[place[o]]),
           \A p \in Places : under'[p] = under[p] \/ (stage[s] = "moving" /\ under'[p] = instead[s]),
           stage'[s] = "moving" => instead'[s] = Find(instead'[s].name)
    PROVE  WalkInv'
<1>2. AsWritten'
  <2> SUFFICES ASSUME anew' # "did"
               PROVE  /\ \A p \in Places : under'[p] = Find(under'[p].name)
                      /\ \A o \in Sessions : stage'[o] = "moving" =>
                           instead'[o] = Find(instead'[o].name)
    BY DEF AsWritten, Find
  <2>1. /\ \A p \in Places : under[p] = Find(under[p].name)
        /\ \A o \in Sessions : stage[o] = "moving" => instead[o] = Find(instead[o].name)
    BY DEF WalkInv, AsWritten
  <2>2. ASSUME NEW p \in Places PROVE under'[p] = Find(under'[p].name)
    BY <2>1
  <2>3. ASSUME NEW o \in Sessions, stage'[o] = "moving" PROVE instead'[o] = Find(instead'[o].name)
    BY <2>1, <2>3 DEF Beside
  <2> QED
    BY <2>2, <2>3
<1>3. ASSUME NEW o \in Sessions PROVE stage'[o] = "idle" => tried'[o] = {}
  BY DEF WalkInv, Beside
<1>4. ASSUME NEW o \in Sessions, alone'[o] PROVE anew' # "did" /\ Walks(o)'
  <2>1. CASE o = s
    BY <1>4, <2>1 DEF WalkInv
  <2>2. CASE o # s /\ stage[o] = "idle"
    <3>1. stage'[o] = "idle" /\ alone[o]
      BY <1>4, <2>2 DEF Beside
    <3>2. Walks(o)'
      BY <3>1 DEF Walks, Trying, GivenUp
    <3> QED
      BY <3>1, <3>2 DEF WalkInv
  <2>3. CASE o # s /\ stage[o] # "idle"
    <3>1. alone[o] /\ under'[place[o]] = under[place[o]] /\ Walks(o)
      BY <1>4, <2>3 DEF WalkInv
    <3>2. Walks(o)'
      BY <2>3, <3>1, WalksKept DEF Beside
    <3> QED
      BY <3>1, <3>2 DEF WalkInv
  <2> QED
    BY <2>1, <2>2, <2>3
<1> QED
  BY <1>2, <1>3, <1>4 DEF WalkInv

LEMMA HoldsTaken == ASSUME WalkInv, WalkTypeOK', NEW s \in Sessions, TakesTurn(s) PROVE WalkInv'
<1>t. WalkTypeOK /\ tried[s] = {}
  BY DEF WalkInv, TakesTurn
<1>1. /\ UNCHANGED <<falls, under, anew>> /\ Beside(s) /\ stage'[s] = "asking" /\ tried'[s] = {}
      /\ alone'[s] => anew # "did"
      /\ \A o \in Sessions \ {s} : alone'[o] = alone[o]
  BY <1>t DEF TakesTurn, Beside, shared, walk, WalkTypeOK
<1>2. Walks(s)'
  BY <1>1 DEF Walks, Trying, Leads, GivenUp
<1> QED
  BY <1>1, <1>2, HoldsBeside

LEMMA HoldsAsks == ASSUME WalkInv, WalkTypeOK', NEW s \in Sessions, Asks(s) PROVE WalkInv'
<1>t. WalkTypeOK
  BY DEF WalkInv
<1>1. /\ UNCHANGED <<falls, under, anew, alone>> /\ Beside(s) /\ stage[s] = "asking"
      /\ place' = place /\ answer' = answer
      /\ \/ /\ under[place[s]].name \in tried[s] /\ stage'[s] = "spent" /\ tried' = tried
         \/ /\ under[place[s]].name \notin tried[s] /\ stage'[s] = "trying"
            /\ account'[s] = under[place[s]] /\ tried'[s] = tried[s] \cup {under[place[s]].name}
  BY <1>t DEF Asks, Beside, shared, WalkTypeOK
<1>2. ASSUME alone[s] PROVE Walks(s)'
  <2>1. /\ under[place[s]].name \notin tried[s]
        /\ Leads(tried[s], tried[s] \cup {under[place[s]].name})
    BY <1>1, <1>2 DEF WalkInv, Walks
  <2> QED
    BY <1>1, <2>1 DEF Walks, Leads, Trying, GivenUp
<1> QED
  BY <1>1, <1>2, HoldsBeside

LEMMA HoldsOver ==
    ASSUME WalkInv, WalkTypeOK', NEW s \in Sessions, Over(s),
           UNCHANGED <<falls, under, anew, alone>>
    PROVE  WalkInv'
<1>1. Beside(s) /\ stage'[s] = "idle" /\ tried'[s] = {}
  BY OverOn DEF WalkInv, Beside
<1>2. Walks(s)'
  BY <1>1 DEF Walks, Trying, GivenUp
<1> QED
  BY <1>1, <1>2, HoldsBeside

\* A go, what it came to, and the wait before the next one.
LEMMA HoldsGone ==
    ASSUME WalkInv, WalkTypeOK', NEW s \in Sessions, stage[s] \in Trying, stage'[s] \in Trying,
           Beside(s), UNCHANGED <<falls, under, anew, alone, place, account, tried, instead>>
    PROVE  WalkInv'
<1>1. ASSUME alone[s] PROVE Walks(s)'
  BY <1>1 DEF WalkInv, Walks, Leads, Trying, GivenUp
<1> QED
  BY <1>1, HoldsBeside DEF Trying

LEMMA HoldsLooks ==
    ASSUME WalkInv, WalkTypeOK', NEW s \in Sessions, LooksFurther(s), ~Over(s) PROVE WalkInv'
<1>t. WalkTypeOK
  BY DEF WalkInv
<1> DEFINE moved == under[place[s]].name # account[s].name
           walked == Chain(account[s])
           rest == Untried(s, walked)
           one == walked[Min(rest)]
<1>1. /\ UNCHANGED <<falls, under, anew, alone, place, account, tried, answer>>
      /\ stage[s] = "failed" /\ Beside(s)
      /\ \/ ~Walkable(answer[s]) /\ stage'[s] = "spent"
         \/ Walkable(answer[s]) /\ moved /\ stage'[s] = "asking"
         \/ Walkable(answer[s]) /\ ~moved /\ rest = {} /\ stage'[s] = "spent"
         \/ /\ Walkable(answer[s]) /\ ~moved /\ rest # {} /\ stage'[s] = "moving"
            /\ instead'[s] = one
  BY <1>t DEF LooksFurther, Beside, shared, WalkTypeOK
<1>2. /\ rest # {} => one = Find(one.name) /\ one.name \notin tried[s]
      /\ account[s].name \in tried[s] /\ account[s].fallback \in Accounts \ tried[s] =>
           rest # {} /\ one = Find(account[s].fallback)
  BY <1>t, UntriedOn
<1> HIDE DEF one, rest
<1>3. ASSUME alone[s] PROVE Walks(s)'
  <2>1. /\ account[s] = under[place[s]] /\ account[s].name \in tried[s]
        /\ Leads(tried[s] \ {account[s].name}, tried[s]) /\ ~moved
    BY <1>1, <1>3 DEF WalkInv, Walks, Trying
  <2>2. account[s].fallback = falls[account[s].name]
    BY <1>3, <1>t, <2>1 DEF WalkInv, AsWritten, Find, WalkTypeOK
  <2>3. CASE ~Walkable(answer[s])
    BY <1>1, <2>3 DEF Walks, Trying, GivenUp
  <2>4. CASE Walkable(answer[s]) /\ rest = {}
    <3>1. Leads(tried[s], tried[s])
      BY <1>2, <2>1, <2>2, <2>4 DEF Leads
    <3>2. stage'[s] = "spent"
      BY <1>1, <2>1, <2>4
    <3> QED
      BY <1>1, <2>1, <3>1, <3>2 DEF Walks, Trying, GivenUp, Leads
  <2>5. CASE Walkable(answer[s]) /\ rest # {}
    <3>1. stage'[s] = "moving" /\ instead'[s] = one
      BY <1>1, <2>1, <2>5
    <3>2. Leads(tried[s], tried[s] \cup {one.name})
      BY <1>2, <2>1, <2>2 DEF Leads, Find
    <3> QED
      BY <1>1, <1>2, <2>1, <2>5, <3>1, <3>2 DEF Walks, Trying, GivenUp, Leads
  <2> QED
    BY <2>3, <2>4, <2>5
<1> QED
  BY <1>1, <1>2, <1>3, HoldsBeside

LEMMA HoldsMoves == ASSUME WalkInv, WalkTypeOK', NEW s \in Sessions, Moves(s) PROVE WalkInv'
<1>t. WalkTypeOK
  BY DEF WalkInv
<1>1. /\ UNCHANGED <<falls, anew, place, account, tried, answer>>
      /\ stage[s] = "moving" /\ stage'[s] = "asking" /\ Beside(s)
      /\ under' = [under EXCEPT ![place[s]] = instead[s]]
      /\ \A o \in Sessions : alone'[o] <=> alone[o] /\ o \notin Others(s)
  BY <1>t DEF Moves, Beside, WalkTypeOK
<1>2. /\ under'[place[s]] = instead[s]
      /\ \A p \in Places : under'[p] = under[p] \/ under'[p] = instead[s]
  BY <1>1, <1>t DEF WalkTypeOK
<1>3. ASSUME NEW o \in Sessions \ {s}, alone'[o]
      PROVE  alone[o] /\ (stage[o] # "idle" => under'[place[o]] = under[place[o]])
  <2>1. alone[o] /\ o \notin Others(s)
    BY <1>1, <1>3
  <2>2. stage[o] # "idle" => place[o] # place[s]
    BY <2>1, <1>3 DEF Others
  <2> QED
    BY <1>1, <1>t, <2>1, <2>2 DEF WalkTypeOK
<1>4. alone'[s] => alone[s]
  BY <1>1
<1>5. ASSUME alone[s] PROVE Walks(s)'
  BY <1>1, <1>2, <1>5 DEF WalkInv, Walks, Trying, GivenUp, Leads
<1> QED
  BY <1>1, <1>2, <1>3, <1>4, <1>5, HoldsBeside

LEMMA HoldsStandsIn == ASSUME WalkInv, WalkTypeOK', NEW s \in Sessions, StandsIn(s) PROVE WalkInv'
<1>t. WalkTypeOK
  BY DEF WalkInv
<1>1. /\ UNCHANGED <<falls, under, anew, alone>> /\ stage[s] = "spent"
      /\ \/ stage' = [stage EXCEPT ![s] = "leaving"] /\ UNCHANGED walk
         \/ Over(s)
  BY DEF StandsIn
<1>2. CASE Over(s)
  BY <1>1, <1>2, HoldsOver
<1>3. CASE stage' = [stage EXCEPT ![s] = "leaving"] /\ UNCHANGED walk
  <2>1. stage'[s] = "leaving" /\ Beside(s)
    BY <1>3, <1>t DEF Beside, walk, WalkTypeOK
  <2>2. Walks(s)'
    BY <2>1 DEF Walks, Trying, GivenUp
  <2> QED
    BY <1>1, <2>1, <2>2, HoldsBeside
<1> QED
  BY <1>1, <1>2, <1>3

LEMMA HoldsStepsAside ==
    ASSUME WalkInv, WalkTypeOK', NEW s \in Sessions, StepsAside(s) PROVE WalkInv'
<1>t. WalkTypeOK
  BY DEF WalkInv
<1>1. /\ UNCHANGED <<falls, under, anew, alone>> /\ Beside(s)
      /\ stage[s] = "leaving" /\ stage'[s] = "asking" /\ tried'[s] = {}
  BY <1>t DEF StepsAside, Beside, shared, WalkTypeOK
<1>2. Walks(s)'
  BY <1>1 DEF Walks, Trying, Leads, GivenUp
<1> QED
  BY <1>1, <1>2, HoldsBeside

LEMMA StepWalkInv == ASSUME WalkInv, [WalkNext]_walking PROVE WalkInv'
<1>t. WalkTypeOK /\ WalkTypeOK'
  BY StepWalkTypeOK DEF WalkInv
<1>1. ASSUME NEW s \in Sessions, Over(s), UNCHANGED <<shared, alone>> PROVE WalkInv'
  BY <1>1, <1>t, HoldsOver DEF shared
<1>2. ASSUME NEW s \in Sessions, Tries(s), ~Over(s) PROVE WalkInv'
  <2>1. /\ UNCHANGED <<shared, alone, place, account, tried, answer, instead>>
        /\ stage[s] = "trying"
        /\ stage' = [stage EXCEPT ![s] = "failed"] \/ stage' = [stage EXCEPT ![s] = "waiting"]
             \/ stage' = [stage EXCEPT ![s] = "running"]
    BY <1>2 DEF Tries
  <2>2. Beside(s) /\ stage[s] \in Trying /\ stage'[s] \in Trying
    BY <1>t, <2>1 DEF Beside, Trying, WalkTypeOK
  <2> QED
    BY <1>t, <2>1, <2>2, HoldsGone DEF shared
<1>3. ASSUME NEW s \in Sessions, Slept(s) PROVE WalkInv'
  <2>1. /\ UNCHANGED <<shared, alone, place, account, tried, answer, instead>>
        /\ stage[s] = "waiting" /\ stage' = [stage EXCEPT ![s] = "running"]
    BY <1>3 DEF Slept
  <2>2. Beside(s) /\ stage[s] \in Trying /\ stage'[s] \in Trying
    BY <1>t, <2>1 DEF Beside, Trying, WalkTypeOK
  <2> QED
    BY <1>t, <2>1, <2>2, HoldsGone DEF shared
<1>4. ASSUME NEW s \in Sessions, Fails(s) PROVE WalkInv'
  <2>1. PICK kind \in faults[s] : answer' = [answer EXCEPT ![s] = kind]
    BY <1>4 DEF Fails
  <2>2. /\ UNCHANGED <<shared, alone, place, account, tried, instead>>
        /\ stage[s] = "running"
        /\ stage' = [stage EXCEPT ![s] = "failed"] \/ stage' = [stage EXCEPT ![s] = "trying"]
    BY <1>4 DEF Fails
  <2>3. Beside(s) /\ stage[s] \in Trying /\ stage'[s] \in Trying
    BY <1>t, <2>1, <2>2 DEF Beside, Trying, WalkTypeOK
  <2> QED
    BY <1>t, <2>2, <2>3, HoldsGone DEF shared
<1>5. ASSUME NEW name \in Accounts, NEW to \in Ends, Points(name, to) PROVE WalkInv'
  <2>1. /\ anew' = "did" /\ UNCHANGED <<stage, tried>> /\ \A s \in Sessions : ~alone'[s]
    BY <1>5 DEF Points, walk
  <2> QED
    BY <1>t, <2>1 DEF WalkInv, AsWritten
<1>6. CASE UNCHANGED <<falls, under, anew, stage, walk, alone>>
  <2>1. AsWritten' /\ \A s \in Sessions : Walks(s) => Walks(s)'
    BY <1>6 DEF WalkInv, AsWritten, Walks, Leads, GivenUp, Find, walk
  <2> QED
    BY <1>t, <1>6, <2>1 DEF WalkInv, walk
<1>7. ASSUME NEW s \in Sessions, Session(s) PROVE WalkInv'
  <2>1. CASE Asks(s)
    BY <1>t, <2>1, HoldsAsks
  <2>2. CASE Tries(s)
    BY <1>1, <1>2, <2>2 DEF Tries
  <2>3. CASE Comes(s)
    BY <1>1, <2>3 DEF Comes
  <2>4. CASE LooksFurther(s)
    <3>1. CASE Over(s)
      BY <1>1, <2>4, <3>1 DEF LooksFurther
    <3> QED
      BY <1>t, <2>4, <3>1, HoldsLooks
  <2> QED
    BY <1>3, <1>4, <1>7, <1>t, <2>1, <2>2, <2>3, <2>4, HoldsMoves, HoldsStandsIn, HoldsStepsAside
       DEF Session
<1>8. CASE Stop \/ UNCHANGED walking
  BY <1>6, <1>8 DEF Stop, walking, shared
<1> QED
  BY <1>5, <1>7, <1>8, <1>t, HoldsTaken DEF WalkNext

\* WalkedAlone: a conversation whose turn gives a place up to its account chain, and whose
\* agent nobody else moved meanwhile, has been under the account the agent is on and under
\* whatever each account it has been under falls to: _falling_back's two loops leave none out,
\* however many accounts there are and however their fallbacks name one another.
THEOREM AloneAllTheWay == WalkSpec => []WalkedAlone
<1>1. WalkInit => WalkInv
  BY InitWalkInv
<1>2. WalkInv /\ [WalkNext]_walking => WalkInv'
  BY StepWalkInv
<1>3. WalkInv => WalkedAlone
  <2> SUFFICES ASSUME WalkInv, NEW s \in Sessions, GivenUp(s), alone[s]
               PROVE  /\ under[place[s]].name \in tried[s]
                      /\ \A name \in tried[s] : falls[name] \in Accounts => falls[name] \in tried[s]
    BY DEF WalkedAlone
  <2> QED
    BY DEF WalkInv, Walks, Leads, GivenUp
<1> QED
  BY <1>1, <1>2, <1>3, PTL DEF WalkSpec

\* Every variable keeps to its type; above all, no turn is ever at a place further on than
\* the agent may fall back over, and no account is taken which there is none of.
THEOREM WalkTypeCorrect == WalkSpec => []WalkTypeOK
<1>1. WalkInit => WalkTypeOK
  BY InitWalkInv DEF WalkInv
<1> QED
  BY <1>1, StepWalkTypeOK, PTL DEF WalkSpec
=============================================================================
