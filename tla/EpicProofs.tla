------------------------------ MODULE EpicProofs ------------------------------
(***************************************************************************)
(* What Epic promises for any calls, flows, runs and versions: a run reads *)
(* back as the tree of calls it was, and the next one carries on from what *)
(* was saved.                                                              *)
(***************************************************************************)
EXTENDS Epic, TLAPS, SequenceTheorems, WellFoundedInduction

-----------------------------------------------------------------------------
(* The tree of calls.                                                      *)

\* A call that has been made is written in the record it is made under, and a record that is
\* closed has its closing line.
Told ==
    /\ world \in Worlds
    /\ at \in [Records -> Stages] /\ lines \in [Records -> SUBSET Lines]
    /\ \A c \in Calls :
         /\ at[c] # "killed"
         /\ at[c] # "off" => <<"called", c>> \in lines[Under(c)]
         /\ at[c] \in {"ended", "over"} => <<"ended">> \in lines[c]
         /\ lines[c] # {} => at[c] # "off"
         /\ <<"returned", c>> \in lines[Under(c)] => at[c] = "over"

LEMMA LinesDiffer ==
    ASSUME NEW c, NEW d
    PROVE  /\ <<"returned", c>> # <<"began">> /\ <<"returned", c>> # <<"ended">>
           /\ <<"returned", c>> # <<"called", d>>
           /\ <<"returned", c>> = <<"returned", d>> => c = d
           /\ <<"called", c>> # <<"ended">>
  OBVIOUS

LEMMA UnderRecords == ASSUME world \in Worlds, NEW c \in Calls PROVE Under(c) \in Records
  BY WorldsAssumption DEF Under

LEMMA InitTold == Init => Told
<1> SUFFICES ASSUME Init PROVE Told
  OBVIOUS
<1>1. at \in [Records -> Stages] /\ lines \in [Records -> SUBSET Lines]
  BY DEF Init, Stages, Lines
<1>2. ASSUME NEW c \in Calls
      PROVE  at[c] = "off" /\ lines[c] = {} /\ <<"returned", c>> \notin lines[Under(c)]
  BY UnderRecords, RootAssumption, LinesDiffer DEF Init, Records
<1> QED
  BY <1>1, <1>2 DEF Told, Init

\* One record gets further on, and one, it or another, has a line added to it.
Goes(r, stage, q, line) ==
    at' = [at EXCEPT ![r] = stage] /\ lines' = [lines EXCEPT ![q] = @ \cup {line}]

\* A line that says the call is over is one of that call alone, and of one that is.
SaysOver(line, r, stage) == \A c \in Calls : line = <<"returned", c>> => c = r /\ stage = "over"

LEMMA GoesTold ==
    ASSUME Told, UNCHANGED world, NEW r \in Records, NEW q \in Records, NEW stage \in Stages,
           NEW line \in Lines, Goes(r, stage, q, line),
           q \in Calls => at[q] # "off" \/ q = r,
           r \in Calls => /\ stage \notin {"off", "killed"}
                          /\ \/ <<"called", r>> \in lines[Under(r)]
                             \/ q = Under(r) /\ line = <<"called", r>>
                          /\ \/ stage \notin {"ended", "over"} \/ <<"ended">> \in lines[r]
                             \/ q = r /\ line = <<"ended">>
                          /\ at[r] = "over" => stage = "over",
           SaysOver(line, r, stage)
    PROVE  Told'
<1>1. at' \in [Records -> Stages] /\ lines' \in [Records -> SUBSET Lines]
  BY DEF Told, Goes
<1>2. ASSUME NEW c \in Calls
      PROVE  /\ at'[c] # "killed"
             /\ at'[c] # "off" => <<"called", c>> \in lines'[Under(c)]
             /\ at'[c] \in {"ended", "over"} => <<"ended">> \in lines'[c]
             /\ lines'[c] # {} => at'[c] # "off"
             /\ <<"returned", c>> \in lines'[Under(c)] => at'[c] = "over"
  <2>1. Under(c) \in Records /\ c \in Records
    BY UnderRecords DEF Told, Records
  <2>2. /\ lines'[Under(c)] = IF Under(c) = q THEN lines[q] \cup {line} ELSE lines[Under(c)]
        /\ lines'[c] = IF c = q THEN lines[q] \cup {line} ELSE lines[c]
        /\ at'[c] = IF c = r THEN stage ELSE at[c]
    BY <2>1 DEF Told, Goes
  <2> QED
    BY <2>2, LinesDiffer DEF Told, SaysOver
<1> QED
  BY <1>1, <1>2 DEF Told, Under

LEMMA StepTold == Told /\ [Next]_vars => Told'
<1> SUFFICES ASSUME Told, [Next]_vars PROVE Told'
  OBVIOUS
<1>0. Stages = {"off", "called", "going", "closing", "ended", "over", "killed"}
  BY DEF Stages
<1>1. ASSUME NEW c \in Calls, CallsFlow(c) PROVE Told'
  <2>1. Under(c) \in Records /\ at[Under(c)] # "off" /\ at[c] = "off" /\ c \in Records
    BY <1>1, UnderRecords DEF Told, CallsFlow, Records
  <2>2. <<"called", c>> \in Lines
    BY DEF Lines
  <2>3. Goes(c, "called", Under(c), <<"called", c>>) /\ UNCHANGED world
    BY <1>1 DEF CallsFlow, Goes
  <2>4. SaysOver(<<"called", c>>, c, "called")
    BY LinesDiffer DEF SaysOver
  <2> QED
    BY <1>0, <2>1, <2>2, <2>3, <2>4, GoesTold
<1>2. ASSUME NEW c \in Calls, Opens(c) PROVE Told'
  <2>1. c \in Records /\ at[c] = "called" /\ <<"called", c>> \in lines[Under(c)]
    BY <1>2 DEF Told, Opens, Records
  <2>2. <<"began">> \in Lines
    BY DEF Lines
  <2>3. Goes(c, "going", c, <<"began">>) /\ UNCHANGED world
    BY <1>2 DEF Opens, Goes
  <2>4. SaysOver(<<"began">>, c, "going")
    BY LinesDiffer DEF SaysOver
  <2> QED
    BY <1>0, <2>1, <2>2, <2>3, <2>4, GoesTold
<1>3. ASSUME NEW r \in Records, Ends(r) PROVE Told'
  BY <1>3 DEF Ends, Told, Under, Records, Stages
<1>4. ASSUME NEW r \in Records, Closes(r) PROVE Told'
  <2>1. PICK stage \in {"over", "ended"} : stage = IF r = Root THEN "over" ELSE "ended"
    OBVIOUS
  <2>2. <<"ended">> \in Lines
    BY DEF Lines
  <2>3. Goes(r, stage, r, <<"ended">>) /\ UNCHANGED world
    BY <1>4, <2>1 DEF Closes, Goes
  <2>4. SaysOver(<<"ended">>, r, stage)
    BY LinesDiffer DEF SaysOver
  <2>5. at[r] = "closing" /\ (r \in Calls => <<"called", r>> \in lines[Under(r)])
    BY <1>4 DEF Closes, Told
  <2> QED
    BY <1>0, <2>1, <2>2, <2>3, <2>4, <2>5, GoesTold
<1>5. ASSUME NEW c \in Calls, Returns(c) PROVE Told'
  <2>1. /\ Under(c) \in Records /\ c \in Records /\ at[c] = "ended"
        /\ <<"called", c>> \in lines[Under(c)] /\ <<"ended">> \in lines[c]
    BY <1>5, UnderRecords DEF Told, Returns, Records
  <2>2. <<"returned", c>> \in Lines
    BY DEF Lines
  <2>3. Goes(c, "over", Under(c), <<"returned", c>>) /\ UNCHANGED world
    BY <1>5 DEF Returns, Goes
  <2>4. SaysOver(<<"returned", c>>, c, "over")
    BY LinesDiffer DEF SaysOver
  <2>5. Under(c) \in Calls => at[Under(c)] # "off"
    BY <2>1 DEF Told
  <2> QED
    BY <1>0, <2>1, <2>2, <2>3, <2>4, <2>5, GoesTold
<1>6. ASSUME Dies PROVE Told'
  BY <1>6, RootAssumption DEF Dies, Told, Under, Records, Stages
<1>7. ASSUME Begins PROVE Told'
  <2>1. at' \in [Records -> Stages] /\ lines' \in [Records -> SUBSET Lines] /\ world' \in Worlds
    BY <1>7 DEF Begins, Begun, Told, Stages, Lines
  <2>2. ASSUME NEW c \in Calls
        PROVE  at'[c] = "off" /\ lines'[c] = {} /\ <<"returned", c>> \notin lines'[Under(c)]
    BY <1>7, UnderRecords, RootAssumption, LinesDiffer DEF Begins, Begun, Told, Records, Under
  <2> QED
    BY <1>7, <2>1, <2>2 DEF Told, Begins, Under
<1>8. ASSUME UNCHANGED <<world, at, lines>> PROVE Told'
  BY <1>8 DEF Told, Under
<1>9. ASSUME NEW r \in Records,
             Writes(r) \/ Appends(r) \/ Saves(r) \/ Beside(r) \/ Fills(r) \/ Replaces(r)
      PROVE  Told'
  BY <1>8, <1>9 DEF Writes, Appends, Saves, Beside, Fills, Replaces
<1>10. CASE UNCHANGED vars
  BY <1>8, <1>10 DEF vars, now
<1> QED
  BY <1>1, <1>2, <1>3, <1>4, <1>5, <1>6, <1>7, <1>9, <1>10 DEF Next

\* ReadsBack, for any calls made of any flows, on one thread or on many and whichever of them
\* outlives the one that called it: whatever a run, going or killed, says of a call it made is
\* so, and every record is reached from the one above it.
THEOREM ReadsBackWhole == Spec => []ReadsBack
<1>1. Told => ReadsBack
  BY DEF Told, ReadsBack
<1> QED
  BY <1>1, InitTold, StepTold, PTL DEF Spec

-----------------------------------------------------------------------------
(* What is kept.                                                           *)

\* The records that have been handed what they hold.
Handed == {r \in Records : at[r] # "off"}

\* What is handed, and what is saved of it, is a version; and a run not begun has saved none.
Ahead ==
    /\ Root \in Handed
    /\ \A r \in Handed : mem[r] # Absent
    /\ \A r \in Records : states[r] \in Seq(Handed) /\ closing[r] \in Seq(Handed)
    /\ \A e \in run + 1 .. Runs : file[e] = None

\* A save that meets no other has put this flow's in the place of what there is still, and has
\* the file beside for itself; there is such a file as long as a save writes to it; and what was
\* last saved may be lost as long as saves that met are going on.
Alone(r) ==
    /\ Saving = {r}
    /\ saving[r].held = [Kept(run) EXCEPT ![Flow(r)] = saving[r].held[Flow(r)]]
    /\ saving[r].stage = "read" => saving[r].into = "none"
    /\ saving[r].stage = "opened" => saving[r].into = "beside" /\ beside = Empty
    /\ saving[r].stage = "written" => saving[r].into = "beside" /\ beside = Whole(saving[r].held)

Apart ==
    /\ \A r \in Saving : saving[r].held[Flow(r)] # Absent
    /\ \A r \in Saving : IF saving[r].alone THEN Alone(r) ELSE lost = Flows
    /\ \A r \in Records \ Saving : saving[r].into = "none"
    /\ beside # None => \E r \in Saving : saving[r].into = "beside"

\* The last run to leave something of a flow left what was last saved of it.
Last ==
    \A f \in Flows \ lost :
        \/ latest[f] = Absent /\ \A e \in 1 .. run : Kept(e)[f] = Absent
        \/ /\ latest[f] # Absent
           /\ \E e \in 1 .. run : /\ Kept(e)[f] = latest[f]
                                 /\ \A d \in 1 .. run : d > e => Kept(d)[f] = Absent

KInv == TypeOK /\ Ahead /\ Apart /\ Last

LEMMA FlowIsOne == ASSUME world \in Worlds, NEW r \in Records PROVE Flow(r) \in Flows
  BY WorldsAssumption DEF Flow

LEMMA ThreadIsOne == ASSUME world \in Worlds, NEW r \in Records PROVE Thread(r) \in Records
  BY WorldsAssumption DEF Thread

LEMMA Numbers ==
    /\ Versions \in Nat \ {0} /\ Runs \in Nat \ {0} /\ Absent = 0 /\ Fresh = 1
    /\ Nothing \in [Flows -> Absent .. Versions] /\ \A f \in Flows : Nothing[f] = Absent
  BY BoundsAssumption DEF Absent, Fresh, Nothing

LEMMA ContentsAre ==
    /\ None \in Contents /\ Empty \in Contents /\ Mixed \in Contents
    /\ \A held \in [Flows -> Absent .. Versions] : Whole(held) \in Contents
    /\ \A held : Whole(held).is = "whole" /\ Whole(held).held = held
    /\ None.is = "none" /\ Empty.is = "empty" /\ Mixed.is = "mixed"
  BY Numbers DEF Contents, None, Empty, Mixed, Whole

LEMMA KeptIs == ASSUME TypeOK, NEW e \in 1 .. Runs PROVE Kept(e) \in [Flows -> Absent .. Versions]
  BY Numbers DEF TypeOK, Kept, Contents

\* Of some runs, one is the last.
LEMMA HasLast ==
    ASSUME NEW n \in Nat, NEW S \in SUBSET (1 .. n), S # {}
    PROVE  \E e \in S : \A d \in S : d <= e
<1> DEFINE Less == OpToRel(<, Nat)
           From(e) == n - e
           Short == {From(e) : e \in S}
<1>1. Short \in SUBSET Nat /\ Short # {}
  <2>1. \A e \in S : e \in Nat /\ e <= n
    OBVIOUS
  <2>2. \A e \in S : From(e) \in Nat
    BY <2>1
  <2> QED
    BY <2>2
<1>2. \A k, m \in Nat : k < m => <<k, m>> \in Less
  BY DEF OpToRel
<1>3. PICK m \in Short : \A k \in Short : <<k, m>> \notin Less
  <2> HIDE DEF Less, Short
  <2>1. IsWellFoundedOn(Less, Nat)
    BY NatLessThanWellFounded DEF Less
  <2> QED
    BY <1>1, <2>1, WFMin
<1>4. PICK e \in S : m = From(e)
  BY <1>3
<1>5. ASSUME NEW d \in S PROVE d <= e
  <2>1. From(d) \in Short /\ From(d) \in Nat /\ m \in Nat
    BY <1>1
  <2>2. ~(From(d) < m)
    BY <1>2, <1>3, <2>1
  <2> QED
    BY <1>4, <2>2
<1> QED
  BY <1>5

\* A flow is always handed a version of it; and the last saved, unless that was lost.
LEMMA ResumedIs ==
    ASSUME TypeOK, Last, NEW f \in Flows
    PROVE  /\ f \notin lost => Resumed(f) = IF latest[f] = Absent THEN Fresh ELSE latest[f]
           /\ Resumed(f) \in Fresh .. Versions
<1> DEFINE last == CHOOSE g \in Left(f) : \A d \in Left(f) : d <= g
<1>1. run \in Nat /\ run <= Runs /\ 1 .. run \subseteq 1 .. Runs
  BY Numbers DEF TypeOK
<1>2. latest[f] \in Absent .. Versions /\ \A e \in 1 .. run : Kept(e)[f] \in Absent .. Versions
  BY <1>1, KeptIs DEF TypeOK
<1>3. Resumed(f) \in Fresh .. Versions
  <2>1. CASE Left(f) = {}
    BY <2>1, Numbers DEF Resumed
  <2>2. CASE Left(f) # {}
    <3>1. Left(f) \in SUBSET (1 .. run)
      BY DEF Left
    <3>2. \E e \in Left(f) : \A d \in Left(f) : d <= e
      BY <1>1, <2>2, <3>1, HasLast
    <3>3. last \in Left(f)
      BY <3>2
    <3>4. Kept(last)[f] \in Fresh .. Versions
      BY <1>2, <3>3, Numbers DEF Left
    <3> QED
      BY <2>2, <3>4 DEF Resumed
  <2> QED
    BY <2>1, <2>2
<1>4. CASE f \in lost
  BY <1>3, <1>4
<1>5. CASE f \notin lost /\ latest[f] = Absent
  <2>1. Left(f) = {}
    BY <1>2, <1>5 DEF Last, Left
  <2> QED
    BY <1>3, <1>5, <2>1 DEF Resumed
<1>6. CASE f \notin lost /\ latest[f] # Absent
  <2>1. PICK e \in 1 .. run : /\ Kept(e)[f] = latest[f]
                              /\ \A d \in 1 .. run : d > e => Kept(d)[f] = Absent
    BY <1>6 DEF Last
  <2>2. e \in Left(f) /\ \A d \in Left(f) : d <= e
    BY <1>1, <1>6, <2>1 DEF Left
  <2>3. ASSUME NEW g \in Left(f), \A d \in Left(f) : d <= g PROVE g = e
    BY <1>1, <2>2, <2>3 DEF Left
  <2>4. last = e
    BY <2>2, <2>3
  <2>5. Resumed(f) = Kept(e)[f]
    BY <2>2, <2>4 DEF Resumed
  <2> QED
    BY <1>3, <1>6, <2>1, <2>5
<1> QED
  BY <1>4, <1>5, <1>6

LEMMA ShortSeqs == ASSUME NEW S PROVE <<>> \in Seq(S) /\ \A x \in S : <<x>> \in Seq(S)
  OBVIOUS

LEMMA SavingRecords ==
    ASSUME TypeOK, NEW r \in Saving
    PROVE  r \in Records /\ saving[r].held \in [Flows -> Absent .. Versions] /\ saving[r].stage # "off"
  BY DEF TypeOK, Saving, Savings

LEMMA StillIsOne ==
    Still \in Savings
  BY Numbers DEF Still, Savings, Records

LEMMA InitKInv == Init => KInv
<1> SUFFICES ASSUME Init PROVE KInv
  OBVIOUS
<1>1. TypeOK
  <2>1. Root \in Records
    BY DEF Records
  <2>2. states \in [Records -> Seq(Records)] /\ closing \in [Records -> Seq(Records)]
    BY <2>1, ShortSeqs DEF Init
  <2>3. at \in [Records -> Stages] /\ lines \in [Records -> SUBSET Lines]
    BY DEF Init, Stages, Lines
  <2>4. mem \in [Records -> Absent .. Versions] /\ latest \in [Flows -> Absent .. Versions]
    BY Numbers DEF Init
  <2>5. beside \in Contents /\ file \in [1 .. Runs -> Contents]
    BY ContentsAre DEF Init
  <2> QED
    BY Numbers, StillIsOne, <2>2, <2>3, <2>4, <2>5 DEF Init, TypeOK
<1>2. Ahead
  <2>1. Handed = {Root}
    BY DEF Init, Handed, Records
  <2>2. \A r \in Records : states[r] \in Seq(Handed) /\ closing[r] \in Seq(Handed)
    BY <2>1, ShortSeqs DEF Init
  <2>3. mem[Root] # Absent
    BY Numbers DEF Init, Records
  <2>4. \A e \in run + 1 .. Runs : file[e] = None
    BY Numbers DEF Init
  <2> QED
    BY <2>1, <2>2, <2>3, <2>4 DEF Ahead
<1>3. Apart
  <2>1. Saving = {} /\ \A r \in Records : saving[r].into = "none"
    BY DEF Init, Saving, Still
  <2> QED
    BY <2>1 DEF Apart, Init
<1>4. Last
  <2>1. \A e \in 1 .. run : Kept(e) = Nothing
    BY Numbers, ContentsAre DEF Init, Kept
  <2> QED
    BY Numbers, <2>1 DEF Init, Last
<1> QED
  BY <1>1, <1>2, <1>3, <1>4 DEF KInv

\* A step that leaves the files alone, and what was last saved.
LEMMA SameLast == ASSUME Last, UNCHANGED <<run, file, latest>>, lost \subseteq lost' PROVE Last'
  BY DEF Last, Kept

LEMMA SameApart ==
    ASSUME Apart, UNCHANGED <<world, run, file, kept, lost>> PROVE Apart'
  BY DEF Apart, Alone, Saving, Kept, Flow, kept

\* A record gets further on, and holds what it held.
LEMMA GoesKInv ==
    ASSUME KInv, NEW r \in Handed, NEW stage \in Stages \ {"off"}, at' = [at EXCEPT ![r] = stage],
           \/ UNCHANGED closing
           \/ closing' = [closing EXCEPT ![r] = states[r]],
           lines' \in [Records -> SUBSET Lines],
           UNCHANGED <<world, run, mem, states, kept, file, made, latest, lost>>
    PROVE  KInv'
<1>1. Handed' = Handed /\ r \in Records /\ at' \in [Records -> Stages]
  BY DEF Handed, KInv, TypeOK
<1>2. closing' \in [Records -> Seq(Records)]
  BY <1>1 DEF KInv, TypeOK
<1>3. \A s \in Records : states'[s] \in Seq(Handed) /\ closing'[s] \in Seq(Handed)
  BY <1>1 DEF KInv, Ahead, TypeOK
<1>4. TypeOK'
  BY <1>1, <1>2 DEF KInv, TypeOK, kept
<1>5. Ahead'
  BY <1>1, <1>3 DEF KInv, Ahead
<1> QED
  BY <1>4, <1>5, SameLast, SameApart DEF KInv

\* A save begins: alone, as long as no other is going on.
LEMMA BeginApart ==
    ASSUME KInv, NEW r \in Records, NEW thread \in Records, NEW held \in Fresh .. Versions,
           Begin(r, thread, held), UNCHANGED <<world, run, beside, file>>
    PROVE  /\ Apart' /\ lost \subseteq lost' /\ lost' \subseteq Flows
           /\ saving' \in [Records -> Savings]
<1>1. held \in Absent .. Versions /\ held # Absent /\ Flow(r) \in Flows /\ run \in 1 .. Runs
  BY Numbers, FlowIsOne DEF KInv, TypeOK
<1>2. Kept(run) \in [Flows -> Absent .. Versions]
  BY <1>1, KeptIs DEF KInv
<1> DEFINE new == [Kept(run) EXCEPT ![Flow(r)] = held]
<1>3. new \in [Flows -> Absent .. Versions] /\ new[Flow(r)] = held
  BY <1>1, <1>2
<1>4. /\ saving'[r] = [stage |-> "read", held |-> new, by |-> thread, alone |-> Saving = {},
                       into |-> "none"]
      /\ \A q \in Saving : saving'[q] = [saving[q] EXCEPT !.alone = FALSE]
      /\ \A q \in Records \ (Saving \cup {r}) : saving'[q] = saving[q]
      /\ r \notin Saving
  BY DEF Begin, Saving
<1>5. ASSUME NEW q \in Saving
      PROVE  /\ saving'[q] \in Savings /\ saving'[q].stage = saving[q].stage
             /\ saving'[q].held = saving[q].held /\ saving'[q].into = saving[q].into
             /\ saving'[q].alone = FALSE
  <2>1. saving[q] \in Savings
    BY DEF Saving, KInv, TypeOK
  <2> QED
    BY <1>4, <2>1 DEF Savings
<1>6. saving' \in [Records -> Savings]
  <2>1. saving'[r] \in Savings
    BY <1>3, <1>4 DEF Savings
  <2>2. \A q \in Records : saving'[q] \in Savings
    BY <1>4, <1>5, <2>1 DEF KInv, TypeOK
  <2>3. saving' = [q \in Records |-> saving'[q]]
    BY DEF Begin
  <2> QED
    BY <2>2, <2>3
<1>7. lost \subseteq lost' /\ lost' \subseteq Flows /\ (Saving # {} => lost' = Flows)
  BY DEF Begin, KInv, TypeOK
<1>8. Saving' = Saving \cup {r}
  <2>1. \A q \in Records : saving'[q].stage # "off" <=> q \in Saving \cup {r}
    <3>1. saving'[r].stage = "read"
      BY <1>4
    <3>2. \A q \in Saving : saving[q].stage # "off" /\ saving'[q].stage = saving[q].stage
      BY <1>5 DEF Saving
    <3>3. \A q \in Records \ (Saving \cup {r}) : saving'[q].stage = "off"
      BY <1>4 DEF Saving
    <3> QED
      BY <3>1, <3>2, <3>3
  <2> QED
    BY <2>1 DEF Saving
<1>9. ASSUME NEW q \in Saving'
      PROVE  /\ saving'[q].held[Flow(q)] # Absent
             /\ IF saving'[q].alone THEN Alone(q)' ELSE lost' = Flows
  <2>1. CASE q = r
    <3>0. saving'[r].alone = (Saving = {})
      <4> DEFINE first == Saving = {}
      <4>1. saving'[r] = [stage |-> "read", held |-> new, by |-> thread, alone |-> first,
                          into |-> "none"]
        BY <1>4
      <4> HIDE DEF first, new
      <4>2. saving'[r].alone = first
        BY <4>1
      <4> QED
        BY <4>2 DEF first
    <3>1. saving'[r].held[Flow(r)] # Absent
      BY <1>3, <1>4, <1>1
    <3>2. CASE Saving = {}
      <4>0. saving'[r].stage = "read" /\ saving'[r].into = "none" /\ saving'[r].held = new
        BY <1>4
      <4>1. /\ saving'[r].stage = "read" /\ saving'[r].into = "none"
            /\ saving'[r].held = new /\ saving'[r].alone
        BY <3>0, <3>2, <4>0
      <4>2. Kept(run)' = Kept(run) /\ Flow(r)' = Flow(r)
        BY DEF Kept, Flow
      <4>3. Alone(r)'
        BY <1>3, <1>8, <3>2, <4>1, <4>2 DEF Alone
      <4> QED
        BY <2>1, <3>1, <4>1, <4>3
    <3>3. CASE Saving # {}
      BY <1>7, <2>1, <3>0, <3>1, <3>3
    <3> QED
      BY <3>2, <3>3
  <2>2. CASE q # r
    <3>1. q \in Saving
      BY <1>8, <2>2
    <3> QED
      BY <1>5, <1>7, <3>1 DEF KInv, Apart
  <2> QED
    BY <2>1, <2>2
<1>10. \A q \in Records \ Saving' : saving'[q].into = "none"
  BY <1>4, <1>8 DEF KInv, Apart
<1>11. beside' # None => \E q \in Saving' : saving'[q].into = "beside"
  BY <1>5, <1>8 DEF KInv, Apart
<1>12. Apart'
  BY <1>9, <1>10, <1>11 DEF Apart, Flow
<1> QED
  BY <1>6, <1>7, <1>12

\* A flow holds something newer, and perhaps begins to save it.
LEMMA MakesKInv == ASSUME KInv, NEW r \in Records, Writes(r) \/ Appends(r) PROVE KInv'
<1>1. made + 1 \in Fresh .. Versions /\ made + 1 \in Absent .. Versions /\ made + 1 # Absent
      /\ made + 1 \in 1 .. Versions /\ made' = made + 1
  BY Numbers DEF KInv, TypeOK, Writes, Appends
<1>2. /\ mem' = [mem EXCEPT ![r] = made + 1] /\ at[r] = "going" /\ Thread(r) \in Records
      /\ UNCHANGED <<world, run, at, lines, states, closing, beside, file, latest>>
  BY ThreadIsOne DEF Writes, Appends, kept, KInv, TypeOK
<1>3. /\ Apart' /\ lost \subseteq lost' /\ lost' \subseteq Flows
      /\ saving' \in [Records -> Savings]
  <2>1. CASE Writes(r)
    <3>1. Begin(r, Thread(r), made + 1)
      BY <2>1 DEF Writes
    <3> QED
      BY <1>1, <1>2, <3>1, BeginApart
  <2>2. CASE Appends(r)
    BY <1>2, <2>2, SameApart DEF Appends, KInv, TypeOK, kept
  <2> QED
    BY <2>1, <2>2
<1>4. TypeOK'
  <2>1. mem' \in [Records -> Absent .. Versions]
    BY <1>1, <1>2 DEF KInv, TypeOK
  <2> QED
    BY <1>1, <1>2, <1>3, <2>1 DEF KInv, TypeOK
<1>5. Ahead'
  <2>1. Handed' = Handed
    BY <1>2 DEF Handed
  <2>2. \A s \in Handed : mem'[s] # Absent
    BY <1>1, <1>2 DEF KInv, TypeOK, Ahead, Handed
  <2> QED
    BY <1>2, <2>1, <2>2 DEF KInv, Ahead
<1> QED
  BY <1>2, <1>3, <1>4, <1>5, SameLast DEF KInv

LEMMA CallsFlowKInv == ASSUME KInv, NEW c \in Calls, CallsFlow(c) PROVE KInv'
<1> DEFINE u == Under(c)
<1>1. /\ c \in Records /\ u \in Records /\ Flow(c) \in Flows /\ c \notin Handed /\ world \in Worlds
  BY UnderRecords, FlowIsOne DEF KInv, TypeOK, CallsFlow, Records, Handed
<1>2. Resumed(Flow(c)) \in Absent .. Versions /\ Resumed(Flow(c)) # Absent
  BY <1>1, ResumedIs, Numbers DEF KInv
<1>3. Handed' = Handed \cup {c}
  BY <1>1 DEF Handed, CallsFlow, KInv, TypeOK
<1>4. mem' = [mem EXCEPT ![c] = Resumed(Flow(c))] /\ states' = [states EXCEPT ![u] = Append(@, c)]
  BY DEF CallsFlow
<1>5. Last' /\ Apart'
  BY SameLast, SameApart DEF CallsFlow, KInv
<1>6. TypeOK'
  <2>1. mem' \in [Records -> Absent .. Versions]
    BY <1>2, <1>4 DEF KInv, TypeOK
  <2>2. states' \in [Records -> Seq(Records)]
    BY <1>1, <1>4 DEF KInv, TypeOK
  <2>3. at' \in [Records -> Stages]
    BY DEF CallsFlow, KInv, TypeOK, Stages
  <2>4. lines' \in [Records -> SUBSET Lines]
    <3>1. <<"called", c>> \in Lines
      BY DEF Lines
    <3> QED
      BY <1>1, <3>1 DEF CallsFlow, KInv, TypeOK
  <2> QED
    BY <2>1, <2>2, <2>3, <2>4 DEF CallsFlow, KInv, TypeOK, kept
<1>7. Ahead'
  <2>1. ASSUME NEW s \in Handed' PROVE mem'[s] # Absent
    BY <1>1, <1>2, <1>3, <1>4 DEF KInv, TypeOK, Handed, Ahead
  <2>2. ASSUME NEW s \in Records
        PROVE  states'[s] \in Seq(Handed') /\ closing'[s] \in Seq(Handed')
    <3>1. states[s] \in Seq(Handed') /\ closing[s] \in Seq(Handed')
      BY <1>3 DEF KInv, Ahead
    <3>2. states'[s] = IF s = u THEN Append(states[s], c) ELSE states[s]
      BY <1>1, <1>4 DEF KInv, TypeOK
    <3> QED
      BY <1>3, <3>1, <3>2 DEF CallsFlow
  <2> QED
    BY <1>3, <2>1, <2>2 DEF CallsFlow, KInv, Ahead
<1> QED
  BY <1>5, <1>6, <1>7 DEF KInv

LEMMA SavesKInv == ASSUME KInv, NEW r \in Records, Saves(r) PROVE KInv'
<1> DEFINE h == Head(closing[r])
<1>1. h \in Handed /\ Tail(closing[r]) \in Seq(Handed) /\ Tail(closing[r]) \in Seq(Records)
  BY DEF KInv, Ahead, TypeOK, Saves
<1>2. h \in Records /\ Handed' = Handed /\ mem[h] \in Fresh .. Versions /\ Thread(r) \in Records
  <2>1. h \in Records /\ Handed' = Handed
    BY <1>1 DEF Handed, Saves
  <2>2. mem[h] \in Fresh .. Versions
    BY <1>1, <2>1, Numbers DEF KInv, TypeOK, Ahead
  <2> QED
    BY <2>1, <2>2, ThreadIsOne DEF KInv, TypeOK
<1>3. /\ Apart' /\ lost \subseteq lost' /\ lost' \subseteq Flows
      /\ saving' \in [Records -> Savings]
  BY <1>2, BeginApart DEF Saves
<1>4. closing' \in [Records -> Seq(Records)] /\ \A s \in Records : closing'[s] \in Seq(Handed)
  BY <1>1 DEF Saves, KInv, TypeOK, Ahead
<1>5. TypeOK'
  BY <1>3, <1>4 DEF Saves, KInv, TypeOK
<1>6. Ahead'
  BY <1>2, <1>4 DEF Saves, KInv, Ahead
<1> QED
  BY <1>3, <1>5, <1>6, SameLast DEF Saves, KInv

\* The file beside is made, or emptied.
LEMMA BesideKInv == ASSUME KInv, NEW r \in Records, Beside(r) PROVE KInv'
<1>1. /\ saving' = [saving EXCEPT ![r].stage = "opened", ![r].into = "beside"]
      /\ r \in Saving /\ saving[r].stage = "read" /\ beside' = Empty
      /\ UNCHANGED <<world, run, at, lines, mem, states, closing, file, made, latest, lost>>
  BY DEF Beside, Step, Saving
<1>2. /\ saving'[r] \in Savings /\ saving'[r].stage = "opened" /\ saving'[r].into = "beside"
      /\ saving'[r].held = saving[r].held /\ (saving'[r].alone <=> saving[r].alone)
      /\ \A q \in Records \ {r} : saving'[q] = saving[q]
  BY <1>1 DEF KInv, TypeOK, Savings
<1>3. Saving' = Saving
  BY <1>1, <1>2 DEF Saving
<1>4. TypeOK'
  <2>1. saving' \in [Records -> Savings]
    BY <1>1, <1>2 DEF KInv, TypeOK
  <2> QED
    BY <1>1, <2>1, ContentsAre DEF KInv, TypeOK
<1>5. Apart'
  <2>1. ASSUME NEW q \in Saving
        PROVE  /\ saving'[q].held[Flow(q)] # Absent
               /\ IF saving'[q].alone THEN Alone(q)' ELSE lost = Flows
    <3>1. saving'[q].held = saving[q].held /\ (saving'[q].alone <=> saving[q].alone) /\ q \in Records
      BY <1>2 DEF Saving
    <3>2. CASE ~saving[q].alone
      BY <3>1, <3>2 DEF KInv, Apart
    <3>3. CASE saving[q].alone
      <4>1. Alone(q)
        BY <3>3 DEF KInv, Apart
      <4>2. q = r
        BY <1>1, <4>1 DEF Alone
      <4>3. Kept(run)' = Kept(run) /\ Flow(q)' = Flow(q)
        BY <1>1 DEF Kept, Flow
      <4>4. Alone(q)'
        <5>1. Saving' = {r} /\ saving'[r].held = [Kept(run)' EXCEPT ![Flow(r)'] = saving'[r].held[Flow(r)']]
          BY <1>2, <1>3, <4>1, <4>2, <4>3 DEF Alone
        <5> QED
          BY <1>1, <1>2, <4>2, <5>1 DEF Alone
      <4> QED
        BY <3>1, <3>3, <4>4 DEF KInv, Apart
    <3> QED
      BY <3>2, <3>3
  <2>2. \A q \in Records \ Saving : saving'[q].into = "none"
    BY <1>1, <1>2 DEF KInv, Apart
  <2> QED
    BY <1>1, <1>2, <1>3, <2>1, <2>2 DEF Apart, Flow
<1>6. Ahead'
  BY <1>1 DEF KInv, Ahead, Handed
<1> QED
  BY <1>1, <1>4, <1>5, <1>6, SameLast DEF KInv

\* And written, or what was made of it since is.
LEMMA FillsKInv == ASSUME KInv, NEW r \in Records, Fills(r) PROVE KInv'
<1> DEFINE held == saving[r].held
<1>1. /\ saving' = [saving EXCEPT ![r].stage = "written"]
      /\ r \in Saving /\ saving[r].stage = "opened"
      /\ UNCHANGED <<world, run, at, lines, mem, states, closing, made, latest, lost>>
  BY DEF Fills, Step, Saving
<1>2. /\ saving'[r] \in Savings /\ saving'[r].stage = "written" /\ saving'[r].into = saving[r].into
      /\ saving'[r].held = held /\ (saving'[r].alone <=> saving[r].alone)
      /\ \A q \in Records \ {r} : saving'[q] = saving[q]
  BY <1>1 DEF KInv, TypeOK, Savings
<1>3. Saving' = Saving
  BY <1>1, <1>2 DEF Saving
<1>4. held \in [Flows -> Absent .. Versions] /\ run \in 1 .. Runs
  BY DEF KInv, TypeOK, Savings
<1>5. \A was : Put(was, held) \subseteq Contents /\ None \notin Put(was, held)
               /\ (was = Empty => Put(was, held) = {Whole(held)})
  BY <1>4, ContentsAre DEF Put
<1>6. /\ beside' \in Contents /\ file' \in [1 .. Runs -> Contents]
      /\ \A e \in run + 1 .. Runs : file'[e] = file[e]
      /\ beside' # None => beside # None \/ saving[r].into = "beside"
  <2>1. CASE saving[r].into = "beside" /\ beside' \in Put(beside, held) /\ UNCHANGED file
    BY <1>5, <2>1 DEF KInv, TypeOK
  <2>2. CASE saving[r].into = "file" /\ UNCHANGED beside
    <3>1. PICK whole \in Put(file[run], held) : file' = [file EXCEPT ![run] = whole]
      BY <2>2 DEF Fills
    <3>2. whole \in Contents /\ \A e \in run + 1 .. Runs : e # run
      BY <1>4, <1>5, <3>1, Numbers
    <3> QED
      BY <1>4, <2>2, <3>1, <3>2 DEF KInv, TypeOK
  <2>3. CASE UNCHANGED <<beside, file>>
    BY <2>3 DEF KInv, TypeOK
  <2> QED
    BY <2>1, <2>2, <2>3 DEF Fills
<1>7. TypeOK'
  <2>1. saving' \in [Records -> Savings]
    BY <1>1, <1>2 DEF KInv, TypeOK
  <2> QED
    BY <1>1, <1>6, <2>1 DEF KInv, TypeOK
<1>8. Apart'
  <2>1. ASSUME NEW q \in Saving
        PROVE  /\ saving'[q].held[Flow(q)] # Absent
               /\ IF saving'[q].alone THEN Alone(q)' ELSE lost = Flows
    <3>1. saving'[q].held = saving[q].held /\ (saving'[q].alone <=> saving[q].alone) /\ q \in Records
      BY <1>2 DEF Saving
    <3>2. CASE ~saving[q].alone
      BY <3>1, <3>2 DEF KInv, Apart
    <3>3. CASE saving[q].alone
      <4>1. Alone(q)
        BY <3>3 DEF KInv, Apart
      <4>2. q = r
        BY <1>1, <4>1 DEF Alone
      <4>3. saving[r].into = "beside" /\ beside = Empty
        BY <1>1, <4>1, <4>2 DEF Alone
      <4>4. beside' = Whole(held) /\ UNCHANGED file
        BY <1>5, <4>3 DEF Fills
      <4>5. Kept(run)' = Kept(run) /\ Flow(q)' = Flow(q)
        BY <1>1, <4>4 DEF Kept, Flow
      <4>6. Alone(q)'
        BY <1>2, <1>3, <4>1, <4>2, <4>3, <4>4, <4>5 DEF Alone
      <4> QED
        BY <3>1, <3>3, <4>6 DEF KInv, Apart
    <3> QED
      BY <3>2, <3>3
  <2>2. \A q \in Records \ Saving : saving'[q].into = "none"
    BY <1>1, <1>2 DEF KInv, Apart
  <2>3. beside' # None => \E q \in Saving : saving'[q].into = "beside"
    <3>1. \A q \in Saving : saving'[q].into = saving[q].into
      BY <1>2 DEF Saving
    <3> QED
      BY <1>1, <1>6, <3>1 DEF KInv, Apart
  <2> QED
    BY <1>1, <1>3, <2>1, <2>2, <2>3 DEF Apart, Flow
<1>9. Ahead'
  BY <1>1, <1>6 DEF KInv, Ahead, Handed
<1>10. Last'
  <2>1. CASE saving[r].into = "file"
    <3>1. ~saving[r].alone
      BY <1>1, <2>1 DEF KInv, Apart, Alone
    <3>2. lost' = Flows
      BY <1>1, <3>1 DEF KInv, Apart
    <3> QED
      BY <3>2 DEF Last
  <2>2. CASE saving[r].into # "file"
    BY <1>1, <2>2, SameLast DEF Fills, KInv
  <2> QED
    BY <2>1, <2>2
<1> QED
  BY <1>7, <1>8, <1>9, <1>10 DEF KInv

\* And put in the place of the other, or found to have been.
LEMMA ReplacesKInv == ASSUME KInv, NEW r \in Records, Replaces(r) PROVE KInv'
<1> DEFINE held == saving[r].held
           moved == [beside |-> "file", file |-> "gone", gone |-> "gone", none |-> "none"]
<1>1. /\ r \in Saving /\ saving[r].stage = "written" /\ held \in [Flows -> Absent .. Versions]
      /\ UNCHANGED <<world, run, at, lines, mem, states, closing, made>>
      /\ world \in Worlds /\ run \in 1 .. Runs /\ Flow(r) \in Flows /\ Flow(r)' = Flow(r)
  BY FlowIsOne DEF Replaces, Step, Saving, KInv, TypeOK, Savings, Flow
<1>2. /\ saving'[r] = Still
      /\ \A q \in Records \ {r} :
            /\ saving'[q] \in Savings /\ saving'[q].stage = saving[q].stage
            /\ saving'[q].held = saving[q].held /\ (saving'[q].alone <=> saving[q].alone)
            /\ saving'[q].into = IF beside = None THEN saving[q].into ELSE moved[saving[q].into]
      /\ saving' \in [Records -> Savings]
  <2>1. CASE beside = None
    <3>1. saving' = [saving EXCEPT ![r] = Still]
      BY <2>1 DEF Replaces
    <3>2. saving'[r] = Still /\ \A q \in Records \ {r} : saving'[q] = saving[q]
      BY <3>1 DEF KInv, TypeOK
    <3>3. saving' \in [Records -> Savings]
      BY <3>1, StillIsOne DEF KInv, TypeOK
    <3> QED
      BY <2>1, <3>2, <3>3
  <2>2. CASE beside # None
    <3>1. saving' = [q \in Records |-> IF q = r THEN Still
                                       ELSE [saving[q] EXCEPT !.into = moved[@]]]
      BY <2>2 DEF Replaces
    <3>2. ASSUME NEW q \in Records \ {r}
          PROVE  /\ saving'[q] \in Savings /\ saving'[q].stage = saving[q].stage
                 /\ saving'[q].held = saving[q].held /\ (saving'[q].alone <=> saving[q].alone)
                 /\ saving'[q].into = moved[saving[q].into]
      <4>1. saving[q] \in Savings
        BY DEF KInv, TypeOK
      <4>2. saving'[q] = [saving[q] EXCEPT !.into = moved[saving[q].into]]
        BY <3>1
      <4>3. moved[saving[q].into] \in {"none", "beside", "file", "gone"}
        BY <4>1 DEF Savings
      <4> HIDE DEF moved
      <4> QED
        BY <4>1, <4>2, <4>3 DEF Savings
    <3>3. saving' \in [Records -> Savings]
      BY <3>1, <3>2, StillIsOne
    <3> QED
      BY <2>2, <3>1, <3>2, <3>3
  <2> QED
    BY <2>1, <2>2
<1>3. Saving' = Saving \ {r}
  <2>1. Still.stage = "off"
    BY DEF Still
  <2> QED
    BY <1>2, <2>1 DEF Saving
<1>4. /\ beside' = None
      /\ file' = IF beside = None THEN file ELSE [file EXCEPT ![run] = beside]
      /\ latest' = IF beside = None THEN latest ELSE [latest EXCEPT ![Flow(r)] = held[Flow(r)]]
  BY DEF Replaces
<1>5. CASE saving[r].alone
  <2>1. /\ Saving = {r} /\ beside = Whole(held) /\ beside # None
        /\ held = [Kept(run) EXCEPT ![Flow(r)] = held[Flow(r)]]
    BY <1>1, <1>5, ContentsAre DEF KInv, Apart, Alone
  <2>2. lost' = lost \ {Flow(r)}
    BY <1>5, <2>1 DEF Replaces
  <2>3. held[Flow(r)] # Absent
    BY <1>1 DEF KInv, Apart
  <2>4. TypeOK'
    BY <1>1, <1>2, <1>4, <2>1, <2>2, ContentsAre DEF KInv, TypeOK
  <2>5. Apart'
    <3>1. Saving' = {} /\ \A q \in Records : saving'[q].into = "none"
      <4>1. \A q \in Records \ {r} : saving[q].into = "none"
        BY <2>1 DEF KInv, Apart
      <4>2. Still.into = "none"
        BY DEF Still
      <4> QED
        BY <1>2, <1>3, <2>1, <4>1, <4>2
    <3> QED
      BY <1>4, <3>1 DEF Apart
  <2>6. Ahead'
    <3>1. \A e \in run + 1 .. Runs : e # run
      BY <1>1, Numbers
    <3> QED
      BY <1>1, <1>4, <3>1 DEF KInv, Ahead, Handed, TypeOK
  <2>7. Last'
    <3> DEFINE After(e) == IF file'[e].is = "whole" THEN file'[e].held ELSE Nothing
    <3>1. /\ After(run) = held
          /\ \A e \in 1 .. run : e # run => After(e) = Kept(e)
      <4>1. file'[run] = Whole(held) /\ \A e \in 1 .. run : e # run => file'[e] = file[e]
        BY <1>1, <1>4, <2>1, Numbers DEF KInv, TypeOK
      <4> QED
        BY <1>1, <4>1, ContentsAre DEF Kept
    <3> SUFFICES ASSUME NEW f \in Flows, f \notin lost'
                 PROVE  \/ latest'[f] = Absent /\ \A e \in 1 .. run : After(e)[f] = Absent
                        \/ /\ latest'[f] # Absent
                           /\ \E e \in 1 .. run : /\ After(e)[f] = latest'[f]
                                                 /\ \A d \in 1 .. run : d > e => After(d)[f] = Absent
      BY <1>1 DEF Last, Kept
    <3> HIDE DEF After, held
    <3>2. CASE f = Flow(r)
      <4>1. latest'[f] = held[f] /\ held[f] # Absent /\ run \in 1 .. run
        BY <1>1, <1>4, <2>1, <2>3, <3>2, Numbers DEF KInv, TypeOK
      <4>2. \A d \in 1 .. run : ~(d > run)
        BY <1>1, Numbers
      <4>3. After(run)[f] = held[f]
        BY <3>1
      <4> QED
        BY <4>1, <4>2, <4>3
    <3>3. CASE f # Flow(r)
      <4>1. f \notin lost /\ latest'[f] = latest[f]
        BY <1>1, <1>4, <2>1, <2>2, <3>3 DEF KInv, TypeOK
      <4>2. ASSUME NEW e \in 1 .. run PROVE After(e)[f] = Kept(e)[f]
        <5>1. After(run)[f] = Kept(run)[f]
          <6>1. Kept(run) \in [Flows -> Absent .. Versions]
            BY <1>1, KeptIs DEF KInv
          <6> QED
            BY <2>1, <3>1, <3>3, <6>1
        <5>2. e # run => After(e) = Kept(e)
          BY <3>1
        <5> QED
          BY <5>1, <5>2
      <4> QED
        BY <4>1, <4>2 DEF KInv, Last
    <3> QED
      BY <3>2, <3>3
  <2> QED
    BY <2>4, <2>5, <2>6, <2>7 DEF KInv
<1>6. CASE ~saving[r].alone
  <2>1. lost = Flows /\ lost' = Flows
    BY <1>1, <1>6 DEF KInv, Apart, Replaces
  <2>2. TypeOK'
    <3>1. latest' \in [Flows -> Absent .. Versions] /\ file' \in [1 .. Runs -> Contents]
      BY <1>1, <1>4 DEF KInv, TypeOK
    <3> QED
      BY <1>1, <1>2, <1>4, <2>1, <3>1, ContentsAre DEF KInv, TypeOK
  <2>3. Apart'
    <3>1. ASSUME NEW q \in Saving \ {r} PROVE saving'[q].held[Flow(q)] # Absent /\ ~saving'[q].alone
      <4>1. saving'[q].held = saving[q].held /\ (saving'[q].alone <=> saving[q].alone)
        BY <1>2 DEF Saving
      <4>2. ~saving[q].alone
        BY <1>1 DEF KInv, Apart, Alone
      <4> QED
        BY <4>1, <4>2 DEF KInv, Apart
    <3>2. \A q \in Records \ Saving' : saving'[q].into = "none"
      <4>1. Still.into = "none" /\ moved["none"] = "none"
        BY DEF Still
      <4> QED
        BY <1>2, <1>3, <4>1 DEF KInv, Apart
    <3> QED
      BY <1>1, <1>3, <1>4, <2>1, <3>1, <3>2 DEF Apart, Flow
  <2>4. Ahead'
    <3>1. \A e \in run + 1 .. Runs : e # run
      BY <1>1, Numbers
    <3> QED
      BY <1>1, <1>4, <3>1 DEF KInv, Ahead, Handed, TypeOK
  <2>5. Last'
    BY <2>1 DEF Last
  <2> QED
    BY <2>2, <2>3, <2>4, <2>5 DEF KInv
<1> QED
  BY <1>5, <1>6

LEMMA BeginsKInv == ASSUME KInv, Begins PROVE KInv'
<1> DEFINE held == Resumed(Flow(Root))
<1>1. run \in 1 .. Runs /\ world \in Worlds /\ Root \in Records /\ run' = run + 1 /\ run' \in 1 .. Runs
  BY Numbers DEF KInv, TypeOK, Records, Begins
<1>2. held \in Fresh .. Versions
  BY <1>1, FlowIsOne, ResumedIs DEF KInv
<1>3. /\ at' = [r \in Records |-> IF r = Root THEN "going" ELSE "off"]
      /\ lines' = [r \in Records |-> IF r = Root THEN {<<"began">>} ELSE {}]
      /\ mem' = [r \in Records |-> IF r = Root THEN held ELSE Absent]
      /\ states' = [r \in Records |-> IF r = Root THEN <<Root>> ELSE <<>>]
      /\ closing' = [r \in Records |-> <<>>]
      /\ saving' = [r \in Records |-> Still] /\ beside' = None
      /\ UNCHANGED <<world, file, made, latest, lost>>
  BY DEF Begins, Begun
<1>4. Handed' = {Root}
  BY <1>1, <1>3 DEF Handed
<1>5. TypeOK'
  <2>1. at' \in [Records -> Stages] /\ lines' \in [Records -> SUBSET Lines]
    BY <1>3 DEF Stages, Lines
  <2>2. mem' \in [Records -> Absent .. Versions]
    BY <1>2, <1>3, Numbers
  <2>3. states' \in [Records -> Seq(Records)] /\ closing' \in [Records -> Seq(Records)]
    BY <1>1, <1>3, ShortSeqs
  <2>4. saving' \in [Records -> Savings] /\ beside' \in Contents
    BY <1>3, StillIsOne, ContentsAre
  <2> QED
    BY <1>1, <1>3, <2>1, <2>2, <2>3, <2>4 DEF KInv, TypeOK
<1>6. Ahead'
  <2>1. \A r \in Records : states'[r] \in Seq(Handed') /\ closing'[r] \in Seq(Handed')
    BY <1>3, <1>4, ShortSeqs
  <2>2. \A e \in run' + 1 .. Runs : e \in run + 1 .. Runs
    BY <1>1, Numbers
  <2>3. \A r \in Handed' : mem'[r] # Absent
    BY <1>1, <1>2, <1>3, <1>4, Numbers
  <2> QED
    BY <1>3, <1>4, <2>1, <2>2, <2>3 DEF KInv, Ahead
<1>7. Apart'
  <2>1. Saving' = {} /\ \A r \in Records : saving'[r].into = "none"
    BY <1>3 DEF Saving, Still
  <2> QED
    BY <1>3, <2>1 DEF Apart
<1>8. Last'
  <2> SUFFICES ASSUME NEW f \in Flows, f \notin lost
               PROVE  \/ latest[f] = Absent /\ \A e \in 1 .. run + 1 : Kept(e)[f] = Absent
                      \/ /\ latest[f] # Absent
                         /\ \E e \in 1 .. run + 1 :
                               /\ Kept(e)[f] = latest[f]
                               /\ \A d \in 1 .. run + 1 : d > e => Kept(d)[f] = Absent
    BY <1>1, <1>3 DEF Last, Kept
  <2>1. Kept(run + 1)[f] = Absent
    BY <1>1, Numbers, ContentsAre DEF KInv, Ahead, Kept
  <2>2. \A e \in 1 .. run + 1 : e \in 1 .. run \/ e = run + 1
    BY <1>1
  <2>3. CASE latest[f] = Absent
    BY <2>1, <2>2, <2>3 DEF KInv, Last
  <2>4. CASE latest[f] # Absent
    <3>1. PICK e \in 1 .. run : /\ Kept(e)[f] = latest[f]
                                /\ \A d \in 1 .. run : d > e => Kept(d)[f] = Absent
      BY <2>4 DEF KInv, Last
    <3>2. e \in 1 .. run + 1 /\ \A d \in 1 .. run + 1 : d > e => Kept(d)[f] = Absent
      BY <1>1, <2>1, <2>2, <3>1
    <3> QED
      BY <2>4, <3>1, <3>2
  <2> QED
    BY <2>3, <2>4
<1> QED
  BY <1>5, <1>6, <1>7, <1>8 DEF KInv

LEMMA StepKInv == KInv /\ [Next]_vars => KInv'
<1> SUFFICES ASSUME KInv, [Next]_vars PROVE KInv'
  OBVIOUS
<1>1. ASSUME NEW r \in Records, Ends(r) PROVE KInv'
  <2>1. r \in Handed /\ at' = [at EXCEPT ![r] = "closing"] /\ lines' \in [Records -> SUBSET Lines]
    BY <1>1 DEF Ends, Handed, KInv, TypeOK
  <2>2. "closing" \in Stages \ {"off"} /\ closing' = [closing EXCEPT ![r] = states[r]]
    BY <1>1 DEF Stages, Ends
  <2> QED
    BY <1>1, <2>1, <2>2, GoesKInv DEF Ends
<1>2. ASSUME NEW r \in Records, Closes(r) PROVE KInv'
  <2>1. PICK stage \in Stages \ {"off"} : at' = [at EXCEPT ![r] = stage]
    BY <1>2 DEF Closes, Stages
  <2>2. r \in Handed /\ lines' \in [Records -> SUBSET Lines]
    BY <1>2 DEF Closes, Handed, Lines, KInv, TypeOK
  <2> QED
    BY <1>2, <2>1, <2>2, GoesKInv DEF Closes
<1>3. ASSUME NEW c \in Calls, Opens(c) PROVE KInv'
  <2>1. c \in Handed /\ at' = [at EXCEPT ![c] = "going"]
    BY <1>3 DEF Opens, Handed, Records
  <2>2. "going" \in Stages \ {"off"} /\ lines' \in [Records -> SUBSET Lines]
    BY <1>3 DEF Opens, Stages, Lines, KInv, TypeOK
  <2> QED
    BY <1>3, <2>1, <2>2, GoesKInv DEF Opens
<1>4. ASSUME NEW c \in Calls, Returns(c) PROVE KInv'
  <2>1. c \in Handed /\ at' = [at EXCEPT ![c] = "over"]
    BY <1>4 DEF Returns, Handed, Records
  <2>2. "over" \in Stages \ {"off"} /\ <<"returned", c>> \in Lines
    BY DEF Stages, Lines
  <2>3. lines' \in [Records -> SUBSET Lines]
    BY <1>4, <2>2 DEF Returns, KInv, TypeOK
  <2> QED
    BY <1>4, <2>1, <2>2, <2>3, GoesKInv DEF Returns
<1>5. ASSUME Dies PROVE KInv'
  <2>1. "killed" \in Stages \ {"off"} /\ lines' \in [Records -> SUBSET Lines] /\ Root \in Records
    BY <1>5 DEF Dies, Stages, Lines, Records, KInv, TypeOK
  <2>2. Root \in Handed
    BY DEF KInv, Ahead
  <2> QED
    BY <1>5, <2>1, <2>2, GoesKInv DEF Dies
<1>6. CASE UNCHANGED vars
  <2>1. TypeOK'
    BY <1>6 DEF vars, now, kept, KInv, TypeOK
  <2>2. Ahead'
    BY <1>6 DEF vars, now, KInv, Ahead, Handed
  <2> QED
    BY <1>6, <2>1, <2>2, SameLast, SameApart DEF vars, now, KInv
<1> QED
  BY <1>1, <1>2, <1>3, <1>4, <1>5, <1>6, MakesKInv, CallsFlowKInv, SavesKInv, BesideKInv,
     FillsKInv, ReplacesKInv, BeginsKInv DEF Next

LEMMA Inductive == Spec => []KInv
  BY InitKInv, StepKInv, PTL DEF Spec

THEOREM TypeCorrect == Spec => []TypeOK
  BY Inductive, PTL DEF KInv

\* CarriesOn, for any flows and calls, flows called more than once, any number of threads they
\* run on and of runs, each killed anywhere, and any number of saves, those that meet too.
THEOREM NextCarriesOn == Spec => []CarriesOn
<1>1. KInv => CarriesOn
  BY ResumedIs DEF KInv, CarriesOn
<1> QED
  BY <1>1, Inductive, PTL
=============================================================================
