-------------------------------- MODULE Epic --------------------------------
(***************************************************************************)
(* What a run writes down as it goes, and what the next run of a flow is    *)
(* picked up from: the records and the kept state of runtime/epic.py, as    *)
(* runtime/runner.py and flows/driving.py write them.                       *)
(*                                                                         *)
(* One flow is run again and again in one workspace.  Every run may be      *)
(* killed at any step, between the two of a save as much as between the     *)
(* line that closes a record and the line that says its call returned.  A   *)
(* flow runs on the thread of whoever called it, or, called by a tool that  *)
(* an agent reached for, on one of its own; flows gathered on one thread    *)
(* may outlive the one that gathered them.                                  *)
(*                                                                         *)
(* What a flow holds is a version of it, an emptied one like any other; what *)
(* it began with, having nothing to pick up, is the first.                  *)
(***************************************************************************)
EXTENDS Naturals, Sequences, FiniteSets

CONSTANTS Root,      \* the run's own record
          Calls,     \* the records of the flows it calls
          Flows,     \* the flows, all of which can be picked up again
          Worlds,    \* which flow each record is of, under which record each call is made,
                     \* and the record whose thread each runs on
          Runs,      \* the runs of the flow in this workspace
          Versions   \* how many versions there are of what flows hold

Records == {Root} \cup Calls
Absent == 0
Fresh == 1

ASSUME RootAssumption == Root \notin Calls
ASSUME WorldsAssumption ==
    Worlds \subseteq [flow : [Records -> Flows], under : [Calls -> Records],
                      thread : [Records -> Records]]
ASSUME BoundsAssumption == Runs \in Nat \ {0} /\ Versions \in Nat \ {0}

VARIABLES
    world,     \* the one of Worlds this is
    run,       \* which run this is, the runs before it being over
    at,        \* how far each record's flow has got
    lines,     \* the lines each record of this run holds
    mem,       \* State: what each flow holds, or Absent before it is handed one
    states,    \* Epic._state: those handed out under each record, in order
    closing,   \* what a record that is closing has still to save
    saving,    \* each State being saved: how far, on whose thread, the file it makes of it
    beside,    \* the file beside that saves of this run write to
    file,      \* state.json of each run: what it holds, or that it cannot be read
    made,      \* the last version made
    latest,    \* what was last saved of each flow
    lost       \* the flows of which saves that met may have lost that

kept == <<saving, beside>>
now == <<at, lines, mem, states, closing, kept>>
vars == <<world, run, now, file, made, latest, lost>>

Nothing == [f \in Flows |-> Absent]
None == [is |-> "none", held |-> Nothing]
Empty == [is |-> "empty", held |-> Nothing]
Mixed == [is |-> "mixed", held |-> Nothing]
Whole(held) == [is |-> "whole", held |-> held]
Still == [stage |-> "off", held |-> Nothing, by |-> Root, alone |-> TRUE, into |-> "none"]

Flow(r) == world.flow[r]
Under(c) == world.under[c]
Thread(r) == world.thread[r]

\* _kept: a file that cannot be read is one that holds nothing.
Kept(e) == IF file[e].is = "whole" THEN file[e].held ELSE Nothing

\* The last run that left something of a flow behind, though it be nothing any more.
Left(f) == {e \in 1 .. run : Kept(e)[f] # Absent}
Resumed(f) ==
    IF Left(f) = {} THEN Fresh ELSE Kept(CHOOSE e \in Left(f) : \A d \in Left(f) : d <= e)[f]

\* A run as it is before its flow is called.
Begun(f) ==
    /\ at' = [r \in Records |-> IF r = Root THEN "going" ELSE "off"]
    /\ lines' = [r \in Records |-> IF r = Root THEN {<<"began">>} ELSE {}]
    /\ mem' = [r \in Records |-> IF r = Root THEN f ELSE Absent]
    /\ states' = [r \in Records |-> IF r = Root THEN <<Root>> ELSE <<>>]
    /\ closing' = [r \in Records |-> <<>>]
    /\ saving' = [r \in Records |-> Still] /\ beside' = None

Init ==
    /\ world \in Worlds /\ run = 1 /\ made = Fresh
    /\ at = [r \in Records |-> IF r = Root THEN "going" ELSE "off"]
    /\ lines = [r \in Records |-> IF r = Root THEN {<<"began">>} ELSE {}]
    /\ mem = [r \in Records |-> IF r = Root THEN Fresh ELSE Absent]
    /\ states = [r \in Records |-> IF r = Root THEN <<Root>> ELSE <<>>]
    /\ closing = [r \in Records |-> <<>>]
    /\ saving = [r \in Records |-> Still] /\ beside = None
    /\ file = [e \in 1 .. Runs |-> None]
    /\ latest = Nothing /\ lost = {}

Saving == {r \in Records : saving[r].stage # "off"}

\* The process is there, and the thread that a flow runs on is in no save, nor opening or
\* closing another's record, in which nothing is awaited.
Free(r) ==
    /\ at[Root] # "killed"
    /\ \A q \in Saving : saving[q].by # Thread(r)
    /\ \A q \in Records \ {r} : Thread(q) = Thread(r) => at[q] \notin {"called", "closing", "ended"}

-----------------------------------------------------------------------------
(* A flow called by another, and the record it is written in.               *)

\* It is handed what it left behind, kept by the record that calls it, and then the call is
\* written in that record; which from a thread of a tool's own, where the record is read off
\* the agents, may have been closed since.
CallsFlow(c) ==
    /\ Free(c) /\ at[c] = "off"
    /\ at[Under(c)] \in {"going"} \cup IF Thread(c) = c THEN {"closing", "ended", "over"} ELSE {}
    /\ mem' = [mem EXCEPT ![c] = Resumed(Flow(c))]
    /\ states' = [states EXCEPT ![Under(c)] = Append(@, c)]
    /\ lines' = [lines EXCEPT ![Under(c)] = @ \cup {<<"called", c>>}]
    /\ at' = [at EXCEPT ![c] = "called"]
    /\ UNCHANGED <<world, run, closing, kept, file, made, latest, lost>>

Opens(c) ==
    /\ Free(c) /\ at[c] = "called"
    /\ lines' = [lines EXCEPT ![c] = @ \cup {<<"began">>}]
    /\ at' = [at EXCEPT ![c] = "going"]
    /\ UNCHANGED <<world, run, mem, states, closing, kept, file, made, latest, lost>>

\* A flow is over whether or not what it called is, but for the run's own, whose loop is over
\* when every task of it is.  Its record saves what was kept under it first.
Ends(r) ==
    /\ Free(r) /\ at[r] = "going"
    /\ r = Root => \A c \in Calls : Thread(c) = Root => at[c] \in {"off", "over"}
    /\ at' = [at EXCEPT ![r] = "closing"] /\ closing' = [closing EXCEPT ![r] = states[r]]
    /\ UNCHANGED <<world, run, lines, mem, states, kept, file, made, latest, lost>>

\* Sub.ended: its own closing line, and then the other end of the call.
FaultCloses(r) ==
    /\ Free(r) /\ at[r] = "closing" /\ closing[r] = <<>>
    /\ IF r = Root
       THEN /\ lines' = [lines EXCEPT ![r] = @ \cup {<<"ended">>}]
            /\ at' = [at EXCEPT ![r] = "over"]
       ELSE /\ lines' = [lines EXCEPT ![Under(r)] = @ \cup {<<"returned", r>>}]
            /\ at' = [at EXCEPT ![r] = "ended"]
    /\ UNCHANGED <<world, run, mem, states, closing, kept, file, made, latest, lost>>
Closes(r) ==
    /\ Free(r) /\ at[r] = "closing" /\ closing[r] = <<>>
    /\ lines' = [lines EXCEPT ![r] = @ \cup {<<"ended">>}]
    /\ at' = [at EXCEPT ![r] = IF r = Root THEN "over" ELSE "ended"]
    /\ UNCHANGED <<world, run, mem, states, closing, kept, file, made, latest, lost>>

Returns(c) ==
    /\ Free(c) /\ at[c] = "ended"
    /\ lines' = [lines EXCEPT ![Under(c)] = @ \cup {<<"returned", c>>}]
    /\ at' = [at EXCEPT ![c] = "over"]
    /\ UNCHANGED <<world, run, mem, states, closing, kept, file, made, latest, lost>>

-----------------------------------------------------------------------------
(* What a flow holds, and saving it.                                        *)

\* What is there already is read back, and this flow's put in the place of what it had.  A
\* State's lock keeps out another save of the same State, and no other.
Begin(r, thread, held) ==
    /\ saving[r].stage = "off"
    /\ saving' = [q \in Records |->
                    IF q = r
                    THEN [stage |-> "read", held |-> [Kept(run) EXCEPT ![Flow(r)] = held],
                          by |-> thread, alone |-> Saving = {}, into |-> "none"]
                    ELSE IF q \in Saving THEN [saving[q] EXCEPT !.alone = FALSE] ELSE saving[q]]
    /\ lost' = IF Saving = {} THEN lost ELSE Flows

\* A key set or deleted, or all of them cleared: saved at once.
Writes(r) ==
    /\ Free(r) /\ at[r] = "going" /\ made < Versions
    /\ made' = made + 1 /\ mem' = [mem EXCEPT ![r] = made + 1]
    /\ Begin(r, Thread(r), made + 1)
    /\ UNCHANGED <<world, run, at, lines, states, closing, beside, file, latest>>

\* A list it holds appended to, which no mapping can see.
Appends(r) ==
    /\ Free(r) /\ at[r] = "going" /\ made < Versions
    /\ made' = made + 1 /\ mem' = [mem EXCEPT ![r] = made + 1]
    /\ UNCHANGED <<world, run, at, lines, states, closing, kept, file, latest, lost>>

\* The record that is closing saves the next of those kept under it.
Saves(r) ==
    /\ Free(r) /\ at[r] = "closing" /\ closing[r] # <<>>
    /\ Begin(Head(closing[r]), Thread(r), mem[Head(closing[r])])
    /\ closing' = [closing EXCEPT ![r] = Tail(@)]
    /\ UNCHANGED <<world, run, at, lines, mem, states, beside, file, made, latest>>

Step(r, from) == saving[r].stage = from /\ at[Root] # "killed"

\* The file beside is made, or the one another save is making is emptied.
FaultBeside(r) ==
    /\ Step(r, "read")
    /\ saving' = [saving EXCEPT ![r].stage = "opened", ![r].into = "file"]
    /\ file' = [file EXCEPT ![run] = Empty]
    /\ UNCHANGED <<world, run, at, lines, mem, states, closing, beside, made, latest, lost>>
Beside(r) ==
    /\ Step(r, "read")
    /\ saving' = [saving EXCEPT ![r].stage = "opened", ![r].into = "beside"]
    /\ beside' = Empty
    /\ UNCHANGED <<world, run, at, lines, mem, states, closing, file, made, latest, lost>>

\* A file written: over what another save had written there, what is longer of that is left.
Put(was, held) == {Whole(held)} \cup IF was.is = "empty" THEN {} ELSE {Mixed}

\* It is written, wherever what was opened has been put since.
Fills(r) ==
    /\ Step(r, "opened")
    /\ saving' = [saving EXCEPT ![r].stage = "written"]
    /\ \/ /\ saving[r].into = "beside" /\ beside' \in Put(beside, saving[r].held)
          /\ UNCHANGED file
       \/ /\ saving[r].into = "file"
          /\ \E whole \in Put(file[run], saving[r].held) : file' = [file EXCEPT ![run] = whole]
          /\ UNCHANGED beside
       \/ saving[r].into = "gone" /\ UNCHANGED <<beside, file>>
    /\ UNCHANGED <<world, run, at, lines, mem, states, closing, made, latest, lost>>

\* And put in the place of the other, unless another save has put it there.
Replaces(r) ==
    LET moved == [beside |-> "file", file |-> "gone", gone |-> "gone", none |-> "none"] IN
    /\ Step(r, "written")
    /\ IF beside = None
       THEN /\ saving' = [saving EXCEPT ![r] = Still]
            /\ UNCHANGED <<beside, file, latest, lost>>
       ELSE /\ saving' = [q \in Records |-> IF q = r THEN Still
                                            ELSE [saving[q] EXCEPT !.into = moved[@]]]
            /\ file' = [file EXCEPT ![run] = beside] /\ beside' = None
            /\ latest' = [latest EXCEPT ![Flow(r)] = saving[r].held[Flow(r)]]
            /\ lost' = IF saving[r].alone THEN lost \ {Flow(r)} ELSE lost
    /\ UNCHANGED <<world, run, at, lines, mem, states, closing, made>>

-----------------------------------------------------------------------------
(* The run, killed where it is, and the next of them.                       *)

Dies ==
    /\ at[Root] \notin {"over", "killed"}
    /\ at' = [at EXCEPT ![Root] = "killed"]
    /\ UNCHANGED <<world, run, lines, mem, states, closing, kept, file, made, latest, lost>>

\* The process of a run that is over ends, whatever the threads of its tools are at.
Begins ==
    /\ at[Root] \in {"over", "killed"} /\ run < Runs
    /\ run' = run + 1 /\ Begun(Resumed(Flow(Root)))
    /\ UNCHANGED <<world, file, made, latest, lost>>

Next ==
    \/ Dies \/ Begins
    \/ \E r \in Records : Ends(r) \/ Closes(r) \/ Writes(r) \/ Appends(r) \/ Saves(r)
    \/ \E r \in Records : Beside(r) \/ Fills(r) \/ Replaces(r)
    \/ \E c \in Calls : CallsFlow(c) \/ Opens(c) \/ Returns(c)

Spec == Init /\ [][Next]_vars

-----------------------------------------------------------------------------
(* Properties.                                                              *)

Stages == {"off", "called", "going", "closing", "ended", "over", "killed"}
Lines == {<<"began">>, <<"ended">>} \cup ({"called", "returned"} \X Calls)
Savings ==
    [stage : {"off", "read", "opened", "written"}, held : [Flows -> Absent .. Versions],
     by : Records, alone : BOOLEAN, into : {"none", "beside", "file", "gone"}]
Contents == [is : {"none", "empty", "whole", "mixed"}, held : [Flows -> Absent .. Versions]]

TypeOK ==
    /\ world \in Worlds /\ run \in 1 .. Runs
    /\ at \in [Records -> Stages] /\ lines \in [Records -> SUBSET Lines]
    /\ mem \in [Records -> Absent .. Versions] /\ states \in [Records -> Seq(Records)]
    /\ closing \in [Records -> Seq(Records)]
    /\ saving \in [Records -> Savings]
    /\ beside \in Contents /\ file \in [1 .. Runs -> Contents]
    /\ made \in 1 .. Versions
    /\ latest \in [Flows -> Absent .. Versions] /\ lost \subseteq Flows

\* Whoever reads a run, going or killed, reads the tree of calls it was: a record is reached
\* from the one that called it, and a call its caller says is over says itself how it ended,
\* whichever of the two ended first.
ReadsBack ==
    \A c \in Calls :
        /\ lines[c] # {} => <<"called", c>> \in lines[Under(c)]
        /\ <<"returned", c>> \in lines[Under(c)] => <<"ended">> \in lines[c]

\* Each flow's next run carries on from the last of it that was saved, wherever this run was
\* killed and whatever other calls, of it or of other flows, have saved since, and from nothing
\* when that flow had emptied it ("saved as the flow writes it", "neither writes the other's",
\* specs/SPEC.md:663-673); until two saves on two threads meet, and of each flow again from its
\* next save that meets no other.
CarriesOn ==
    \A f \in Flows \ lost : Resumed(f) = IF latest[f] = Absent THEN Fresh ELSE latest[f]
=============================================================================
