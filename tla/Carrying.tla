-------------------------------- MODULE Carrying -------------------------------
(***************************************************************************)
(* A run that is held, and the terminals that come and go: one thread      *)
(* between them (Held._carries in hmz.daemon.serve) that may wait on none   *)
(* of them, and the terminals' own ends (hmz.daemon.attach).  What is      *)
(* drawn goes out in frames, and a socket takes part of one as often as    *)
(* the whole: a frame here is two pieces.  Definitions named Fault... are   *)
(* plausible edits of the one they stand before, which the properties see.  *)
(***************************************************************************)
EXTENDS Naturals, Sequences, SequencesExt

CONSTANTS Terminals,  \* sockets, each of which connects once
          Askers,     \* those that may be a question instead of a terminal
          Draws,      \* how often the run draws of its own accord
          Room,       \* how many pieces a socket holds
          Backlog,    \* _BACKLOG, in pieces
          Keeps       \* _KEPT, in what one read of the pseudoterminal takes

ASSUME RoomAssumption == Room \in Nat /\ Backlog \in Nat /\ Keeps \in Nat
ASSUME WorkAssumption == Draws \in Nat /\ Askers \subseteq Terminals

VARIABLES
    pty,       \* whether the run has drawn what has not been read
    redraws,   \* the threads that are to have the run draw itself again
    chunk,     \* how many reads of the pseudoterminal there have been
    app,       \* how far whatever holds the run has got with closing it
    loop,      \* where the carrying thread is
    going,     \* _going
    todo,      \* _drew: the terminals it has yet to write what it read to
    reading,   \* _reading: off the list, or come, or joined, having said HELLO
    since,     \* what each of those is not to be sent, having come after it
    sending,   \* _Reading.sending
    letting,   \* _letting, with whether there is a reason to give
    kept,      \* _buffer
    spilled,   \* _spilled
    ever,      \* _ever
    listening, \* whether a terminal can connect
    waiting,   \* those that have connected and are not accepted yet
    closed,    \* the sockets closed at this end
    wire,      \* what each socket holds on its way to the terminal
    up,        \* what each holds on its way here
    at,        \* where each terminal has got to
    held,      \* Frames._held, at each terminal
    got,       \* what each terminal has drawn
    owed       \* those let go of with a reason, with nothing waiting for them

screen == <<pty, redraws, chunk>>
buffer == <<kept, spilled, ever>>
ends == <<listening, waiting, closed>>
theirs == <<at, held, got, since>>
carried == <<screen, app, loop, going, todo, reading, sending, letting, buffer, ends,
          wire, up, theirs, owed>>

CarryingInit ==
    /\ pty = FALSE /\ redraws = 0 /\ chunk = 0
    /\ app = "opening" /\ loop = "carrying" /\ going = TRUE /\ todo = {}
    /\ reading = [t \in Terminals |-> "off"] /\ since = [t \in Terminals |-> 0]
    /\ sending = [t \in Terminals |-> <<>>] /\ letting = {}
    /\ kept = <<>> /\ spilled = FALSE /\ ever = FALSE
    /\ listening = TRUE /\ waiting = {} /\ closed = {}
    /\ wire = [t \in Terminals |-> <<>>] /\ up = [t \in Terminals |-> <<>>]
    /\ at = [t \in Terminals |-> "away"] /\ held = [t \in Terminals |-> <<>>]
    /\ got = [t \in Terminals |-> <<>>]
    /\ owed = {}

-----------------------------------------------------------------------------
(* Helpers.                                                                *)

Frame(kind, of) == [kind |-> kind, of |-> of]
Halves(frame) == <<[frame |-> frame, half |-> 1], [frame |-> frame, half |-> 2]>>

\* What the output frames that end among these pieces have in them, in order.
Drawn(pieces) ==
    FlattenSeq([i \in DOMAIN pieces |->
                    IF pieces[i].half = 2 THEN pieces[i].frame.of ELSE <<>>])

\* A socket whose other end has gone refuses what is sent to it.
HasGone(t) == at[t] \notin {"reading", "asking"}

\* What a socket takes of what is offered, now.
Fits(t, offered) ==
    LET n == Room - Len(wire[t]) IN IF Len(offered) < n THEN Len(offered) ELSE n

Readers(list) == {t \in Terminals : list[t] = "joined"}

\* _drops: off the list as it is, and with no reason given.
Drops(t, list) ==
    /\ reading' = [list EXCEPT ![t] = "off"]
    /\ letting' = letting \cup {[who |-> t, why |-> FALSE]}
    /\ sending' = [sending EXCEPT ![t] = <<>>]
    /\ UNCHANGED wire

\* What a socket did not take is forgotten.
FaultPours(t, pieces, list) ==
    \/ HasGone(t) /\ Drops(t, list)
    \/ /\ ~HasGone(t)
       /\ wire' = [wire EXCEPT ![t] = @ \o SubSeq(pieces, 1, Fits(t, pieces))]
       /\ sending' = [sending EXCEPT ![t] = <<>>]
       /\ reading' = list /\ UNCHANGED letting

\* _sends, of what there is to send: all the socket will take.
Pours(t, pieces, list) ==
    \/ HasGone(t) /\ Drops(t, list)
    \/ /\ ~HasGone(t)
       /\ LET n == Fits(t, pieces)
          IN /\ wire' = [wire EXCEPT ![t] = @ \o SubSeq(pieces, 1, n)]
             /\ sending' = [sending EXCEPT ![t] = SubSeq(pieces, n + 1, Len(pieces))]
       /\ reading' = list /\ UNCHANGED letting

\* _writes: more than is worth keeping is a terminal to let go of. What is written to one
\* that has been let go of since is written nowhere.
Puts(t, frame, list) ==
    LET pieces == sending[t] \o Halves(frame)
    IN \/ list[t] # "off" /\ Len(pieces) > Backlog /\ Drops(t, list)
       \/ list[t] # "off" /\ Len(pieces) <= Backlog /\ Pours(t, pieces, list)
       \/ list[t] = "off" /\ reading' = list /\ UNCHANGED <<letting, sending, wire>>

\* _lets_go: everybody who has joined, with the reason.
LetsGoOf(list) ==
    LET who == Readers(list)
    IN /\ reading' = [t \in Terminals |-> IF t \in who THEN "off" ELSE list[t]]
       /\ letting' = letting \cup [who : who, why : {TRUE}]
       /\ sending' = [t \in Terminals |-> IF t \in who THEN <<>> ELSE sending[t]]
       /\ owed' = owed \cup {t \in who : sending[t] = <<>> /\ Len(wire[t]) + 2 <= Room}

\* _unlisten: whoever had not been accepted is cut off.
Unlistens ==
    /\ listening' = FALSE
    /\ waiting' = {} /\ closed' = closed \cup waiting

-----------------------------------------------------------------------------
(* The run, and whatever holds it.                                         *)

\* The first of what the interface draws: before it is up, there is nothing to draw again.
Opens ==
    /\ app = "opening" /\ app' = "running" /\ pty' = TRUE
    /\ UNCHANGED <<redraws, chunk, loop, going, todo, reading, sending, letting, buffer,
                   ends, wire, up, theirs, owed>>

DrawsMore ==
    /\ app = "running" /\ ~pty /\ chunk < Draws /\ pty' = TRUE
    /\ UNCHANGED <<redraws, chunk, app, loop, going, todo, reading, sending, letting, buffer,
                   ends, wire, up, theirs, owed>>

\* The hook of redrawn, on a thread of its own.
Redraws ==
    /\ app = "running" /\ ~pty /\ redraws > 0
    /\ pty' = TRUE /\ redraws' = redraws - 1
    /\ UNCHANGED <<chunk, app, loop, going, todo, reading, sending, letting, buffer, ends,
                   wire, up, theirs, owed>>

\* The interface lets go of whoever is reading, and the run goes on.
Detaches ==
    /\ app = "running" /\ LetsGoOf(reading)
    /\ UNCHANGED <<screen, app, loop, going, todo, buffer, ends, wire, up, theirs>>

\* The run is over: close, up to where the loop is told.
Closing ==
    /\ app \in {"opening", "running"} /\ app' = "letgone" /\ LetsGoOf(reading)
    /\ UNCHANGED <<screen, loop, going, todo, buffer, ends, wire, up, theirs>>

Stops ==
    /\ app = "letgone" /\ app' = "stopping" /\ going' = FALSE
    /\ UNCHANGED <<screen, loop, todo, reading, sending, letting, buffer, ends, wire, up,
                   theirs, owed>>

\* What the loop has to do waits on nothing, and a hook it asks for a status may: it is
\* waited for no longer than _PATIENCE, over or not, and then nobody can connect any more.
Unlistened ==
    /\ app = "stopping" /\ app' = "unlistened"
    /\ Unlistens
    /\ UNCHANGED <<screen, loop, going, todo, reading, sending, letting, buffer, wire, up,
                   theirs, owed>>

\* The process goes, with every socket it had and whatever its loop had yet to do.
Exits ==
    /\ app = "unlistened" /\ app' = "exited"
    /\ closed' = closed \cup {t \in Terminals : at[t] # "away"} /\ waiting' = {}
    /\ UNCHANGED <<screen, loop, going, todo, reading, sending, letting, buffer, listening,
                   wire, up, theirs, owed>>

-----------------------------------------------------------------------------
(* The carrying thread: one thing that is ready at a time.                 *)

Carrying == loop = "carrying" /\ todo = {}

\* What is drawn is for whoever is reading now; or, before anybody ever was, is kept.
Drew ==
    /\ Carrying /\ pty
    /\ pty' = FALSE /\ chunk' = chunk + 1
    /\ todo' = Readers(reading)
    /\ \/ (todo' # {} \/ ever \/ spilled) /\ UNCHANGED <<kept, spilled>>
       \/ /\ todo' = {} /\ ~ever /\ ~spilled
          /\ spilled' = (Len(kept) + 1 > Keeps)
          /\ kept' = IF spilled' THEN <<>> ELSE Append(kept, chunk')
    /\ UNCHANGED <<redraws, app, loop, going, reading, sending, letting, ever, ends, wire,
                   up, theirs, owed>>

\* A write that waits for the terminal to take all of it.
FaultWrites(t) ==
    /\ t \in todo /\ todo' = todo \ {t}
    /\ HasGone(t) \/ Len(wire[t]) + Len(sending[t]) + 2 <= Room
    /\ Puts(t, Frame("output", <<chunk>>), reading)
    /\ UNCHANGED <<screen, app, loop, going, buffer, ends, up, theirs, owed>>

\* One terminal after another, any of which may have been let go of since.
Writes(t) ==
    /\ t \in todo /\ todo' = todo \ {t}
    /\ Puts(t, Frame("output", <<chunk>>), reading)
    /\ UNCHANGED <<screen, app, loop, going, buffer, ends, up, theirs, owed>>

Sends(t) ==
    /\ Carrying /\ reading[t] # "off" /\ sending[t] # <<>>
    /\ HasGone(t) \/ Len(wire[t]) < Room
    /\ Pours(t, sending[t], reading)
    /\ UNCHANGED <<screen, app, loop, going, todo, buffer, ends, up, theirs, owed>>

Arrived(t) ==
    /\ Carrying /\ t \in waiting
    /\ waiting' = waiting \ {t} /\ reading' = [reading EXCEPT ![t] = "come"]
    /\ UNCHANGED <<screen, app, loop, going, todo, sending, letting, buffer,
                   listening, closed, wire, up, theirs, owed>>

\* What one socket said, a frame at a time.
Says(t, said) ==
    /\ Carrying /\ reading[t] # "off" /\ up[t] # <<>>
    /\ Head(up[t]) = said /\ up' = [up EXCEPT ![t] = Tail(@)]
    /\ UNCHANGED <<pty, chunk, app, loop, going, todo, listening, waiting, at, held, got>>

\* The screen drawn again for the first to come, and for nobody after it.
FaultJoins(t) ==
    /\ Says(t, "hello")
    /\ ever' = TRUE /\ kept' = <<>>
    /\ LET list == [reading EXCEPT ![t] = "joined"]
       IN \/ /\ kept # <<>>
             /\ Puts(t, Frame("output", kept), list) /\ UNCHANGED since
          \/ /\ kept = <<>>
             /\ since' = [since EXCEPT ![t] = chunk]
             /\ reading' = list /\ UNCHANGED <<letting, sending, wire>>
    /\ redraws' = IF ever \/ app = "opening" THEN redraws ELSE redraws + 1
    /\ UNCHANGED <<spilled, closed, owed>>

\* The first to come is given what was drawn before it; and the run is to draw itself again,
\* where it is up to say how.
Joins(t) ==
    /\ Says(t, "hello")
    /\ ever' = TRUE /\ kept' = <<>>
    /\ LET list == [reading EXCEPT ![t] = "joined"]
       IN \/ /\ kept # <<>>
             /\ Puts(t, Frame("output", kept), list) /\ UNCHANGED since
          \/ /\ kept = <<>>
             /\ since' = [since EXCEPT ![t] = chunk]
             /\ reading' = list /\ UNCHANGED <<letting, sending, wire>>
    /\ redraws' = IF app = "opening" THEN redraws ELSE redraws + 1
    /\ UNCHANGED <<spilled, closed, owed>>

\* A question is answered and its socket closed; this one is to let go of who is reading.
AnswersDetach(t) ==
    /\ Says(t, "detach")
    /\ LetsGoOf([reading EXCEPT ![t] = "off"])
    /\ wire' = [wire EXCEPT ![t] = @ \o SubSeq(Halves(Frame("answer", <<>>)), 1,
                                               Fits(t, Halves(Frame("answer", <<>>))))]
    /\ closed' = closed \cup {t}
    /\ UNCHANGED <<redraws, buffer, since>>

\* It has nothing more to say, having gone.
HangsUp(t) ==
    /\ Carrying /\ reading[t] # "off" /\ up[t] = <<>> /\ HasGone(t)
    /\ reading' = [reading EXCEPT ![t] = "off"] /\ closed' = closed \cup {t}
    /\ UNCHANGED <<screen, app, loop, going, todo, sending, letting, buffer,
                   listening, waiting, wire, up, theirs, owed>>

\* _closes, at the end of a round: why, as far as the socket takes it, and no more of it.
Closes(one) ==
    /\ loop # "over" /\ todo = {}
    /\ one \in letting
    /\ letting' = letting \ {one}
    /\ LET gone == Halves(Frame("gone", <<>>))
       IN wire' = IF one.why /\ ~HasGone(one.who)
                  THEN [wire EXCEPT ![one.who] = @ \o SubSeq(gone, 1, Fits(one.who, gone))]
                  ELSE wire
    /\ closed' = closed \cup {one.who}
    /\ UNCHANGED <<screen, app, loop, going, todo, reading, sending, buffer, listening,
                   waiting, up, theirs, owed>>

\* Too many rounds gone wrong: nothing can be carried any more.
GivesUpCarrying ==
    /\ Carrying /\ app # "exited"
    /\ going' = FALSE /\ loop' = "ending"
    /\ LetsGoOf(reading) /\ Unlistens
    /\ UNCHANGED <<screen, app, todo, buffer, wire, up, theirs>>

Ends ==
    /\ Carrying /\ ~going /\ loop' = "ending"
    /\ UNCHANGED <<screen, app, going, todo, reading, sending, letting, buffer, ends, wire,
                   up, theirs, owed>>

Over ==
    /\ loop = "ending" /\ letting = {} /\ loop' = "over"
    /\ UNCHANGED <<screen, app, going, todo, reading, sending, letting, buffer, ends, wire,
                   up, theirs, owed>>

Loop ==
    /\ app # "exited"
    /\ \/ Drew \/ Ends \/ Over
       \/ \E t \in Terminals : \/ Writes(t) \/ Sends(t) \/ Arrived(t) \/ Joins(t)
                               \/ AnswersDetach(t) \/ HangsUp(t)
       \/ \E one \in letting : Closes(one)

-----------------------------------------------------------------------------
(* The terminals.                                                          *)

Dials(t, what) ==
    /\ at[t] = "away" /\ listening
    /\ waiting' = waiting \cup {t}
    /\ at' = [at EXCEPT ![t] = IF what = "hello" THEN "reading" ELSE "asking"]
    /\ up' = [up EXCEPT ![t] = <<what>>]
    /\ UNCHANGED <<screen, app, loop, going, todo, reading, sending, letting, buffer,
                   listening, closed, wire, held, got, since, owed>>

\* The end of _pumps, which closes the socket and has no more use for what is on it.
Ended(t, how) ==
    /\ at' = [at EXCEPT ![t] = how]
    /\ wire' = [wire EXCEPT ![t] = <<>>] /\ held' = [held EXCEPT ![t] = <<>>]
    /\ got' = [got EXCEPT ![t] = <<>>] /\ since' = [since EXCEPT ![t] = 0]

\* A key or a new size goes to the run without waiting and changes nothing here, except at a
\* socket that has been closed: there it ends the reading with nothing said of why, whatever
\* is still on the wire.
Types(t) ==
    /\ at[t] = "reading" /\ t \in closed /\ Ended(t, "broken")
    /\ UNCHANGED <<screen, app, loop, going, todo, reading, sending, letting, buffer, ends,
                   up, owed>>

\* What has arrived, fed to Frames: the frames that are whole, from the start of it, and the
\* rest, which is held. What does not complete the frame it is in is taken for more of it.
Reads(t) ==
    /\ at[t] \in {"reading", "asking"} /\ wire[t] # <<>>
    /\ LET fed == held[t] \o wire[t]
           n == CHOOSE n \in 0..(Len(fed) \div 2) :
                    /\ \A i \in 1..n : SubSeq(fed, 2 * i - 1, 2 * i) = Halves(fed[2 * i].frame)
                    /\ \/ n = Len(fed) \div 2
                       \/ SubSeq(fed, 2 * n + 1, 2 * n + 2) # Halves(fed[2 * n + 2].frame)
       IN \/ /\ \E i \in 1..n : fed[2 * i].frame.kind # "output"
             /\ Ended(t, "over")
          \/ /\ \A i \in 1..n : fed[2 * i].frame.kind = "output"
             /\ held' = [held EXCEPT ![t] = SubSeq(fed, 2 * n + 1, Len(fed))]
             /\ got' = [got EXCEPT ![t] = @ \o Drawn(SubSeq(fed, 1, 2 * n))]
             /\ wire' = [wire EXCEPT ![t] = <<>>] /\ UNCHANGED <<at, since>>
    /\ UNCHANGED <<screen, app, loop, going, todo, reading, sending, letting, buffer, ends,
                   up, owed>>

\* The end of the stream, which says nothing of why.
SeesEnd(t) ==
    /\ at[t] \in {"reading", "asking"} /\ wire[t] = <<>> /\ t \in closed
    /\ Ended(t, "untold")
    /\ UNCHANGED <<screen, app, loop, going, todo, reading, sending, letting, buffer, ends,
                   up, owed>>

Leaves(t) ==
    /\ at[t] \in {"reading", "asking"} /\ Ended(t, "over")
    /\ UNCHANGED <<screen, app, loop, going, todo, reading, sending, letting, buffer, ends,
                   up, owed>>

Terminal(t) ==
    \/ Dials(t, "hello")
    \/ t \in Askers /\ Dials(t, "detach")
    \/ Types(t) \/ Reads(t) \/ SeesEnd(t) \/ Leaves(t)

CarryingNext ==
    \/ Opens \/ DrawsMore \/ Redraws \/ Detaches \/ Closing \/ Stops \/ Unlistened \/ Exits
    \/ Loop \/ GivesUpCarrying \/ \E t \in Terminals : Terminal(t)

CarryingSpec ==
    /\ CarryingInit /\ [][CarryingNext]_carried
    /\ WF_carried(app # "exited" /\ (Drew \/ \E t \in Terminals : Writes(t)))
    /\ WF_carried(Loop)

-----------------------------------------------------------------------------
(* Properties.                                                             *)

\* What a terminal that is reading has drawn, what has arrived at it and what waits for it are
\* together everything the run drew since it came, once and in order, with what was kept for it
\* from before where it was the first: a socket that takes half a frame, a terminal let go of
\* beside it and one that arrives in between lose nothing and say nothing twice.
InOrder ==
    \A t \in {r \in Readers(reading) : at[r] = "reading"} :
        got[t] \o Drawn(held[t] \o wire[t] \o sending[t])
            = [i \in 1..((IF t \in todo THEN chunk - 1 ELSE chunk) - since[t]) |-> since[t] + i]

\* A terminal the run lets go of, one that had taken all there was for it and has room for a
\* goodbye, finds the goodbye on its socket before the end of it: whichever thread let go of it,
\* and whatever the loop was in the middle of or came out of, unless the process went without
\* the loop. It reads why, if it goes on reading: what it types at a closed socket stops it.
Told ==
    \A t \in owed : at[t] = "untold" => app = "exited" /\ loop # "over"

\* What the run draws is taken out of the pseudoterminal as long as anything is carried at all,
\* whatever the terminals do: one that has stopped reading does not stop the run.
RunDraws == (pty /\ going) ~> (~pty \/ ~going \/ app = "exited")

\* Whoever reads a run that goes on and has been sent nothing yet has something coming, even
\* where the run has nothing more to draw of its own: the screen is being drawn again.
Shown ==
    \A t \in Readers(reading) :
        \/ app # "running" \/ redraws > 0 \/ pty \/ t \in todo \/ at[t] # "reading"
        \/ got[t] # <<>> \/ held[t] \o wire[t] \o sending[t] # <<>>
=============================================================================
