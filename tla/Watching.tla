------------------------------ MODULE Watching ------------------------------
(***************************************************************************)
(* The watchdog over one conversation's goes: the thread each Watchdog     *)
(* ticks on, the thread reading the go, and whoever stops the clock while  *)
(* the go waits on something that is not its backend.  Every go has a      *)
(* watchdog of its own; the process it rides may outlive it and carry the  *)
(* next one, and a watchdog held up in a step may outlive it too.          *)
(***************************************************************************)
EXTENDS Integers

CONSTANTS Holders,  \* whoever may stop the clock
          Profiles, \* what a backend may be: restarts, shares, and rides a process here
          Silence,  \* _silence, in ticks
          Grants,   \* _GRANTS: windows a process burning CPU is given
          Goes,     \* bound: how many goes the conversation takes, one after another
          Hold      \* bound: how many ticks the clock is stopped for in one go

ASSUME WindowAssumption == Silence \in Nat \ {0} /\ Grants \in Nat
ASSUME BoundsAssumption == Goes \in Nat \ {0} /\ Hold \in Nat
ASSUME ProfilesAssumption ==
    Profiles \subseteq [restarts : BOOLEAN, shares : BOOLEAN, rides : BOOLEAN]

Watches == 1..Goes
Rungs == {"look", "interrupt", "drop", "kill", "spent"}
\* Where a ticking thread may be for longer than _STOPPING, so that the go's end stops waiting
\* for it: in an interrupt, telling whoever watches the turn or ending what holds it, inside
\* what is told of the ladder's steps, inside the letting go of a transport, and waiting for
\* what it killed.
Blocked == {"hearing", "asking", "saying", "letting", "killing", "reaping"}
Tickings == {"off", "waiting", "due", "climbing", "warned", "dropping"} \cup Blocked

VARIABLES
    profile,  \* what the backend is
    go,       \* the go being read, or the last one read
    phase,    \* where its thread has got to
    voice,    \* its backend: well, stuck for ever, or cut off
    fate,     \* what it came to
    rides,    \* the process each go rides, named for the go that started it, or 0
    alive,    \* the processes that are up
    wedged,   \* the session's _wedged
    verdict,  \* whether the _verdict of the go's own watchdog is written down
    quiet,    \* ticks since its _since, which may be in the future
    granted,  \* its _granted
    at,       \* _at: the rung each watchdog is on
    pc,       \* where its thread has got to
    doomed,   \* the process each ladder armed against, or 0
    woke,     \* whether the go's watchdog has looked at the clock since it last ticked
    holding,  \* each holder: out, in, or with _holds put back and _since not yet
    heldFor,  \* ticks since _held, while anybody holds
    lent,     \* times the clock was stopped in this go, and ticks it was stopped for
    act,      \* what the go's own watchdog last did to it: nothing, asked it, put it down, or
              \* found that its transport would not go down
    hurt      \* what has been done to a go by the watchdog of another

reading == <<go, phase, fate>>
session == <<rides, alive, wedged>>
clock == <<quiet, granted, woke>>
ladder == <<at, pc, doomed>>
hands == <<holding, heldFor>>
vars == <<profile, reading, voice, session, verdict, clock, ladder, hands, lent, act, hurt>>

ReadingOK ==
    /\ profile \in Profiles /\ go \in 0..Goes
    /\ phase \in {"idle", "reading", "leaving"}
    /\ voice \in {"well", "stuck", "cut"}
    /\ fate \in {"none", "answered", "short", "failed", "wedged"}
    /\ act \in {"none", "asked", "down", "balked"}
SessionOK == rides \in [Watches -> 0..Goes] /\ alive \subseteq Watches
SaidOK ==
    /\ wedged \in BOOLEAN /\ verdict \in BOOLEAN /\ woke \in BOOLEAN
    /\ hurt \subseteq {"asked", "cut", "down", "balked", "killed"}
ClockOK ==
    /\ quiet \in Int /\ granted \in 0..Grants /\ lent \in 0..Hold /\ heldFor \in Nat
    /\ holding \in [Holders -> {"out", "in", "going"}]
LadderOK ==
    /\ at \in [Watches -> Rungs] /\ pc \in [Watches -> Tickings]
    /\ doomed \in [Watches -> 0..Goes]

TypeOK == ReadingOK /\ SessionOK /\ SaidOK /\ ClockOK /\ LadderOK

Init ==
    /\ profile \in Profiles /\ go = 0 /\ phase = "idle" /\ voice = "well" /\ fate = "none"
    /\ rides = [w \in Watches |-> 0] /\ alive = {} /\ wedged = FALSE /\ verdict = FALSE
    /\ quiet = 0 /\ granted = 0 /\ woke = FALSE
    /\ at = [w \in Watches |-> "look"] /\ pc = [w \in Watches |-> "off"]
    /\ doomed = [w \in Watches |-> 0]
    /\ holding = [h \in Holders |-> "out"] /\ heldFor = 0
    /\ lent = 0 /\ act = "none" /\ hurt = {}

-----------------------------------------------------------------------------
(* Helpers.                                                                *)

Held == \E h \in Holders : holding[h] = "in"
Running == phase # "idle"

\* _done of a go's watchdog.
Done(w) == w < go \/ phase # "reading"

\* One step of a ticking thread.
Steps(w, from, to) ==
    /\ pc[w] = from /\ pc' = [pc EXCEPT ![w] = to]
    /\ UNCHANGED <<profile, reading, rides, hands, lent, woke>>

Rung(w, rung) == at' = [at EXCEPT ![w] = rung]

\* Nothing is done to any go.
Harmless == UNCHANGED <<voice, alive, act, hurt>>

\* This watchdog does something to the go that is running, which may not be its own by now.
Hurts(w, what) == hurt' = hurt \cup (IF Running /\ go # w THEN {what} ELSE {})
Does(w, what) == act' = (IF go = w THEN what ELSE act) /\ Hurts(w, what)

\* A process goes, and the read of whoever rides it with it.
Dies(p) ==
    /\ alive' = alive \ {p}
    /\ voice' = IF Running /\ rides[go] = p THEN "cut" ELSE voice

\* _verdicts: what the turn is to fail with, and that it is to fail.
Verdicts(w) == verdict' = (verdict \/ w = go) /\ wedged' = TRUE

-----------------------------------------------------------------------------
(* Faulty forms of the definitions below, each one a plausible edit.  The  *)
(* runs put them in place of the sound ones to show which property breaks. *)

\* The transport is put down without looking again at whether the turn ended meanwhile.
FaultPutsDown(w) ==
    /\ pc[w] = "saying" /\ Verdicts(w)
    /\ IF doomed[w] = 0
       THEN /\ \/ Does(w, "down") /\ voice' = "cut" /\ alive' = alive \ {rides[go]}
               \/ Does(w, "balked") /\ UNCHANGED <<voice, alive>>
            /\ Steps(w, "saying", "letting") /\ UNCHANGED at
       ELSE /\ Does(w, "down")
            /\ Dies(doomed[w]) \/ UNCHANGED <<alive, voice>>
            /\ Steps(w, "saying", "waiting") /\ Rung(w, "kill")
    /\ UNCHANGED <<quiet, granted, doomed>>

\* A process that took the polite signal and stayed is left to it.
FaultKills(w) ==
    /\ at[w] = "kill" /\ Steps(w, "climbing", "off") /\ Rung(w, "spent")
    /\ Harmless
    /\ UNCHANGED <<wedged, verdict, quiet, granted, doomed>>

\* The turn is said to be wedged once asking it to stop has come back.
FaultWarns(w) ==
    /\ at[w] = "interrupt" /\ Steps(w, "climbing", "warned")
    /\ Harmless
    /\ UNCHANGED <<wedged, verdict, quiet, granted, at, doomed>>

-----------------------------------------------------------------------------
(* The thread reading a go.                                                *)

\* __enter__: a go begins on the process the last one left up, or on one started anew.  Whoever
\* still holds the clock of the go before holds that one's, which nothing reads any more.
Begins ==
    LET w == go + 1 IN
    /\ phase = "idle" /\ go < Goes
    /\ go' = w /\ phase' = "reading" /\ voice' = "well" /\ fate' = "none"
    /\ wedged' = FALSE /\ verdict' = FALSE /\ act' = "none"
    /\ \E p \in IF ~profile.rides THEN {0}
                ELSE IF go > 0 /\ rides[go] \in alive THEN {rides[go], w} ELSE {w} :
         /\ rides' = [rides EXCEPT ![w] = p] /\ alive' = {p} \ {0}
    /\ pc' = [pc EXCEPT ![w] = "waiting"]
    /\ quiet' = 0 /\ granted' = 0 /\ woke' = TRUE
    /\ holding' = [h \in Holders |-> "out"] /\ heldFor' = 0
    /\ lent' = 0
    /\ UNCHANGED <<profile, at, doomed, hurt>>

\* saw: the backend said something, which is heard only before the ladder is climbed.
Saw ==
    /\ phase = "reading" /\ voice = "well" /\ at[go] = "look"
    /\ quiet' = 0 /\ granted' = 0
    /\ UNCHANGED <<profile, reading, voice, session, verdict, woke, ladder, hands>>
    /\ UNCHANGED <<lent, act, hurt>>

\* The backend says nothing more and ends nothing, for as long as it is left to.
Sticks ==
    /\ phase = "reading" /\ voice = "well" /\ voice' = "stuck"
    /\ UNCHANGED <<profile, reading, session, verdict, clock, ladder, hands, lent, act, hurt>>

\* The process dies of itself, and the read of it with it.
Crashes ==
    /\ phase = "reading" /\ rides[go] \in alive /\ Dies(rides[go])
    /\ UNCHANGED <<profile, reading, rides, wedged, verdict, clock, ladder, hands, lent>>
    /\ UNCHANGED <<act, hurt>>

\* The read is over: answered or failed, or cut off and so failed.  __exit__ says it is done.
Leaves ==
    /\ phase = "reading" /\ voice # "stuck" /\ phase' = "leaving"
    /\ fate' \in IF voice = "cut" THEN {"failed"} ELSE {"answered", "failed"}
    /\ UNCHANGED <<profile, go, voice, session, verdict, clock, ladder, hands, lent>>
    /\ UNCHANGED <<act, hurt>>

\* join: until the ticking thread has ended, or _STOPPING where it is held up.  What was
\* raised is the verdict where there is one; and a turn that was asked to stop, by nobody
\* who said it was wedged, is one cut off short.
Joins ==
    /\ phase = "leaving" /\ pc[go] \in Blocked \cup {"off"} /\ phase' = "idle" /\ voice' = "well"
    /\ fate' = CASE fate = "failed" /\ verdict -> "wedged"
                 [] fate = "failed" /\ ~verdict /\ act = "asked" /\ ~wedged -> "short"
                 [] OTHER -> fate
    /\ UNCHANGED <<profile, go, session, verdict, clock, ladder, hands, lent>>
    /\ UNCHANGED <<act, hurt>>

-----------------------------------------------------------------------------
(* Whoever stops the clock, under a lock of their own.                     *)

Moving == \E h \in Holders : holding[h] = "going"

\* held, on the way in: the first of them says since when.
Holds(h) ==
    /\ phase = "reading" /\ lent < Hold /\ holding[h] = "out" /\ ~Moving
    /\ holding' = [holding EXCEPT ![h] = "in"] /\ lent' = lent + 1
    /\ heldFor' = IF Held THEN heldFor ELSE 0
    /\ UNCHANGED <<profile, reading, voice, session, verdict, clock, ladder>>
    /\ UNCHANGED <<act, hurt>>

\* held, on the way out: one holder fewer, and where that was the last of them the clock is
\* still to be moved on by what was held.
LetsGo(h) ==
    /\ holding[h] = "in" /\ ~Moving
    /\ holding' = [holding EXCEPT ![h] =
                     IF \E o \in Holders \ {h} : holding[o] = "in" THEN "out" ELSE "going"]
    /\ UNCHANGED <<profile, reading, voice, session, verdict, clock, ladder, heldFor, lent>>
    /\ UNCHANGED <<act, hurt>>

\* The clock moved on, under the lock the ticking thread does not take.
MovesOn(h) ==
    /\ holding[h] = "going"
    /\ holding' = [holding EXCEPT ![h] = "out"] /\ heldFor' = 0
    /\ quiet' = quiet - heldFor
    /\ UNCHANGED <<profile, reading, voice, session, verdict, granted, woke, ladder>>
    /\ UNCHANGED <<lent, act, hurt>>

-----------------------------------------------------------------------------
(* The ticking thread of each watchdog.                                    *)

\* _done.wait answers that the turn is over.
Quits(w) ==
    /\ Done(w) /\ Steps(w, "waiting", "off") /\ Harmless
    /\ UNCHANGED <<wedged, verdict, quiet, granted, at, doomed>>

\* A tick has passed, and the window has or has not run out with it.
Wakes(w) ==
    /\ pc[w] = "waiting" /\ ~Done(w) /\ ~woke /\ woke' = TRUE
    /\ pc' = [pc EXCEPT ![w] = IF quiet >= Silence THEN "due" ELSE "waiting"]
    /\ Harmless
    /\ UNCHANGED <<profile, reading, rides, wedged, verdict, quiet, granted, at, doomed, hands>>
    /\ UNCHANGED lent

\* Somebody holds the clock; or the rung gets a window of its own, unless the turn has ended.
Climbs(w) ==
    /\ Steps(w, "due", IF Held THEN "waiting" ELSE IF Done(w) THEN "off" ELSE "climbing")
    /\ quiet' = IF Held THEN quiet ELSE 0
    /\ Harmless
    /\ UNCHANGED <<wedged, verdict, granted, at, doomed>>

\* _looked: the process is looked at before the turn is believed to be wedged.
Looks(w) ==
    /\ at[w] = "look" /\ Steps(w, "climbing", "waiting")
    /\ \/ /\ rides[w] \in alive /\ granted < Grants
          /\ granted' = granted + 1 /\ UNCHANGED at
       \/ /\ Rung(w, IF rides[w] # 0 /\ rides[w] \notin alive THEN "drop" ELSE "interrupt")
          /\ granted' = 0
    /\ Harmless
    /\ UNCHANGED <<wedged, verdict, quiet, doomed>>

\* _interrupted says that the turn is wedged before asking it to stop.
Warns(w) ==
    /\ at[w] = "interrupt" /\ Steps(w, "climbing", "warned")
    /\ wedged' = TRUE /\ Harmless
    /\ UNCHANGED <<verdict, quiet, granted, at, doomed>>

\* session.interrupt: why the turn is cut is put on it, and whoever watches it is being told.
Interrupts(w) ==
    /\ Steps(w, "warned", "hearing") /\ Does(w, "asked")
    /\ UNCHANGED <<voice, alive, wedged, verdict, quiet, granted, at, doomed>>

\* _cuts: the process the conversation is on by now is ended, where the session holds one of
\* its own, and with it the read of whichever go rides it.  Nothing is where it holds none, or
\* one it shares; or something raises.
Cuts(w) ==
    /\ \/ /\ profile.rides /\ ~profile.shares /\ go > 0 /\ Dies(rides[go])
          /\ Steps(w, "hearing", "asking") /\ Hurts(w, "cut")
       \/ /\ Steps(w, "hearing", "asking") \/ Steps(w, "hearing", "dropping")
          /\ UNCHANGED <<voice, alive, hurt>>
    /\ UNCHANGED <<act, wedged, verdict, quiet, granted, at, doomed>>

\* It came back, and the turn is to fail for it; or it raised, and the transport goes instead.
Asked(w) ==
    /\ \/ Steps(w, "asking", "waiting") /\ Verdicts(w) /\ Rung(w, "drop")
       \/ Steps(w, "asking", "dropping") /\ UNCHANGED <<verdict, wedged, at>>
    /\ Harmless
    /\ UNCHANGED <<quiet, granted, doomed>>

\* _dropped: what is to be put down, if anything may be, and the saying of it.
Drops(w) ==
    /\ pc[w] = "dropping" \/ at[w] = "drop"
    /\ IF profile.restarts
       THEN /\ \E from \in {"dropping", "climbing"} : Steps(w, from, "saying")
            /\ doomed' = [doomed EXCEPT ![w] = IF profile.shares THEN 0 ELSE rides[w]]
            /\ UNCHANGED at
       ELSE /\ \E from \in {"dropping", "climbing"} : Steps(w, from, "off")
            /\ Rung(w, "spent") /\ UNCHANGED doomed
    /\ Harmless
    /\ UNCHANGED <<wedged, verdict, quiet, granted>>

\* The turn ended while that was being said, or its transport is put down: by the session
\* where there is no process of this turn's own, which may raise with nothing put down and is
\* not asked whether it did, and otherwise by a signal it may not heed.
PutsDown(w) ==
    /\ IF Done(w)
       THEN /\ Steps(w, "saying", "off") /\ Rung(w, "spent")
            /\ Harmless /\ UNCHANGED <<wedged, verdict>>
       ELSE /\ Verdicts(w)
            /\ IF doomed[w] = 0
               THEN /\ \/ Does(w, "down") /\ voice' = "cut" /\ alive' = alive \ {rides[w]}
                       \/ Does(w, "balked") /\ UNCHANGED <<voice, alive>>
                    /\ Steps(w, "saying", "letting") /\ UNCHANGED at
               ELSE /\ Does(w, "down")
                    /\ Dies(doomed[w]) \/ UNCHANGED <<alive, voice>>
                    /\ Steps(w, "saying", "waiting") /\ Rung(w, "kill")
    /\ UNCHANGED <<quiet, granted, doomed>>

\* _lets_go came back.
LetGo(w) ==
    /\ Steps(w, "letting", "waiting") /\ Rung(w, "kill") /\ Harmless
    /\ UNCHANGED <<wedged, verdict, quiet, granted, doomed>>

\* _killed: nothing is left of what was asked to go, or that it did not is said.
Kills(w) ==
    /\ at[w] = "kill"
    /\ IF doomed[w] \in alive
       THEN Steps(w, "climbing", "killing") /\ UNCHANGED at
       ELSE Steps(w, "climbing", "off") /\ Rung(w, "spent")
    /\ Harmless
    /\ UNCHANGED <<wedged, verdict, quiet, granted, doomed>>

\* What was pinned is killed, whoever rides it by now.
Killed(w) ==
    /\ Steps(w, "killing", "reaping") /\ Dies(doomed[w])
    /\ act' = IF go = w THEN "down" ELSE act
    /\ IF Running /\ rides[go] = doomed[w] THEN Hurts(w, "killed") ELSE UNCHANGED hurt
    /\ UNCHANGED <<wedged, verdict, quiet, granted, at, doomed>>

\* proc.wait came back.
Reaped(w) ==
    /\ Steps(w, "reaping", "off") /\ Rung(w, "spent") /\ Harmless
    /\ UNCHANGED <<wedged, verdict, quiet, granted, doomed>>

Ticker(w) ==
    \/ Quits(w) \/ Wakes(w) \/ Climbs(w) \/ Looks(w) \/ Warns(w) \/ Interrupts(w) \/ Cuts(w)
    \/ Asked(w) \/ Drops(w) \/ PutsDown(w) \/ LetGo(w) \/ Kills(w) \/ Killed(w) \/ Reaped(w)

\* A tick passes once every thread that is free to has seen the last one.
Tick ==
    /\ phase = "reading" /\ ~Moving /\ (Held => lent < Hold)
    /\ pc[go] \in Blocked \cup {"off"} \/ (pc[go] = "waiting" /\ woke)
    /\ woke' = FALSE /\ quiet' = IF quiet < Silence + Hold THEN quiet + 1 ELSE quiet
    /\ heldFor' = IF Held THEN heldFor + 1 ELSE 0
    /\ lent' = IF Held THEN lent + 1 ELSE lent
    /\ UNCHANGED <<profile, reading, voice, session, verdict, granted, ladder, holding>>
    /\ UNCHANGED <<act, hurt>>

Next ==
    \/ Begins \/ Saw \/ Sticks \/ Crashes \/ Leaves \/ Joins \/ Tick
    \/ \E h \in Holders : Holds(h) \/ LetsGo(h) \/ MovesOn(h)
    \/ \E w \in Watches : Ticker(w)

Fairness ==
    /\ WF_vars(Tick) /\ WF_vars(Leaves) /\ WF_vars(Joins)
    /\ \A h \in Holders : WF_vars(LetsGo(h) \/ MovesOn(h))
    /\ \A w \in Watches : WF_vars(Ticker(w))

Spec == Init /\ [][Next]_vars /\ Fairness

-----------------------------------------------------------------------------
(* Properties.                                                             *)

\* A watchdog neither asks the go after its own to stop nor puts down what that go rides,
\* however long any step of it took and whoever waited for it.  Two things it began against its
\* own go may reach the next: the cutting off of whatever the conversation is on, by an
\* interrupt whose listeners outlasted the end of the go, and the killing of a process that was
\* asked to go and carried the next one instead.
HandsOff == hurt \subseteq {"cut", "killed"}

\* A go its watchdog cut off never passes for one that was cut off short, whose answer is
\* whatever the agent had said by then: it fails, wherever the watchdog has got to by the time
\* the reader is free.
NeverPassesForShort == fate # "short"

\* A go whose backend is stuck for ever ends, where its transport may be put down and does go
\* down when its session is told to.
StuckEnds == (voice = "stuck" /\ profile.restarts) ~> (phase = "idle" \/ act = "balked")
=============================================================================
