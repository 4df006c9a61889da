--------------------------------- MODULE Turn ---------------------------------
(***************************************************************************)
(* One conversation's turns and everybody who may end them:                *)
(* SessionBase.stream, ._turning and ._falling_back with the command       *)
(* session's ._stream under them, against interrupt (a person or the       *)
(* watchdog), the budget's clock, close and AgentBase.stop, each on a      *)
(* thread of its own.  A turn that cannot be taken here is taken in the    *)
(* conversation of the agent standing in.                                  *)
(***************************************************************************)
EXTENDS Naturals

CONSTANTS Cutters,   \* calls of interrupt: a person's, or the watchdog's
          Clock,     \* the thread of the budget's timer, which cuts off as they do
          Stoppers,  \* calls of AgentBase.stop
          Closers,   \* calls of SessionBase.close by anybody else
          HasStandIn,\* whether an agent is written down to fall back to
          Worlds,   \* which of those calls there may be, and how many turns, in each world
          Offered,   \* the budgets a flow may hold a turn to
          Turns,     \* bound: how many turns the flow takes
          Tries,     \* bound: how many goes one place is given, over every account
          None

ASSUME BoundsAssumption == Turns \in Nat /\ Tries \in Nat \ {0} /\ HasStandIn \in BOOLEAN
ASSUME ClockAssumption == Clock \notin Cutters
ASSUME EndersAssumption == Stoppers \cap Closers = {}

Sides == {"own", "moved"}      \* this conversation, and the stand-in's it moves to
Budgets == [when : {"next-response", "immediately"}, then : {"end", "fail"}]
ASSUME OfferedAssumption == Offered \subseteq Budgets
ASSUME NoneAssumption == None \notin Budgets
Enders == Stoppers \cup Closers
Hands == Cutters \cup {Clock}
ASSUME WorldsAssumption ==
    Worlds \subseteq [calls : SUBSET (Hands \cup Enders), turns : 0..Turns]

VARIABLES
    at,       \* where the thread driving the turn has got to
    side,     \* whose conversation the turn is being taken in
    left,     \* goes left at this place
    turns,    \* turns opened
    fate,     \* what the turn came to, or "" while it is running
    working,  \* the conversations whose _working is set
    started, ended, moved,        \* _started, _ended, and _moved_to being there
    cut,      \* the conversations whose _cut is set
    over, wedged, capped, clock,  \* _over, _wedged, _capped, _clock
    stopped,  \* the sides whose agent is _stopped
    made,     \* whether the agent has made its stand-in yet
    mounted,  \* the conversations whose skills are down
    proc,     \* the command each conversation's turn runs in
    under,    \* the conversations whose _underway names it, so that somebody can end it
    hand,     \* how far each interrupt has got
    ender,    \* how far each stop and each close has got
    late      \* commands this conversation started once its agent was told to stop

flags == <<working, started, ended, moved>>
cuts == <<cut, over, wedged, capped, clock>>
places == <<stopped, made, mounted, late>>
procs == <<proc, under>>
others == <<hand, ender>>
walk == <<side, left, turns, fate>>
vars == <<at, walk, flags, cuts, places, procs, others>>

-----------------------------------------------------------------------------
(* Types.                                                                  *)

Places == {"idle", "opened", "allowed", "mounted", "begun", "trying", "waiting",
           "starting", "spawned", "registered", "reading", "failed", "spent",
           "moving", "answered", "asking", "raised", "ending", "closing", "leaving"}
Fates == {"", "result", "short", "failed", "unrecoverable", "stopped"}
Statuses == {"none", "running", "ok", "failed", "cut", "shut"}
HandStates == {"absent", "idle", "asked", "set", "ended", "done"}
EnderStates == {"absent", "idle", "closing", "shutting", "shut", "looking",
                "unmounting", "closed", "standing", "done"}

TypeOK ==
    /\ at \in Places /\ side \in Sides /\ left \in 0..Tries /\ turns \in 0..Turns
    /\ fate \in Fates
    /\ working \subseteq Sides /\ cut \subseteq Sides /\ stopped \subseteq Sides
    /\ mounted \subseteq Sides /\ under \subseteq Sides
    /\ started \in BOOLEAN /\ ended \in BOOLEAN /\ moved \in BOOLEAN
    /\ over \in BOOLEAN /\ wedged \in BOOLEAN /\ made \in BOOLEAN
    /\ capped \in Offered \cup {None}
    /\ clock \in {"off", "armed", "landing"}
    /\ proc \in [Sides -> Statuses]
    /\ hand \in [Hands -> HandStates]
    /\ ender \in [Enders -> EnderStates]
    /\ late \in Nat

Init ==
    /\ at = "idle" /\ side = "own" /\ left = 0 /\ fate = ""
    /\ working = {}
    /\ started = FALSE /\ ended = FALSE /\ moved = FALSE
    /\ cut = {} /\ over = FALSE /\ wedged = FALSE
    /\ capped = None /\ clock = "off"
    /\ stopped = {} /\ made = FALSE
    /\ mounted = {} /\ late = 0
    /\ proc = [s \in Sides |-> "none"] /\ under = {}
    /\ \E world \in Worlds :
         /\ turns = Turns - world.turns
         /\ hand = [h \in Hands |-> IF h \in world.calls THEN "idle" ELSE "absent"]
         /\ ender = [e \in Enders |-> IF e \in world.calls THEN "idle" ELSE "absent"]

-----------------------------------------------------------------------------
(* Helpers.                                                                *)

\* _cutting: why the turn now running is to stop short.  A budget is the conversation's
\* the flow is holding, so the stand-in's has none of its own.
Cutting(s) == s \in cut \/ (s = "own" /\ over)

\* _ends_command: the process _underway names, and nothing where it names none.
EndsCommand(s, how) ==
    /\ under' = under \ {s}
    /\ proc' = [proc EXCEPT ![s] = IF s \in under /\ @ = "running" THEN how ELSE @]

\* _short: what a turn that was cut off comes to.
ShortFate == IF over /\ capped # None /\ capped.then = "fail"
             THEN "unrecoverable" ELSE "short"

\* One step of the thread driving the turn.
Drives(from, to) == at = from /\ at' = to /\ UNCHANGED others

\* The turn has come to something: everything from here is the two `finally`s.
Comes(what) == fate' = what /\ UNCHANGED <<side, left, turns>>

-----------------------------------------------------------------------------
(* Faulty forms of the definitions below, each one a plausible edit.  The  *)
(* runs put them in place of the sound ones to show which property breaks. *)

\* The process is put where a cut-off reaches it, and the cut-off that came before it
\* was there is not looked for.
FaultRechecks ==
    /\ Drives("registered", "reading")
    /\ UNCHANGED <<walk, flags, cuts, places, procs>>

\* The turn that outlived the close of its conversation takes nothing away.
FaultLeaves ==
    /\ Drives("leaving", "idle")
    /\ UNCHANGED <<walk, flags, cuts, places, procs>>

\* A close does not ask whether anything is running.
FaultLooksBusy(e) ==
    /\ ender[e] = "looking"
    /\ ender' = [ender EXCEPT ![e] = "unmounting"]
    /\ UNCHANGED <<at, walk, flags, cuts, places, procs, hand>>

\* Another go is had without asking whether the agent was stopped.
FaultTakesGo ==
    /\ Drives("trying", IF left < Tries THEN "waiting" ELSE "starting")
    /\ UNCHANGED <<walk, flags, cuts, places, procs>>

\* Cutting a turn off says so and leaves the command to get to an end of its own.
FaultCuts(h) ==
    /\ hand[h] = "set"
    /\ hand' = [hand EXCEPT ![h] = "ended"]
    /\ UNCHANGED <<at, walk, flags, cuts, places, procs, ender>>

-----------------------------------------------------------------------------
(* The thread taking the turn.                                             *)

\* stream: under the session's lock, what ended the last turn is cleared.
Opens ==
    /\ turns < Turns
    /\ Drives("idle", "opened")
    /\ turns' = turns + 1 /\ side' = "own" /\ left' = Tries /\ fate' = ""
    /\ working' = working \cup {"own"}
    /\ cut' = cut \ {"own"} /\ over' = FALSE /\ wedged' = FALSE
    /\ UNCHANGED <<started, ended, moved, capped, clock, places, procs>>

\* _turning: refused where the agent has been stopped.
Asks ==
    /\ IF "own" \in stopped THEN Drives("opened", "closing") /\ Comes("stopped")
                         ELSE Drives("opened", "allowed") /\ UNCHANGED walk
    /\ UNCHANGED <<flags, cuts, places, procs>>

\* _mounts: a no-op for a session holding them already.
Mounts ==
    /\ Drives("allowed", "mounted")
    /\ mounted' = mounted \cup {"own"}
    /\ UNCHANGED <<walk, flags, cuts, stopped, made, late, procs>>

\* SESSION_START, said once, and USER_PROMPT_SUBMIT.
Begins ==
    /\ Drives("mounted", "begun")
    /\ started' = TRUE
    /\ UNCHANGED <<walk, working, ended, moved, cuts, places, procs>>

\* _budgeting: the budget the turn is held to is the one there is as it opens.  A prompt
\* a hook refused is answered by the hook.
Caps ==
    /\ \E b \in Offered \cup {None} :
         /\ capped' = b
         /\ clock' = IF b = None THEN "off" ELSE "armed"
    /\ \/ Drives("begun", "trying") /\ UNCHANGED walk
       \/ Drives("begun", "ending") /\ Comes("result")
    /\ UNCHANGED <<flags, cut, over, wedged, places, procs>>

\* _falling_back: every go asks first whether the agent was stopped, and waits where it
\* is not the first.
TakesGo ==
    /\ IF side \in stopped
         THEN Drives("trying", "ending") /\ Comes("stopped")
         ELSE Drives("trying", IF left < Tries THEN "waiting" ELSE "starting") /\ UNCHANGED walk
    /\ UNCHANGED <<flags, cuts, places, procs>>

Waits ==
    /\ Drives("waiting", "starting")
    /\ UNCHANGED <<walk, flags, cuts, places, procs>>

\* _stream: Popen, which a CLI that is not there fails.
Spawns ==
    /\ Drives("starting", "spawned")
    /\ left' = left - 1
    /\ proc' = [proc EXCEPT ![side] = "running"]
    /\ late' = IF side = "own" /\ "own" \in stopped THEN late + 1 ELSE late
    /\ UNCHANGED <<side, turns, fate, flags, cuts, stopped, made, mounted, under>>

NothingRan ==
    /\ Drives("starting", IF left > 1 THEN "trying" ELSE "spent")
    /\ left' = left - 1
    /\ UNCHANGED <<side, turns, fate, flags, cuts, places, procs>>

Registers ==
    /\ Drives("spawned", "registered")
    /\ under' = under \cup {side}
    /\ UNCHANGED <<walk, flags, cuts, places, proc>>

\* What arrived a moment early is acted on a moment late.
Rechecks ==
    /\ Drives("registered", "reading")
    /\ IF Cutting(side) THEN EndsCommand(side, "cut") ELSE UNCHANGED procs
    /\ UNCHANGED <<walk, flags, cuts, places>>

\* The command's streams have ended and its status has been waited for.
Reads ==
    /\ proc[side] # "running"
    /\ Drives("reading", IF proc[side] = "ok" THEN "answered" ELSE "failed")
    /\ under' = under \ {side}
    /\ UNCHANGED <<walk, flags, cuts, places, proc>>

\* A turn cut off is not one to take again, and nor is one that cannot come out
\* differently; any other is had another go at while there is one left.
Fails ==
    /\ \/ Drives("failed", "raised")
       \/ ~Cutting(side) /\ Drives("failed", IF left > 0 THEN "trying" ELSE "spent")
    /\ UNCHANGED <<walk, flags, cuts, places, procs>>

\* Nothing is left to try here: another agent, where one is written down and nothing in
\* front of the model keeps the turn where it is.
GivesUp ==
    /\ IF side \in stopped THEN Drives("spent", "ending") /\ Comes("stopped")
       ELSE Drives("spent", IF side = "own" /\ HasStandIn THEN "moving" ELSE "raised")
            /\ UNCHANGED walk
    /\ UNCHANGED <<flags, cuts, places, procs>>

\* stands_in, once per agent, and then _instead: the stand-in's conversation, its skills
\* and its own goes at the turn, by _falling_back and never by stream.
MakesStandIn ==
    /\ ~made
    /\ at = "moving" /\ UNCHANGED <<at, others>>
    /\ made' = TRUE
    /\ UNCHANGED <<walk, flags, cuts, stopped, mounted, late, procs>>

Moves ==
    /\ made
    /\ Drives("moving", "trying")
    /\ side' = "moved" /\ left' = Tries /\ moved' = TRUE
    /\ mounted' = mounted \cup {"moved"}
    /\ UNCHANGED <<turns, fate, working, started, ended, cuts, stopped, made, late, procs>>

\* _turning again: a turn that came back wrecked because somebody cut it off answers for
\* it, unless it was the watchdog; anything else is a turn that failed.
Catches ==
    /\ Drives("raised", "ending")
    /\ Comes(IF "own" \notin cut \/ wedged THEN "failed" ELSE ShortFate)
    /\ UNCHANGED <<flags, cuts, places, procs>>

\* The answer has landed: a turn to be cut off stops on it, with no hook asked.
Lands ==
    /\ IF Cutting("own") THEN Drives("answered", "ending") /\ Comes(ShortFate)
                         ELSE Drives("answered", "asking") /\ UNCHANGED walk
    /\ UNCHANGED <<flags, cuts, places, procs>>

\* The STOP hook, which may send the agent on: the goes and the places from the top.
Answers ==
    /\ Drives("asking", "ending")
    /\ Comes("result")
    /\ UNCHANGED <<flags, cuts, places, procs>>

SentOn ==
    /\ Drives("asking", "trying")
    /\ side' = "own" /\ left' = Tries
    /\ UNCHANGED <<turns, fate, flags, cuts, places, procs>>

\* _budgeted, in _turning's `finally`; then stream's.
Unbudgets ==
    /\ Drives("ending", "closing")
    /\ capped' = None /\ clock' = "off"
    /\ UNCHANGED <<walk, flags, cut, over, wedged, places, procs>>

Rests ==
    /\ Drives("closing", "leaving")
    /\ working' = working \ {"own"}
    /\ UNCHANGED <<walk, started, ended, moved, cuts, places, procs>>

Leaves ==
    /\ Drives("leaving", "idle")
    /\ mounted' = IF ended THEN mounted \ {"own"} ELSE mounted
    /\ UNCHANGED <<walk, flags, cuts, stopped, made, late, procs>>

Driver ==
    \/ Asks \/ Mounts \/ Begins \/ Caps \/ TakesGo \/ Waits \/ Spawns \/ NothingRan
    \/ Registers \/ Rechecks \/ Reads \/ Fails \/ GivesUp \/ MakesStandIn \/ Moves
    \/ Catches \/ Lands \/ Answers \/ SentOn \/ Unbudgets \/ Rests \/ Leaves

\* The backend ends its own turn, well or badly, or never.
Exits(s) ==
    /\ proc[s] = "running"
    /\ \E how \in {"ok", "failed"} : proc' = [proc EXCEPT ![s] = how]
    /\ UNCHANGED <<at, walk, flags, cuts, places, under, others>>

-----------------------------------------------------------------------------
(* Somebody cutting it off.                                                *)

Hand(h, from, to) ==
    /\ hand[h] = from
    /\ hand' = [hand EXCEPT ![h] = to]
    /\ UNCHANGED <<at, walk, flags, places, ender>>

\* interrupt: nothing for a conversation nothing is running in.  The watchdog says it was
\* the watchdog before it asks, and is there only while a command is being read.
Interrupts(h) ==
    /\ Hand(h, "idle", IF "own" \in working THEN "asked" ELSE "done")
    /\ UNCHANGED <<cuts, procs>>

Barks(h) ==
    /\ at = "reading" /\ side = "own"
    /\ Hand(h, "idle", "asked")
    /\ wedged' = TRUE
    /\ UNCHANGED <<cut, over, capped, clock, procs>>

Sets(h) ==
    /\ Hand(h, "asked", "set")
    /\ cut' = cut \cup {"own"}
    /\ UNCHANGED <<over, wedged, capped, clock, procs>>

Cuts(h) ==
    /\ Hand(h, "set", "ended")
    /\ EndsCommand("own", "cut")
    /\ UNCHANGED cuts

\* And the conversation this one moved to, asked as this one was.
CutsMoved(h) ==
    /\ Hand(h, "ended", "done")
    /\ IF moved /\ "moved" \in working
         THEN cut' = cut \cup {"moved"} /\ EndsCommand("moved", "cut")
         ELSE UNCHANGED <<cut, procs>>
    /\ UNCHANGED <<over, wedged, capped, clock>>

\* _checks: the budget is spent, on the clock's thread or as a response of the command's
\* is counted, and acts at once or waits for the answer being written.
RunsOut ==
    /\ clock = "armed" /\ capped # None /\ "own" \in working /\ ~over
    /\ over' = TRUE
    /\ \/ /\ capped.when = "immediately" \/ at = "reading"
          /\ Hand(Clock, "idle", IF "own" \in cut THEN "done" ELSE "asked")
          /\ UNCHANGED clock
       \/ /\ capped.when = "next-response"
          /\ clock' = "landing"
          /\ UNCHANGED <<at, walk, flags, places, others>>
    /\ UNCHANGED <<cut, wedged, capped, procs>>

\* The end of the wait for that answer.
Landed ==
    /\ clock = "landing" /\ capped # None /\ "own" \in working /\ "own" \notin cut
    /\ Hand(Clock, "idle", "asked")
    /\ clock' = "off"
    /\ UNCHANGED <<cut, over, wedged, capped, procs>>

Cutter(h) == (h \in Cutters /\ (Interrupts(h) \/ Barks(h))) \/ Sets(h) \/ Cuts(h) \/ CutsMoved(h)

-----------------------------------------------------------------------------
(* Somebody ending the conversation: AgentBase.stop and SessionBase.close. *)

End(e, from, to) ==
    /\ ender[e] = from
    /\ ender' = [ender EXCEPT ![e] = to]
    /\ UNCHANGED <<at, walk, cuts, hand>>

Stops(e) ==
    /\ End(e, "idle", "closing")
    /\ stopped' = stopped \cup {"own"}
    /\ UNCHANGED <<flags, made, mounted, late, procs>>

Closes(e) ==
    /\ End(e, "idle", "closing")
    /\ UNCHANGED <<flags, places, procs>>

\* SESSION_END, for a conversation that ever started, once.
EndsSession(e) ==
    /\ End(e, "closing", "shutting")
    /\ ended' = (ended \/ started)
    /\ UNCHANGED <<working, started, moved, places, procs>>

Shuts(e) ==
    /\ End(e, "shutting", "shut")
    /\ EndsCommand("own", "shut")
    /\ UNCHANGED <<flags, places>>

\* The conversation this one moved to is closed with it, and nothing is ever running in
\* that one as far as it knows.
ClosesMoved(e) ==
    /\ End(e, "shut", "looking")
    /\ IF moved
         THEN /\ EndsCommand("moved", "shut")
              /\ mounted' = mounted \ ({"moved"} \ working)
         ELSE UNCHANGED <<procs, mounted>>
    /\ UNCHANGED <<flags, stopped, made, late>>

\* What the turn is working by is not taken away underneath it.
LooksBusy(e) ==
    /\ End(e, "looking", IF "own" \in working THEN "closed" ELSE "unmounting")
    /\ UNCHANGED <<flags, places, procs>>

Unmounts(e) ==
    /\ End(e, "unmounting", "closed")
    /\ mounted' = mounted \ {"own"}
    /\ UNCHANGED <<flags, stopped, made, late, procs>>

\* stop goes on to the agent standing in, where there is one by now.
StopsStandIn(e) ==
    /\ End(e, "closed", IF e \in Stoppers /\ made THEN "standing" ELSE "done")
    /\ stopped' = IF e \in Stoppers /\ made THEN stopped \cup {"moved"} ELSE stopped
    /\ UNCHANGED <<flags, made, mounted, late, procs>>

ClosesStandIn(e) ==
    /\ End(e, "standing", "done")
    /\ EndsCommand("moved", "shut")
    /\ mounted' = mounted \ {"moved"}
    /\ UNCHANGED <<flags, stopped, made, late>>

Ender(e) ==
    \/ (e \in Stoppers /\ Stops(e)) \/ (e \in Closers /\ Closes(e))
    \/ EndsSession(e) \/ Shuts(e) \/ ClosesMoved(e) \/ LooksBusy(e) \/ Unmounts(e)
    \/ StopsStandIn(e) \/ ClosesStandIn(e)

-----------------------------------------------------------------------------
Next ==
    \/ Opens \/ Driver \/ RunsOut \/ Landed
    \/ \E s \in Sides : Exits(s)
    \/ \E h \in Hands : Cutter(h)
    \/ \E e \in Enders : Ender(e)

\* Threads that have something to do are run.  A backend owes nobody an answer, a flow
\* owes nobody another turn, and nobody has to cut anything off.
Spec ==
    /\ Init /\ [][Next]_vars
    /\ WF_vars(Driver)
    /\ \A h \in Hands : WF_vars(Sets(h) \/ Cuts(h) \/ CutsMoved(h))

-----------------------------------------------------------------------------
(* Properties.                                                             *)

Cutoff == \E h \in Hands : hand[h] \in {"asked", "set"}

\* Nobody has begun to close the conversation but by stopping its agent.
Unclosed == \A e \in Closers : ender[e] \in {"absent", "idle"}

\* A turn cut off is cut off wherever it has got to: once the reason is there and nobody is
\* still on the way to end something by it, no command of this conversation is being read
\* and still running (interrupt and the second look _stream takes at it).
CutReaches ==
    "own" \in cut /\ ~Cutoff /\ at = "reading" /\ side = "own" => proc["own"] # "running"

\* What the turn is working by is never taken away underneath it, however any stops and a
\* turn that is opening pass each other (_working, close).
StillMounted == Unclosed => (proc["own"] = "running" => "own" \in mounted)

\* What a conversation put in the workspace goes with it: closed after it had started, with
\* the close and the turn both over, nothing of it is down, whichever of the two was last.
NothingStaysMounted ==
    ended /\ at = "idle" /\ (\A e \in Enders : ender[e] \in {"absent", "idle", "done"})
        => "own" \notin mounted

\* A stopped agent takes no further turn: the go it was about to have is the last one, however
\* many are left at the place and whatever its hooks send it on with.
OneMoreAtMost == late <= 1

\* Cut off by somebody, a turn that is going on in this conversation ends or is moved to the
\* stand-in's, whether its backend ever says another word.
CutSettles == "own" \in cut /\ at # "idle" ~> at = "idle" \/ side = "moved"

=============================================================================
