------------------------------- MODULE Server -------------------------------
(***************************************************************************)
(* The app servers of one Codex agent: the list the agent keeps of them,   *)
(* the conversations that take their turns on them, the thread that reads  *)
(* what each of them says and hands it on, and what puts them down.  The   *)
(* server is a program of somebody else's: what it may say, and when it    *)
(* may go, is all that is stated of it.                                    *)
(***************************************************************************)
EXTENDS Integers, Sequences, SequencesExt

CONSTANTS Sessions, \* the agent's conversations
          Worlds,   \* which of them are picked up from a run before, how many turns each
                    \* takes, and what may befall them, in each world
          Turns,    \* bound: the most turns any of them takes
          Starts,   \* bound: servers the agent starts
          Room,     \* bound: what a server may have written that nobody has read
          Asks      \* bound: things each server asks of us that a flow answers nothing to

ASSUME BoundsAssumption ==
    Turns \in Nat /\ Starts \in Nat /\ Asks \in Nat
    /\ Room \in Nat
ASSUME WorldsAssumption ==
    Worlds \subseteq [picked : SUBSET Sessions, turns : [Sessions -> 0..Turns],
                      may : SUBSET {"move", "stop", "wedge", "die", "leave", "ask", "refuse"}]

Servers == 1..Starts
NoServer == 0
\* A conversation's thread, named for the turn that opened it; turn 0 is a run before.
Threads == Sessions \X (0..Turns)
NoThread == <<>>
Doings == {"idle", "going", "starting", "joined", "holding", "opening", "open", "reading"}
\* Where a reader of the stream has said that its messages go.
Reading == {"starting", "opening", "reading"}

VARIABLES
    world,   \* which of the worlds this is
    knows,   \* what a server started now would know: the account, the flow's callbacks
    servers, \* the agent's _servers
    stopped, \* whether the agent has been told to stop, and has put its servers down
    doomed,  \* the servers a _down has taken off the list and not stopped yet
    adrift,  \* those let go of otherwise, which is remembered for the properties alone
    up,      \* the servers that are running
    begun,   \* how many have been started
    knew,    \* what each was started knowing
    turns,   \* each one's _turns
    holding, \* each one's _holding: the threads it has open
    wire,    \* what each has said and nobody has read
    pump,    \* the thread reading it: off, reading, told everybody it has gone, raised
    asked,   \* the calls each has been made and has not answered
    working, \* the turns each is running, and whether it has said a word of them
    wants,   \* how many things each has asked of us
    doing,   \* where each conversation's turn has got to
    took,    \* how many turns it has taken
    on,      \* the server its turn is on, or its last one was
    thread,  \* the thread its turn is on
    id,      \* the thread it is, once a turn has landed
    box,     \* its reader's mailbox
    heard,   \* the turn whose words its reader last read, or none of them
    left     \* whether a turn of it has been left while the server ran it

agent == <<knows, servers, stopped, doomed, adrift, begun>>
process == <<up, knew, asked, working, wants>>
stream == <<wire, pump>>
books == <<turns, holding>>
session == <<doing, took, on, thread, id, box, heard, left>>
vars == <<world, agent, process, stream, books, session>>

-----------------------------------------------------------------------------
(* Messages and calls.                                                     *)

\* A call is named for the conversation, its turn, and what it asks for; a turn is asked for
\* on its thread, and a thread by its name where it has one.
Call(s, what) ==
    [by |-> s, turn |-> took[s], for |-> what, on |-> IF what = "turn" THEN thread[s] ELSE id[s]]
Calls == [by : Sessions, turn : 0..Turns, for : {"initialize", "thread", "turn"},
          on : Threads \cup {NoThread}]
\* The thread that a call for one opens: a new one, or the one picked up.
Opened(call) == IF call.on = NoThread THEN <<call.by, call.turn>> ELSE call.on
Nobody == [by |-> "nobody", turn |-> 0, for |-> "none", on |-> NoThread]

Message(kind, to, of, turn) == [kind |-> kind, to |-> to, of |-> of, turn |-> turn]
Answer(call, ok) == Message(IF ok THEN "answer" ELSE "refusal", call, NoThread, 0)
Said(kind, of, turn) == Message(kind, Nobody, of, turn)
\* A line cut off by the end of what was writing it, something asked of us, a word that names
\* no thread, and the end.
Cut == Said("cut", NoThread, 0)
Want == Said("want", NoThread, 0)
Note == Said("note", NoThread, 0)
End == Said("end", NoThread, 0)
Messages == [kind : {"answer", "refusal", "word", "done", "failed", "idle", "cut", "want",
                     "note", "end"},
             to : Calls \cup {Nobody}, of : Threads \cup {NoThread}, turn : 0..Turns]

\* What each reader of a server's stream is waiting on an answer to.
Asking(s) == Call(s, CASE doing[s] = "starting" -> "initialize"
                       [] doing[s] = "opening" -> "thread"
                       [] doing[s] = "reading" -> "turn")

\* The turns that a server's stream is read for, as its _listening has them.
Listening(v) == {s \in Sessions : doing[s] = "reading" /\ on[s] = v}

\* Who a message belongs to: the call it answers, or the turn of the thread it names, or where
\* it names none the one turn reading, if it is the only one.
Belongs(m, s) ==
    \/ m.kind \in {"answer", "refusal"} /\ m.to = Asking(s)
    \/ m.kind \in {"word", "done", "failed", "idle"} /\ doing[s] = "reading" /\ m.of = thread[s]
    \/ m = Note /\ Listening(on[s]) = {s}

Readers(v) == {s \in Sessions : doing[s] \in Reading /\ on[s] = v}

AgentOK ==
    /\ world \in Worlds /\ knows \in 0..1 /\ servers \subseteq Servers
    /\ stopped \in {"no", "said", "done"} /\ doomed \subseteq Servers /\ adrift \subseteq Servers
    /\ up \subseteq Servers /\ begun \in 0..Starts
ServersOK ==
    /\ knew \in [Servers -> 0..1] /\ turns \in [Servers -> Nat]
    /\ holding \in [Servers -> SUBSET Threads] /\ wire \in [Servers -> Seq(Messages)]
    /\ pump \in [Servers -> {"off", "reading", "told", "raised"}]
    /\ asked \in [Servers -> SUBSET Calls] /\ wants \in [Servers -> Nat]
    /\ working \in [Servers -> SUBSET ((Threads \cup {NoThread}) \X (0..Turns) \X BOOLEAN)]
SessionsOK ==
    /\ doing \in [Sessions -> Doings] /\ took \in [Sessions -> 0..Turns]
    /\ on \in [Sessions -> 0..Starts] /\ thread \in [Sessions -> Threads \cup {NoThread}]
    /\ id \in [Sessions -> Threads \cup {NoThread}] /\ box \in [Sessions -> Seq(Messages)]
    /\ heard \in [Sessions -> 0..Turns] /\ left \in [Sessions -> BOOLEAN]
TypeOK == AgentOK /\ ServersOK /\ SessionsOK

Init ==
    /\ knows = 0 /\ servers = {} /\ stopped = "no" /\ doomed = {} /\ adrift = {} /\ up = {}
    /\ begun = 0
    /\ knew = [v \in Servers |-> 0] /\ turns = [v \in Servers |-> 0]
    /\ holding = [v \in Servers |-> {}] /\ wire = [v \in Servers |-> <<>>]
    /\ pump = [v \in Servers |-> "off"] /\ asked = [v \in Servers |-> {}]
    /\ working = [v \in Servers |-> {}] /\ wants = [v \in Servers |-> 0]
    /\ doing = [s \in Sessions |-> "idle"] /\ took = [s \in Sessions |-> 0]
    /\ on = [s \in Sessions |-> NoServer] /\ thread = [s \in Sessions |-> NoThread]
    /\ world \in Worlds
    /\ id = [s \in Sessions |-> IF s \in world.picked THEN <<s, 0>> ELSE NoThread]
    /\ box = [s \in Sessions |-> <<>>] /\ heard = [s \in Sessions |-> 0]
    /\ left = [s \in Sessions |-> FALSE]

Goes(s, to) == doing' = [doing EXCEPT ![s] = to]

\* The turn is over, however it ended: the server is handed back.
Over(s) ==
    /\ Goes(s, "idle") /\ box' = [box EXCEPT ![s] = <<>>] /\ heard' = [heard EXCEPT ![s] = 0]
    /\ turns' = [turns EXCEPT ![on[s]] = IF @ > 0 THEN @ - 1 ELSE 0]
    /\ thread' = [thread EXCEPT ![s] = NoThread]

-----------------------------------------------------------------------------
(* Faulty forms of the definitions below, each one a plausible edit.  The  *)
(* runs put them in place of the sound ones to show which property breaks. *)

\* A reader is not told that the stream had ended before it came to read it.
FaultWritten(s, v, call) ==
    /\ asked' = IF v \in up THEN [asked EXCEPT ![v] = @ \cup {call}] ELSE asked
    /\ box' = [box EXCEPT ![s] = <<>>]

\* A turn is taken on the first server that is idle, wherever its conversation was opened.
FaultTakes(s) ==
    LET kept == {v \in servers : knew[v] = knows}
        idle == {v \in kept : turns[v] = 0}
        new == begun + 1 IN
    /\ doing[s] = "going" /\ servers' = kept /\ adrift' = adrift \cup (servers \ kept)
    /\ \/ /\ \E v \in idle : turns' = [turns EXCEPT ![v] = @ + 1] /\ on' = [on EXCEPT ![s] = v]
          /\ Goes(s, "holding")
          /\ UNCHANGED <<begun, up, knew, asked, pump, box>>
       \/ /\ idle = {} /\ new \in Servers
          /\ begun' = new /\ up' = up \cup {new} /\ knew' = [knew EXCEPT ![new] = knows]
          /\ pump' = [pump EXCEPT ![new] = "reading"] /\ on' = [on EXCEPT ![s] = new]
          /\ asked' = [asked EXCEPT ![new] = {Call(s, "initialize")}]
          /\ box' = [box EXCEPT ![s] = <<>>] /\ Goes(s, "starting")
          /\ UNCHANGED turns
    /\ UNCHANGED <<world, knows, stopped, doomed, working, wants, wire, holding>>
    /\ UNCHANGED <<took, thread, id, heard, left>>

\* A server that answers after the agent was stopped is not put on the list.
FaultJoins(s) ==
    /\ doing[s] = "starting" /\ box[s] # <<>>
    /\ IF Head(box[s]).kind = "answer"
       THEN /\ servers' = IF stopped = "no" THEN servers \cup {on[s]} ELSE servers
            /\ Goes(s, "joined") /\ UNCHANGED <<on, adrift>>
       ELSE /\ Goes(s, "idle") /\ on' = [on EXCEPT ![s] = NoServer]
            /\ adrift' = adrift \cup {on[s]} /\ UNCHANGED servers
    /\ box' = [box EXCEPT ![s] = <<>>]
    /\ UNCHANGED <<world, knows, stopped, doomed, begun, process, stream, books>>
    /\ UNCHANGED <<took, thread, id, heard, left>>

\* A thread fallen idle ends a turn whether or not it has begun.
FaultReads(s) ==
    LET m == Head(box[s])
        ends == m.kind \in {"refusal", "failed", "end", "idle"} IN
    /\ doing[s] = "reading" /\ box[s] # <<>>
    /\ IF ends
       THEN /\ Over(s)
            /\ id' = IF m.kind = "idle" THEN [id EXCEPT ![s] = thread[s]] ELSE id
       ELSE /\ box' = [box EXCEPT ![s] = Tail(@)]
            /\ heard' = IF m.kind \in {"word", "done"} THEN [heard EXCEPT ![s] = m.turn] ELSE heard
            /\ UNCHANGED <<doing, turns, thread, id>>
    /\ UNCHANGED <<world, agent, process, stream, holding, took, on, left>>

\* What a server says that answers nothing is handed to everybody reading a turn.
FaultPumps(v) ==
    LET m == Head(wire[v]) IN
    /\ pump[v] = "reading" /\ wire[v] # <<>>
    /\ box' = [s \in Sessions |->
                  IF /\ s \in Readers(v)
                     /\ Belongs(m, s) \/ (m.to = Nobody /\ doing[s] = "reading")
                  THEN Append(box[s], m) ELSE box[s]]
    /\ IF m = Cut \/ (m = Want /\ v \notin up)
       THEN pump' = [pump EXCEPT ![v] = "raised"] /\ wire' = [wire EXCEPT ![v] = <<>>]
       ELSE wire' = [wire EXCEPT ![v] = Tail(@)] /\ UNCHANGED pump
    /\ UNCHANGED <<world, agent, process, books, doing, took, on, thread, id, heard, left>>

-----------------------------------------------------------------------------
(* A conversation's turn.                                                  *)

\* A turn of an agent that has not been stopped; nothing asks that again before it is taken.
SetsOut(s) ==
    /\ doing[s] = "idle" /\ took[s] < world.turns[s] /\ stopped = "no"
    /\ took' = [took EXCEPT ![s] = @ + 1] /\ Goes(s, "going")
    /\ UNCHANGED <<world, agent, process, stream, books, on, thread, id, box, heard, left>>

\* A call written to a server, which one that has gone may still seem to take.  A reader that
\* came after its stream had ended is told so at once.
Written(s, v, call) ==
    /\ asked' = IF v \in up THEN [asked EXCEPT ![v] = @ \cup {call}] ELSE asked
    /\ box' = [box EXCEPT ![s] = IF pump[v] = "told" THEN <<End>> ELSE <<>>]

\* What is left on the list once those that know otherwise are let go of; and of those the
\* server the conversation was opened on, or the ones that are idle.
Kept == {v \in servers : knew[v] = knows}
Free(s) == IF on[s] \in Kept THEN {on[s]} ELSE {v \in Kept : turns[v] = 0}

\* _taken: the turn is on one of those (the first on the list, which nothing here tells from
\* another), or on a server started for it.
Takes(s) ==
    LET new == begun + 1 IN
    /\ doing[s] = "going" /\ servers' = Kept /\ adrift' = adrift \cup (servers \ Kept)
    /\ \/ /\ \E v \in Free(s) : turns' = [turns EXCEPT ![v] = @ + 1] /\ on' = [on EXCEPT ![s] = v]
          /\ Goes(s, "holding")
          /\ UNCHANGED <<begun, up, knew, asked, pump, box>>
       \/ /\ Free(s) = {} /\ new \in Servers
          /\ begun' = new /\ up' = up \cup {new} /\ knew' = [knew EXCEPT ![new] = knows]
          /\ pump' = [pump EXCEPT ![new] = "reading"] /\ on' = [on EXCEPT ![s] = new]
          /\ asked' = [asked EXCEPT ![new] = {Call(s, "initialize")}]
          /\ box' = [box EXCEPT ![s] = <<>>] /\ Goes(s, "starting")
          /\ UNCHANGED turns
    /\ UNCHANGED <<world, knows, stopped, doomed, working, wants, wire, holding>>
    /\ UNCHANGED <<took, thread, id, heard, left>>

\* _start: the server has answered for the first time, and is remembered; one that would not
\* be introduced to is neither remembered nor stopped.
Joins(s) ==
    /\ doing[s] = "starting" /\ box[s] # <<>>
    /\ IF Head(box[s]).kind = "answer"
       THEN /\ servers' = servers \cup {on[s]} /\ Goes(s, "joined")
            /\ UNCHANGED <<on, adrift>>
       ELSE /\ Goes(s, "idle") /\ on' = [on EXCEPT ![s] = NoServer]
            /\ adrift' = adrift \cup {on[s]} /\ UNCHANGED servers
    /\ box' = [box EXCEPT ![s] = <<>>]
    /\ UNCHANGED <<world, knows, stopped, doomed, begun, process, stream, books>>
    /\ UNCHANGED <<took, thread, id, heard, left>>

\* share, with the list let go of meanwhile.
Shares(s) ==
    /\ doing[s] = "joined" /\ Goes(s, "holding")
    /\ turns' = [turns EXCEPT ![on[s]] = @ + 1]
    /\ UNCHANGED <<world, agent, process, stream, holding>>
    /\ UNCHANGED <<took, on, thread, id, box, heard, left>>

\* _thread: the thread is open there already, or the server is asked to open it.
Opens(s) ==
    LET v == on[s] IN
    /\ doing[s] = "holding"
    /\ \/ /\ id[s] \in holding[v]
          /\ Goes(s, "open") /\ thread' = [thread EXCEPT ![s] = id[s]]
          /\ UNCHANGED <<asked, box, turns, heard>>
       \/ /\ id[s] \notin holding[v]
          /\ Written(s, v, Call(s, "thread")) /\ Goes(s, "opening")
          /\ UNCHANGED <<thread, turns, heard>>
       \/ /\ id[s] \notin holding[v] /\ v \notin up
          /\ Over(s) /\ UNCHANGED asked
    /\ UNCHANGED <<world, agent, up, knew, working, wants, stream, holding, took, on, id, left>>

\* The answer to that.
Opening(s) ==
    LET v == on[s]
        named == Opened(Call(s, "thread")) IN
    /\ doing[s] = "opening" /\ box[s] # <<>>
    /\ IF Head(box[s]).kind = "answer"
       THEN /\ Goes(s, "open") /\ thread' = [thread EXCEPT ![s] = named]
            /\ holding' = [holding EXCEPT ![v] = @ \cup {named}]
            /\ box' = [box EXCEPT ![s] = <<>>] /\ UNCHANGED <<turns, heard>>
       ELSE Over(s) /\ UNCHANGED holding
    /\ UNCHANGED <<world, agent, process, stream, took, on, id, left>>

\* turn: the reader says where its messages go, and the turn is asked for.
Begins(s) ==
    LET v == on[s] IN
    /\ doing[s] = "open"
    /\ \/ Written(s, v, Call(s, "turn")) /\ Goes(s, "reading") /\ UNCHANGED <<turns, thread, heard>>
       \/ v \notin up /\ Over(s) /\ UNCHANGED asked
    /\ UNCHANGED <<world, agent, up, knew, working, wants, stream, holding>>
    /\ UNCHANGED <<took, on, id, left>>

\* One message of the turn: words of a turn begin it, a turn that failed is over, and a
\* thread fallen idle ends a turn that has begun.  The stream ending fails it.
Reads(s) ==
    LET m == Head(box[s])
        ends == m.kind \in {"refusal", "failed", "end"} \/ (m.kind = "idle" /\ heard[s] # 0) IN
    /\ doing[s] = "reading" /\ box[s] # <<>>
    /\ IF ends
       THEN /\ Over(s)
            /\ id' = IF m.kind = "idle" THEN [id EXCEPT ![s] = thread[s]] ELSE id
       ELSE /\ box' = [box EXCEPT ![s] = Tail(@)]
            /\ heard' = IF m.kind \in {"word", "done"} THEN [heard EXCEPT ![s] = m.turn] ELSE heard
            /\ UNCHANGED <<doing, turns, thread, id>>
    /\ UNCHANGED <<world, agent, process, stream, holding, took, on, left>>

\* Whoever was reading the turn stops reading it, with what it was told last in hand.  The
\* server goes on with it.
Leaves(s) ==
    /\ doing[s] = "reading" /\ heard[s] # 0 /\ "leave" \in world.may /\ Over(s)
    /\ left' = [left EXCEPT ![s] = TRUE]
    /\ UNCHANGED <<world, agent, process, stream, holding, took, on, id>>

-----------------------------------------------------------------------------
(* The thread that reads a server's stream.                                *)

\* _route: to whoever it belongs to, or to nobody.  What a flow answers nothing to is refused
\* from here, and neither that nor a line that is not whole is got past once the server is gone.
Pumps(v) ==
    LET m == Head(wire[v]) IN
    /\ pump[v] = "reading" /\ wire[v] # <<>>
    /\ box' = [s \in Sessions |-> IF s \in Readers(v) /\ Belongs(m, s) THEN Append(box[s], m)
                                  ELSE box[s]]
    /\ IF m = Cut \/ (m = Want /\ v \notin up)
       THEN pump' = [pump EXCEPT ![v] = "raised"] /\ wire' = [wire EXCEPT ![v] = <<>>]
       ELSE wire' = [wire EXCEPT ![v] = Tail(@)] /\ UNCHANGED pump
    /\ UNCHANGED <<world, agent, process, books, doing, took, on, thread, id, heard, left>>

\* The stream has ended: everybody reading it is told that nothing more is coming.
Tells(v) ==
    /\ pump[v] = "reading" /\ wire[v] = <<>> /\ v \notin up
    /\ pump' = [pump EXCEPT ![v] = "told"]
    /\ box' = [s \in Sessions |-> IF s \in Readers(v) THEN Append(box[s], End) ELSE box[s]]
    /\ UNCHANGED <<world, agent, process, wire, books, doing, took, on, thread, id, heard, left>>

-----------------------------------------------------------------------------
(* The agent's servers let go of, and put down.                            *)

\* The agent goes over to another account, or the flow offers it another list of callbacks; or
\* it goes back.
Moved ==
    /\ "move" \in world.may /\ knows' = 1 - knows
    /\ UNCHANGED <<world, servers, stopped, doomed, adrift, begun, process, stream, books, session>>

\* _down takes the list, and stops what was on it once the list is let go of.
Lists ==
    /\ doomed' = doomed \cup servers /\ servers' = {}

\* A turn that has said nothing for too long: the watchdog over it has them all put down.
LetsGo(s) ==
    /\ doing[s] = "reading" /\ "wedge" \in world.may /\ Lists
    /\ UNCHANGED <<world, knows, stopped, adrift, begun, process, stream, books, session>>

\* stop: no further turn, and then every server.
Stops ==
    /\ "stop" \in world.may
    /\ \/ stopped = "no" /\ stopped' = "said" /\ UNCHANGED <<servers, doomed>>
       \/ stopped = "said" /\ stopped' = "done" /\ Lists
    /\ UNCHANGED <<world, knows, adrift, begun, process, stream, books, session>>

\* A process ends in the middle of a line, or not.
Falls(v) ==
    /\ up' = up \ {v}
    /\ wire' = wire \/ wire' = [wire EXCEPT ![v] = Append(@, Cut)]
    /\ asked' = [asked EXCEPT ![v] = {}] /\ working' = [working EXCEPT ![v] = {}]
    /\ UNCHANGED <<knew, wants, pump>>

PutsDown(v) ==
    /\ v \in doomed /\ doomed' = doomed \ {v}
    /\ IF v \in up THEN Falls(v) ELSE UNCHANGED <<process, stream>>
    /\ UNCHANGED <<world, knows, servers, stopped, adrift, begun, books, session>>

-----------------------------------------------------------------------------
(* The server, which is somebody else's program.                           *)

\* What it writes waits for room in the pipe.
Writes(v, messages) ==
    /\ v \in up /\ Len(wire[v]) + Len(messages) <= Room
    /\ wire' = [wire EXCEPT ![v] = @ \o messages]

\* It answers a call, of whatever kind, or refuses it.  A thread that is opened falls idle; a
\* turn asked for and not refused is one it runs.
Answers(v) ==
    \E call \in asked[v], ok \in BOOLEAN :
        /\ ok \/ "refuse" \in world.may
        /\ \/ Writes(v, <<Answer(call, ok)>>)
           \/ /\ call.for = "thread" /\ ok
              /\ Writes(v, <<Answer(call, ok), Said("idle", Opened(call), 0)>>)
        /\ asked' = [asked EXCEPT ![v] = @ \ {call}]
        /\ working' = IF call.for = "turn" /\ ok
                      THEN [working EXCEPT ![v] = @ \cup {<<call.on, call.turn, FALSE>>}]
                      ELSE working
    /\ UNCHANGED <<world, agent, up, knew, wants, pump, books, session>>

\* It says something of a turn it is running.
Speaks(v) ==
    /\ \E t \in working[v] :
         /\ ~t[3] /\ Writes(v, <<Said("word", t[1], t[2])>>)
         /\ working' = [working EXCEPT ![v] = (@ \ {t}) \cup {<<t[1], t[2], TRUE>>}]
    /\ UNCHANGED <<world, agent, up, knew, asked, wants, pump, books, session>>

\* A turn of it is complete, as it should be or not, and its thread falls idle.
Finishes(v) ==
    /\ \E t \in working[v], how \in {"done", "failed"} :
         /\ Writes(v, <<Said(how, t[1], t[2]), Said("idle", t[1], 0)>>)
         /\ working' = [working EXCEPT ![v] = @ \ {t}]
    /\ UNCHANGED <<world, agent, up, knew, asked, wants, pump, books, session>>

\* It asks us something a flow answers nothing to, or says something that names no thread.
Wonders(v) ==
    /\ "ask" \in world.may /\ working[v] # {}
    /\ wants[v] < Asks /\ wants' = [wants EXCEPT ![v] = @ + 1]
    /\ Writes(v, <<Want>>) \/ Writes(v, <<Note>>)
    /\ UNCHANGED <<world, agent, up, knew, asked, working, pump, books, session>>

\* It goes, of itself or by somebody else's hand.
Dies(v) ==
    /\ v \in up /\ "die" \in world.may /\ Falls(v)
    /\ UNCHANGED <<world, agent, books, session>>

Server(v) == Answers(v) \/ Speaks(v) \/ Finishes(v) \/ Wonders(v) \/ Dies(v)

GoesOn(s) ==
    Takes(s) \/ Joins(s) \/ Shares(s) \/ Opens(s) \/ Opening(s) \/ Begins(s) \/ Reads(s)
Turn(s) == SetsOut(s) \/ GoesOn(s) \/ Leaves(s)

Next ==
    \/ Moved \/ Stops
    \/ \E s \in Sessions : Turn(s) \/ LetsGo(s)
    \/ \E v \in Servers : Pumps(v) \/ Tells(v) \/ PutsDown(v) \/ Server(v)

\* Every thread of ours goes on where it can; nothing is assumed of the server.
Fairness ==
    /\ \A s \in Sessions : WF_vars(GoesOn(s))
    /\ \A v \in Servers : WF_vars(Pumps(v) \/ Tells(v)) /\ WF_vars(PutsDown(v))

Spec == Init /\ [][Next]_vars /\ Fairness

-----------------------------------------------------------------------------
(* Properties.                                                             *)

\* What a conversation's reader is handed is an answer to what it asked, a message of the
\* thread its turn is on, one that names no thread, or that the stream has ended; and of two
\* turns reading a server at once, one at most has been handed a message that names no thread.
Routed ==
    /\ \A s \in Sessions : \A i \in DOMAIN box[s] :
         /\ doing[s] \in Reading
         /\ \/ box[s][i] = End \/ box[s][i].to = Asking(s)
            \/ doing[s] = "reading" /\ (box[s][i].of = thread[s] \/ box[s][i] = Note)
    /\ \A s, o \in Sessions :
         Contains(box[s], Note) /\ Contains(box[o], Note) /\ on[s] = on[o] => s = o

\* No server is up that nobody would take down: it is on the agent's list, or about to be put
\* down or to be put on it, or it was let go of for what it knew or for refusing us.
NothingForgotten ==
    \A v \in up :
        \/ v \in servers \/ v \in doomed \/ v \in adrift
        \/ \E s \in Sessions : on[s] = v /\ doing[s] = "starting"

\* A thread is open on two servers at once only where one of them was let go of for what it
\* knew, or is being put down.
OneHome ==
    \A v, w \in up : (v # w /\ holding[v] \cap holding[w] # {}) =>
        v \in adrift \cup doomed \/ w \in adrift \cup doomed

\* A turn is answered: its thread has fallen idle.
Answered(s) == Reads(s) /\ doing'[s] = "idle" /\ Head(box[s]).kind = "idle"

\* A turn is answered with its own words, where no turn of the conversation was left running.
OwnWords == [][\A s \in Sessions : Answered(s) /\ ~left[s] => heard[s] = took[s]]_vars

\* Once a server's stream has ended, everybody still reading it has it in hand that nothing
\* more is coming, whenever they came to read it.
NobodyLeftWaiting ==
    \A s \in Sessions : doing[s] \in Reading /\ pump[on[s]] = "told" => Contains(box[s], End)

=============================================================================
