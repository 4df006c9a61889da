-------------------------------- MODULE Remote ---------------------------------
(***************************************************************************)
(* Work asked of a target over one connection: hmz.coganchor.remote here,  *)
(* hmz.coganchor.serve there, and a channel between them that may go at    *)
(* any moment.  A call waits for its answer with a limit; a command is     *)
(* waited for with none, and told by a callback; a file is written by a    *)
(* request, what is in it, and an end.                                     *)
(***************************************************************************)
EXTENDS Naturals, Sequences

CONSTANTS Calls,     \* requests that are one question and one answer
          Writes,    \* files streamed to the target
          Execs,     \* commands run there
          Readers,   \* the commands that run until their input ends
          Worlds,    \* which of them are asked for, and whether the target is one left
                     \* listening on a port, in each world
          None

Reqs == Calls \cup Writes \cup Execs

ASSUME KindsAssumption ==
    Calls \cap Writes = {} /\ Calls \cap Execs = {} /\ Writes \cap Execs = {}
ASSUME ReadersAssumption == Readers \subseteq Execs
ASSUME NoneAssumption == None \notin Reqs
ASSUME WorldsAssumption == Worlds \subseteq [asks : SUBSET Reqs, listening : BOOLEAN]

VARIABLES
    stage,    \* how far whoever made each request has got with it
    pending,  \* _pending: what an answer may still find
    settled,  \* _Pending.result or .error, by which of the two there is
    told,     \* how many times each command's on_done has been called
    closed,   \* RemoteClient._closed
    reader,   \* where the thread that reads the answers is
    found,    \* what that thread is answering
    closer,   \* how far close has got
    failing,  \* what _fail_pending has taken to fail, by whose call it is
    shut,     \* Channel._closed, here
    link,     \* whether the connection is there
    up,       \* frames on their way to the target
    down,     \* answers on their way back, by what they answer
    serving,  \* where the target's loop is
    leaving,  \* how far the listener has got with going away
    sinks,    \* Server._sinks
    shutting, \* what Server.close has taken to shut down, by whose call it is
    cmd,      \* the process of each command, at the target
    group,    \* the commands that have started something of their own, which is still there
    ended,    \* the commands whose input has ended
    temp,     \* the files half written beside the ones they are for
    handled,  \* the requests the target has answered, heard or not
    unstarted \* the commands that took too long in starting to be sent a signal

client == <<closed, reader, found, closer, failing, settled, told>>
wire == <<shut, link, up>>
work == <<cmd, group, ended, temp, handled, unstarted>>
target == <<serving, leaving, sinks, shutting, work>>
vars == <<stage, pending, client, wire, down, target>>

TypeOK ==
    /\ stage \in [Reqs -> {"never", "idle", "registered", "opened", "fed", "waiting", "done",
                         "raised"}]
    /\ pending \subseteq Reqs
    /\ settled \in [Reqs -> {"none", "result", "error"}]
    /\ told \in [Execs -> Nat]
    /\ closed \in BOOLEAN /\ shut \in BOOLEAN
    /\ reader \in {"reading", "found", "ending"}
    /\ found \in Reqs \cup {None} /\ (found # None <=> reader = "found")
    /\ closer \in {"idle", "joining", "joined", "left"}
    /\ failing \in [{"reader", "closer"} -> SUBSET Reqs]
    /\ link \in {"up", "down"}
    /\ up \in Seq([req : Reqs, kind : {"req", "chunk", "end"}]) /\ down \in Seq(Reqs)
    /\ serving \in {"serving", "closing", "over"}
    /\ leaving \in {"never", "no", "closing", "gone"}
    /\ sinks \subseteq Writes \cup Execs
    /\ shutting \in [{"loop", "listener"} -> SUBSET (Writes \cup Execs)]
    /\ cmd \in [Execs -> {"none", "starting", "running", "over", "killed"}]
    /\ group \subseteq Execs
    /\ ended \subseteq Execs /\ temp \subseteq Writes /\ handled \subseteq Reqs
    /\ unstarted \subseteq Execs

Init ==
    /\ \E world \in Worlds :
         /\ stage = [r \in Reqs |-> IF r \in world.asks THEN "idle" ELSE "never"]
         /\ leaving = IF world.listening THEN "no" ELSE "never"
    /\ pending = {}
    /\ settled = [r \in Reqs |-> "none"] /\ told = [e \in Execs |-> 0]
    /\ closed = FALSE /\ reader = "reading" /\ found = None
    /\ closer = "idle" /\ failing = [t \in {"reader", "closer"} |-> {}]
    /\ shut = FALSE /\ link = "up" /\ up = <<>> /\ down = <<>>
    /\ serving = "serving"
    /\ sinks = {} /\ shutting = [t \in {"loop", "listener"} |-> {}]
    /\ cmd = [e \in Execs |-> "none"] /\ group = {} /\ ended = {} /\ temp = {}
    /\ handled = {} /\ unstarted = {}

-----------------------------------------------------------------------------
(* Helpers.                                                                *)

Frame(r, kind) == [req |-> r, kind |-> kind]

\* Channel.send, which cannot tell a connection that has gone until it is told.
Sends(frame) ==
    /\ ~shut
    /\ up' = IF link = "up" THEN Append(up, frame) ELSE up
    /\ UNCHANGED <<shut, link>>

CannotSend == (shut \/ link = "down") /\ shut' = TRUE /\ UNCHANGED <<link, up>>

\* Either is the end of what is read, whatever is still on its way.
Broken == shut \/ link = "down"

\* done.set, and on_done for a command. Whoever waits asks for an error first.
Completes(r, what) ==
    /\ settled' = [settled EXCEPT ![r] = IF @ = "error" THEN @ ELSE what]
    /\ told' = [e \in Execs |-> IF e = r THEN told[e] + 1 ELSE told[e]]

\* The target answers as far as the connection will carry it.
Replies(r) ==
    /\ handled' = handled \cup {r}
    /\ down' = IF link = "up" THEN Append(down, r) ELSE down

-----------------------------------------------------------------------------
(* Faulty forms of the definitions below, each one a plausible edit.       *)

\* A call that ran out of time answers with whatever it has.
FaultTimesOut(r) ==
    /\ r \notin Execs /\ stage[r] = "waiting" /\ settled[r] = "none"
    /\ stage' = [stage EXCEPT ![r] = "done"]
    /\ pending' = pending \ {r}
    /\ UNCHANGED <<client, wire, down, target>>

\* An answered request is left for the end of the connection to find.
FaultAnswers ==
    /\ reader = "found"
    /\ Completes(found, "result")
    /\ reader' = "reading" /\ found' = None
    /\ UNCHANGED <<stage, pending, closed, closer, failing, wire, down, target>>

\* What is still waiting is forgotten as the connection ends.
FaultNotices ==
    /\ reader = "reading" /\ Broken
    /\ pending' = {} /\ reader' = "ending"
    /\ UNCHANGED <<stage, closed, found, closer, failing, settled, told, wire, down, target>>

\* What is killed is the command, and not what it has started.
FaultShutsExec(t, e) ==
    /\ e \in shutting[t] \cap Execs
    /\ \/ cmd[e] = "starting" /\ unstarted' = unstarted \cup {e} /\ UNCHANGED <<cmd, group>>
       \/ cmd[e] = "running" /\ cmd' = [cmd EXCEPT ![e] = "killed"] /\ UNCHANGED <<group, unstarted>>
       \/ cmd[e] \in {"over", "killed"} /\ UNCHANGED <<cmd, group, unstarted>>
    /\ shutting' = [shutting EXCEPT ![t] = @ \ {e}]
    /\ ended' = ended \cup {e}
    /\ UNCHANGED <<stage, pending, client, wire, down, serving, leaving, sinks, temp, handled>>

-----------------------------------------------------------------------------
(* Whoever asks.                                                           *)

Registers(r) ==
    /\ stage[r] = "idle"
    /\ \/ closed /\ stage' = [stage EXCEPT ![r] = "raised"] /\ UNCHANGED pending
       \/ ~closed /\ stage' = [stage EXCEPT ![r] = "registered"] /\ pending' = pending \cup {r}
    /\ UNCHANGED <<client, wire, down, target>>

\* One that could not be sent is raised, and left where an answer would look for it.
Asks(r) ==
    /\ stage[r] = "registered"
    /\ \/ /\ Sends(Frame(r, "req"))
          /\ stage' = [stage EXCEPT ![r] = IF r \in Calls THEN "waiting" ELSE "opened"]
       \/ CannotSend /\ stage' = [stage EXCEPT ![r] = "raised"]
    /\ UNCHANGED <<pending, client, down, target>>

\* What is in the file, in one piece for all of them.
Feeds(r) ==
    /\ r \in Writes /\ stage[r] = "opened"
    /\ \/ /\ Sends(Frame(r, "chunk"))
          /\ stage' = [stage EXCEPT ![r] = "fed"]
          /\ UNCHANGED pending
       \/ /\ CannotSend
          /\ stage' = [stage EXCEPT ![r] = "raised"]
          /\ pending' = pending \ {r}
    /\ UNCHANGED <<client, down, target>>

\* The file could not be read here: nothing more is sent, and nobody there is told.
SourceFails(r) ==
    /\ r \in Writes /\ stage[r] \in {"opened", "fed"}
    /\ stage' = [stage EXCEPT ![r] = "raised"]
    /\ pending' = pending \ {r}
    /\ UNCHANGED <<client, wire, down, target>>

\* A command's input ends where it began, and a channel that has gone says so elsewhere.
EndsInput(r) ==
    /\ stage[r] \in {"opened", "fed"}
    /\ \/ /\ Sends(Frame(r, "end"))
          /\ stage' = [stage EXCEPT ![r] = "waiting"]
          /\ UNCHANGED pending
       \/ /\ CannotSend
          /\ stage' = [stage EXCEPT ![r] = IF r \in Execs THEN "waiting" ELSE "raised"]
          /\ pending' = IF r \in Execs THEN pending ELSE pending \ {r}
    /\ UNCHANGED <<client, down, target>>

Wakes(r) ==
    /\ stage[r] = "waiting" /\ settled[r] # "none"
    /\ stage' = [stage EXCEPT ![r] = IF settled[r] = "error" THEN "raised" ELSE "done"]
    /\ UNCHANGED <<pending, client, wire, down, target>>

\* The limit of a call; a command has none.
TimesOut(r) ==
    /\ r \notin Execs /\ stage[r] = "waiting" /\ settled[r] = "none"
    /\ stage' = [stage EXCEPT ![r] = "raised"]
    /\ pending' = pending \ {r}
    /\ UNCHANGED <<client, wire, down, target>>

Caller(r) ==
    \/ Registers(r) \/ Asks(r) \/ Feeds(r) \/ SourceFails(r) \/ EndsInput(r)
    \/ Wakes(r) \/ TimesOut(r)

-----------------------------------------------------------------------------
(* The thread that reads the answers, and close.                           *)

\* An answer to nothing that is waiting is dropped.
Receives ==
    /\ reader = "reading" /\ down # <<>>
    /\ down' = Tail(down)
    /\ \/ Head(down) \in pending /\ reader' = "found" /\ found' = Head(down)
       \/ Head(down) \notin pending /\ UNCHANGED <<reader, found>>
    /\ UNCHANGED <<stage, pending, closed, closer, failing, settled, told, wire, target>>

\* Found under the lock, and taken off and completed outside the lock it was found under.
Answers ==
    /\ reader = "found"
    /\ pending' = pending \ {found}
    /\ Completes(found, "result")
    /\ reader' = "reading" /\ found' = None
    /\ UNCHANGED <<stage, closed, closer, failing, wire, down, target>>

Notices ==
    /\ reader = "reading" /\ Broken
    /\ failing' = [failing EXCEPT !["reader"] = pending]
    /\ pending' = {} /\ reader' = "ending"
    /\ UNCHANGED <<stage, closed, found, closer, settled, told, wire, down, target>>

\* _fail_pending, one at a time: the reader's call of it, or close's.
Fails(t, r) ==
    /\ r \in failing[t]
    /\ failing' = [failing EXCEPT ![t] = @ \ {r}]
    /\ Completes(r, "error")
    /\ UNCHANGED <<stage, pending, closed, reader, found, closer, wire, down, target>>

Reader == Receives \/ Answers \/ Notices \/ \E r \in Reqs : Fails("reader", r)

\* Nothing more is registered, and the channel is closed: nobody can tell the two apart.
Closes ==
    /\ closer = "idle" /\ closer' = "joining"
    /\ closed' = TRUE /\ shut' = TRUE
    /\ UNCHANGED <<stage, pending, reader, found, failing, settled, told, link, up, down, target>>

\* The reader is waited for with a limit, and what is left is failed whether it ended or not.
Joins ==
    /\ closer = "joining"
    /\ closer' = IF reader = "ending" /\ failing["reader"] = {} THEN "joined" ELSE "left"
    /\ failing' = [failing EXCEPT !["closer"] = pending]
    /\ pending' = {}
    /\ UNCHANGED <<stage, closed, reader, found, settled, told, wire, down, target>>

Closer == Closes \/ Joins \/ \E r \in Reqs : Fails("closer", r)

Loses ==
    /\ link = "up" /\ link' = "down"
    /\ UNCHANGED <<stage, pending, client, shut, up, down, target>>

-----------------------------------------------------------------------------
(* The target.                                                             *)

Takes(frame) ==
    /\ serving = "serving" /\ up # <<>>
    /\ frame = Head(up) /\ up' = Tail(up)
    /\ UNCHANGED <<stage, pending, client, shut, link, serving, leaving, shutting, group, unstarted>>

\* One round trip, whether it worked or not, done in the loop.
Serves(r) ==
    /\ r \in Calls /\ Takes(Frame(r, "req"))
    /\ Replies(r)
    /\ UNCHANGED <<sinks, cmd, ended, temp>>

\* _handle_write: a file beside the one it is for, or why not.
Opens(r) ==
    /\ r \in Writes /\ Takes(Frame(r, "req"))
    /\ \/ /\ temp' = temp \cup {r} /\ sinks' = sinks \cup {r}
          /\ UNCHANGED <<handled, down>>
       \/ Replies(r) /\ UNCHANGED <<temp, sinks>>
    /\ UNCHANGED <<cmd, ended>>

\* _route_stream: written where there is somewhere to, and torn down where it cannot be.
TakesIn(r) ==
    /\ r \in Writes /\ Takes(Frame(r, "chunk"))
    /\ \/ UNCHANGED <<temp, sinks, handled, down>>
       \/ /\ r \in sinks
          /\ temp' = temp \ {r} /\ sinks' = sinks \ {r}
          /\ Replies(r)
    /\ UNCHANGED <<cmd, ended>>

\* _WriteSink.end_input: moved over the file, or aborted, and answered for either way.
Finishes(r) ==
    /\ r \in Writes /\ Takes(Frame(r, "end"))
    /\ \/ /\ r \in sinks
          /\ temp' = temp \ {r} /\ sinks' = sinks \ {r}
          /\ Replies(r)
       \/ r \notin sinks /\ UNCHANGED <<temp, sinks, handled, down>>
    /\ UNCHANGED <<cmd, ended>>

\* _start: a session with threads of its own.
Starts(e) ==
    /\ e \in Execs /\ Takes(Frame(e, "req"))
    /\ sinks' = sinks \cup {e}
    /\ cmd' = [cmd EXCEPT ![e] = "starting"]
    /\ UNCHANGED <<ended, temp, handled, down>>

HearsEnd(e) ==
    /\ e \in Execs /\ Takes(Frame(e, "end"))
    /\ ended' = IF e \in sinks THEN ended \cup {e} ELSE ended
    /\ UNCHANGED <<sinks, cmd, temp, handled, down>>

\* _spawn, in the session's thread: the command, or that there is no such thing.
Spawns(e) ==
    /\ cmd[e] = "starting"
    /\ \/ cmd' = [cmd EXCEPT ![e] = "running"] /\ UNCHANGED <<handled, down>>
       \/ cmd' = [cmd EXCEPT ![e] = "over"] /\ Replies(e)
    /\ UNCHANGED <<stage, pending, client, wire, serving, leaving, sinks, shutting, group, ended,
                   temp, unstarted>>

\* Its end, which nothing but its input may have been holding up.
Exits(e) ==
    /\ cmd[e] = "running" /\ (e \in Readers => e \in ended)
    /\ cmd' = [cmd EXCEPT ![e] = "over"]
    /\ UNCHANGED <<stage, pending, client, wire, down, serving, leaving, sinks, shutting, group,
                   ended, temp, handled, unstarted>>

\* It leaves something to go on beside it, in its group; and all of that ends.
Forks(e) ==
    /\ \/ cmd[e] = "running" /\ group' = group \cup {e}
       \/ e \in group /\ group' = group \ {e}
    /\ UNCHANGED <<stage, pending, client, wire, down, serving, leaving, sinks, shutting, cmd,
                   ended, temp, handled, unstarted>>

\* The command is over and so is its output, which what it left behind may hold for as long as
\* that runs, or may not hold.
Tells(e) ==
    /\ cmd[e] \in {"over", "killed"} /\ e \notin handled
    /\ Replies(e)
    /\ UNCHANGED <<stage, pending, client, wire, serving, leaving, sinks, shutting, cmd, group,
                   ended, temp, unstarted>>

\* _reap, once the session's thread is over.
Reaps(e) ==
    /\ cmd[e] \in {"over", "killed"} /\ e \in sinks \cap handled
    /\ sinks' = sinks \ {e}
    /\ UNCHANGED <<stage, pending, client, wire, down, serving, leaving, shutting, work>>

\* serve's `finally`: the loop is over, and nothing it had is to be left.
LoopEnds ==
    /\ serving = "serving" /\ Broken
    /\ serving' = "closing"
    /\ shutting' = [shutting EXCEPT !["loop"] = sinks] /\ sinks' = {}
    /\ UNCHANGED <<stage, pending, client, wire, down, leaving, work>>

\* A half-written file goes.
ShutsWrite(t, r) ==
    /\ r \in shutting[t] \cap Writes
    /\ shutting' = [shutting EXCEPT ![t] = @ \ {r}]
    /\ temp' = temp \ {r}
    /\ UNCHANGED <<stage, pending, client, wire, down, serving, leaving, sinks, cmd, group, ended,
                   handled, unstarted>>

\* A command is killed with its group, once it has started; one that has not within the limit
\* is let go, and so is the group of one whose own process is over.
ShutsExec(t, e) ==
    /\ e \in shutting[t] \cap Execs
    /\ \/ cmd[e] = "starting" /\ unstarted' = unstarted \cup {e} /\ UNCHANGED <<cmd, group>>
       \/ /\ cmd[e] = "running"
          /\ cmd' = [cmd EXCEPT ![e] = "killed"] /\ group' = group \ {e}
          /\ UNCHANGED unstarted
       \/ cmd[e] \in {"over", "killed"} /\ UNCHANGED <<cmd, group, unstarted>>
    /\ shutting' = [shutting EXCEPT ![t] = @ \ {e}]
    /\ ended' = ended \cup {e}
    /\ UNCHANGED <<stage, pending, client, wire, down, serving, leaving, sinks, temp, handled>>

LoopIsOver ==
    /\ serving = "closing" /\ shutting["loop"] = {}
    /\ serving' = "over" /\ link' = "down"
    /\ UNCHANGED <<stage, pending, client, shut, up, down, leaving, sinks, shutting, work>>

\* serve_forever on its way out: the same, of a connection whose loop is still going round.
Leaves ==
    /\ leaving = "no" /\ serving # "over"
    /\ leaving' = "closing"
    /\ shutting' = [shutting EXCEPT !["listener"] = sinks] /\ sinks' = {}
    /\ UNCHANGED <<stage, pending, client, wire, down, serving, work>>

Left ==
    /\ leaving = "closing" /\ shutting["listener"] = {}
    /\ leaving' = "gone" /\ link' = "down"
    /\ UNCHANGED <<stage, pending, client, shut, up, down, serving, sinks, shutting, work>>

\* All but the commands, and what they have started, goes with the process.
Target ==
    \/ \E e \in Execs : Exits(e) \/ Forks(e)
    \/ /\ leaving # "gone"
       /\ \/ \E r \in Reqs : \/ Serves(r) \/ Opens(r) \/ TakesIn(r) \/ Finishes(r)
                             \/ Starts(r) \/ HearsEnd(r)
          \/ \E r \in Reqs, t \in {"loop", "listener"} : ShutsWrite(t, r) \/ ShutsExec(t, r)
          \/ \E e \in Execs : Spawns(e) \/ Tells(e) \/ Reaps(e)
          \/ LoopEnds \/ LoopIsOver \/ Leaves \/ Left

Next == (\E r \in Reqs : Caller(r)) \/ Reader \/ Closer \/ Loses \/ Target

\* The threads here go on with what they have begun. The target and the line are owed nothing.
Spec ==
    /\ Init /\ [][Next]_vars
    /\ WF_vars(Reader)
    /\ WF_vars(Joins \/ \E r \in Reqs : Fails("closer", r))
    /\ \A r \in Reqs : WF_vars(Asks(r) \/ EndsInput(r) \/ Wakes(r) \/ TimesOut(r))

-----------------------------------------------------------------------------
(* Properties.                                                             *)

\* What each request has come to for whoever made it.
Outcome ==
    [r \in Reqs |-> CASE stage[r] \in {"never", "idle"} -> "none"
                      [] stage[r] = "done" -> "answered"
                      [] stage[r] = "raised" -> "failed"
                      [] OTHER -> "asked"]

Asked == INSTANCE Exchange WITH outcome <- Outcome

\* Whoever asked is answered once, and with nothing the target has not done (call, _await,
\* mapped's run; src/specs/coganchor.md, "abandoned here, not there").
AnsweredOnce == Asked!Spec

\* A command's end is told once, however an answer and the end of the connection pass each
\* other: twice only where close gave up waiting for the reader (_deliver, _fail_pending).
ToldOnce == \A e \in Execs : told[e] > 1 => closer = "left"

\* A connection that is over has left no file half written at the target and no command running,
\* nor anything a command it killed had started, but for one that took too long in starting to be
\* killed (Server.close).  What is left by a command that was over before it came to be killed is
\* nobody's.
NothingLeft ==
    serving = "over" /\ leaving \in {"never", "no"} =>
        /\ temp = {}
        /\ \A e \in Execs : /\ cmd[e] = "running" => e \in unstarted
                            /\ cmd[e] = "killed" => e \notin group

\* What was waiting as the connection went is told so, if the target never says another word
\* (_read_loop's finally).
LossIsTold ==
    \A e \in Execs : e \in pending /\ link = "down" /\ reader \in {"reading", "found"} ~> told[e] > 0

=============================================================================
