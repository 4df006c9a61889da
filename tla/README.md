# A model of humanize

humanize runs *flows*: Python programs that drive coding agents, each agent being another
program (a CLI) run as a command, turn by turn. This directory models the parts of it where
several things happen at once, in TLA+. TLC checks the models on small instances, and TLAPS
proves most of what is safe about them for every size. Paths below are relative to the repository
(`src/src/hmz/` is the package, `src/specs/` its requirements, `src/docs/` its manual).

## 1. Inventory

| component | state it keeps | operations | interacts with |
|---|---|---|---|
| **daemon, holding a run** (`daemon/__init__.py`, `daemon/where.py`) | per workspace: a locked file, a socket, a record with a pid | `start`, `running`, `Daemon.kill`, `hosts` | processes through the kernel: fork, flock, a pipe, signals, files |
| **daemon, carrying a run** (`daemon/serve.py`, `attach.py`, `proto.py`) | a pty, terminals attached, bytes waiting for each, sizes | `_carries`, `_lets_go`, `attach` | the run (pty), terminals (socket) |
| **agents: a turn** (`coganchor/agents/base.py`) | session flags, the command running, skills mounted, the conversation it moved to | `stream`, `interrupt`, `interject`, `close`, `fork`, `AgentBase.stop` | backend's command, hooks, watchdog, budget's timer, the flow's thread |
| **budgets, allowance, watchdog** (`agents/config.py`, `allowance.py`, `watchdog.py`) | a clock per turn, a ledger per run, a ladder per command | `_budgeting`, `_checks`, `Ledger.stops`, `Watchdog._stepped` | cut turns off, stop agents |
| **backends** (`agents/claude.py`, `codex.py`, ...) | a server or a command per session | `_argv`, `_parse`, `_shut` | other programs' protocols |
| **hooks, tools, skills, people, board** (`agents/hooks.py`, ...) | handlers, mounted skills with holders, questions asked | fire, mount, ask | turns, flows |
| **fallbacks and retries** (`coganchor/fallbacks.py`) | steps written down in a file; a walk per turn | `falls`, `_keeps`, the walk in `_falling_back` | turns, accounts |
| **flows calling flows** (`flows/driving.py`) | which flow runs here (`_ON`), claims on agents (`_CLAIMED`), records (`_WRITTEN`) | `load`, `_begins`, `_ended`, `_takes`, `_gives_back` | agents, epics, asyncio tasks |
| **atlases** (`flows/atlas.py`, `stepping.py`, `prophesying.py`, ...) | a compiled graph and where it has got to | step, check | flows |
| **epics and state** (`runtime/epic.py`, `kept.py`, `settings.py`) | a directory per run, a state file shared by its flows | `Epic`, `State.save` | flows, readers |
| **runner** (`runtime/runner.py`, `runtime/doing/`) | the run going on | open, run, close | everything above |
| **remote calls** (`coganchor/remote.py`, `proto.py`, `serve/`) | requests in flight, sessions by id, sinks | register, deliver, fail, feed | a channel with two ends |
| **a command elsewhere** (`coganchor/anchor.py`, `supervisor.py`, `linux/`) | a traced process tree, a shadow of files | interpose, relay | the kernel, remote calls |
| **machines** (`coganchor/machines/`) | a container or a target | open, run, close | remote calls, flows |
| **providers** (`coganchor/providers/`) | credentials on disk, staged directories | make, log in, stage, drop | turns |
| **catalogues** (`models.py`, `prices.py`, `backends.py`) | tables | look up | turns |
| **surfaces** (`cli/`, `sdk/`, `tui/`) | what is on the screen; lines waiting to be said | type, hand over, refuse | turns, daemon |

What is hard in it, by component, with what makes each correct:

- *Daemon.* Processes race for one directory, anything may be killed at any step, files outlive
  whoever made them, and a pid comes round again. One run per workspace; a run that is going on
  can be found; whoever asked is told; what is tidied away is nobody's any more.
- *A turn.* The thread driving it, a person's interrupt, the watchdog's, the budget's timer, a
  `close` and a `stop` all touch the same dozen flags with no common lock. A cut-off reaches the
  command wherever the turn has got to; skills are there while anything works by them and gone
  after; a stopped agent does not go on; a turn its budget ended is not a failed one.
- *Calls.* Two calls of one flow may hold an agent at once and end in any order, in tasks that
  outlive whoever started them. An agent goes back to what it was; records are filed under the
  caller; a call is settled no looser than the flow it is called under.
- *Remote calls.* Answers, end of stream and the loss of the channel arrive in any order on a
  thread of their own. Each call is answered once, and nobody waits for ever.
- *Carrying.* One thread between many terminals and a run, none of which it may wait on. Frames
  are whole and in order; a slow terminal costs nobody else anything.
- *State.* Several objects, on several threads, write one file through one file beside it, and the
  run may be killed inside any save. The next run of a flow carries on from what was saved last.

`PROJECT.json` lists every hazard met while reading at the line where it bites, with the
property that covers it or why none does yet.

## 2. Modules

| module | what it is |
|---|---|
| `Workspace` | what the daemon promises, with none of how: one holder at a time |
| `Daemon` | how it keeps the promise: the directory, the detached children, callers of `start`, callers of `kill` |
| `Carrying` | the thread between a held run and the terminals that come and go |
| `Turn` | one conversation's turns and everybody who may end them |
| `Walk` | where a turn that failed goes next: accounts, goes, waits, places |
| `Watching` | the watchdogs over one conversation's goes |
| `Server` | the app servers of one Codex agent and the conversations on them |
| `Calls` | flows calling flows over agents they share |
| `Epic` | the records of a run and what the next one is picked up from |
| `Exchange` | what asking a target for something promises: one answer, to what was really done |
| `Remote` | both ends of a connection to a target, and the channel between them |
| `Mirror` | one directory of the target's as it is kept here, and the calls and commands that change it |
| `Standing` | the processes that stand in for commands on the target |
| `MC...` | one for each module above that a run needs values for: its worlds, profiles and calls |
| `DaemonProofs` | theorems about `Daemon` and `Carrying` |
| `TurnProofs`, `CallsProofs`, `RemoteProofs`, `EpicProofs`, `ServerProofs` | theorems about the module each is named for |
| `SupervisorProofs` | theorems about `Standing` and `Mirror`, the two halves of the supervisor |
| `GoesProofs` | theorems about `Watching` and `Walk`, what happens to a go and after one |

`Daemon` implements `Workspace` and `Remote` implements `Exchange`; both are checked as properties
and proved. The other modules meet where the code does, and each states what it needs of the
next: a go in `Walk` is one step, and what ends one is `Turn`'s; a command in `Standing` is what
`Remote` calls one; a task that outlives its call is in `Calls` as in `Epic`. `Daemon` and
`Carrying`, `Standing` and `Mirror`, `Watching` and `Walk` are proved about in one module each, and
the second of each pair has names of its own (`CarryingInit`, `MirrorNext`, `walking`).

Definitions named `Fault...` are plausible edits of the one they stand before: a guard dropped, an
order swapped, a reset forgotten. Nothing uses them; put in the place of what they stand before,
each makes TLC find one of the properties violated, and `PROJECT.json` says which.

### Daemon

A process here is one call of `start` and the child it forks. `child[p]` is how far that child has
got in `serve.hosts`, `carrier[p]` its thread that carries the run, `lock`, `sock` and `note` are
the three files of the directory by whose they are, `listens` the processes whose socket is open,
`pipe` what the waiting caller can read, and `reused` the numbers that belong to somebody else by
now.

| action | code |
|---|---|
| `Holds` / `Refused` | `where.holds` |
| `ClearsStale`, `Binds`, `Listens` | `serve._listens`, one step per system call |
| `Notes`, `Tells` | `where.wrote` (written beside and moved, so one step), then the pipe |
| `FailsToHold`, `Complains` | anything raised before the run is opened, told down the pipe by `_detaches` |
| `GivesUp`, `DropsSocket`, `DropsNote` | `Held._carries` after too many bad rounds: the files go, on a thread of their own, and the run stays |
| `RunEnds`, `StopsListening`, `TakesSocket`, `TakesNote`, `LetsGo` | `hosts`' `finally` in order, down to closing the lock |
| `Goes` | `os._exit` after it |
| `Looks`, `Connects`, `Forks`, `Hears`, `HearsWhy`, `TimesOut`, `LooksAgain`, `ConnectsAgain` | `start`, with `_read`'s two looks apart |
| `Finds`, `Reaches`, `Terms`, `KillsOutright`, `LeavesBe`, `SweepsSocket`, `SweepsNote` | `running` and `Daemon.kill` |
| `Dies`, `NumberComesRound` | the machine, at any point |

`StopsListening` waits five seconds for the carrying thread and goes on without it; one that was
giving up then takes the files of whoever has the lock by that time (`"straying"`). `Workspace` says
nothing of the lock: what is one at a time there is being in the workspace at all, which in `Daemon`
is every place of `hosts` from taking the lock to having closed it, and a workspace nobody is in is
free.

Left out: what is in the environment and the log, the middle process of the double fork, and
the pty. A signal sent to a number that has come round is not followed further.

### Turn

`at` is where the thread driving the turn is, `side` whose conversation it is being taken in
(its own, or the stand-in's), `hand` and `ender` how far each interrupt and each stop or close
has got: each takes the steps of its function between the reads and writes that another thread
can come between. The flags are the session's attributes by name (`_working`, `_started`,
`_ended`, `_cut`, `_over`, `_wedged`, `_capped`, `_moved_to`), `proc` is the command and
`under` whether `_underway` names it.

Hooks are the choices they lead to (`Caps` may answer, `SentOn` may send the agent on), what
kind of failure a command failed by is a choice in `Fails`, and the accounts of one place are
one number of goes. `late` is a history variable: commands started after the agent was told to
stop. A turn of the stand-in's own is not modelled; it is kept in
`working` all the same, since `interrupt` and `close` ask for it.

### Calls

One step is what runs between two awaits of one event loop. `ctx` is the asyncio task a flow
runs in and `on` the value of `_ON` in each, so a gathered call gets a copy of its caller's
and a call awaited in place writes over it. `claim`, `held` and `was` are `_CLAIMED`, and
`agent` is where each agent writes, what it carries and how loose it is. A permission is a
number, a skill is the flow that brought it, a record is the flow it is of. `Takes` is
`_begins` whole: the branch, the record, what is carried, what is settled and the claims.
`RefusedHere` and `RefusedApart` are one that raises half-way, as a backend does that cannot be told
what the called flow says: the record has been opened, and stays so, and nothing is taken.

`SettledUnderTheCaller` is of a call whose agent no flow but those above it has. Left out: a flow
called from a tool's own thread, which `Epic` has.

### Remote

A request is a call (one question, one answer), a file written (a request, what is in it, an
end) or a command run there. `stage[r]` is how far whoever made it has got; `pending`, `closed`
and `settled` are `_pending`, `_closed` and what a `_Pending` was completed with; `told` counts
the calls of a command's `on_done`. `up` and `down` are what is in the channel each way, by the
request it is about, and `link` whether there is a connection. At the target `sinks` is
`Server._sinks`, `cmd` each session's process, `group` the sessions whose process has started others
that are still there, `ended` the commands whose input has ended,
`temp` the files half written beside those they are for.

| action | code |
|---|---|
| `Registers`, `Asks`, `Feeds`, `EndsInput`, `SourceFails` | `_register`, `_send`, `write_file` and its pieces, `close_stdin` |
| `Wakes`, `TimesOut` | `_await`, and `Mapped.run`'s wait, which has no limit |
| `Receives`, `Answers` | `_deliver`, on either side of the lock it looks under |
| `Notices`, `Fails` | the end of `_read_loop`, and `_fail_pending` one at a time |
| `Closes`, `Joins` | `RemoteClient.close`, with its limit on waiting for the reader |
| `Loses` | the line, at any point |
| `Serves`, `Opens`, `TakesIn`, `Finishes`, `Starts`, `HearsEnd` | the target's loop: one frame each |
| `Spawns` | the thread that starts a session's process |
| `Forks`, `Exits` | the process: it starts others in its group, and is over, while they may go on holding its output |
| `Tells`, `Reaps` | the session's threads, once its output has ended: the answer, and then the session forgotten |
| `LoopEnds`, `LoopIsOver`, `ShutsWrite`, `ShutsExec` | `Server.close` after the loop |
| `Leaves`, `Left` | `serve_forever` on its way out, over a connection still being served |

A frame sent over a line that has gone may be refused or may be swallowed, as a socket does until
it is told. Left out: the handshake, reading a file, a command's output and signals, and tunnels;
a file goes in one piece. What close does before the channel is shut (`_closed`) and shutting it
are one step, since nobody can tell between them. A command that took longer in starting than
`Server.close` waits for is one of `unstarted`; what a command started that leaves its process
group is left out. `NothingLeft` is stated of a connection whose own loop has ended: the
listener's close, which runs beside that loop, may miss what the loop is just starting, and the
model has that too. It is of the groups of commands that were there to be killed (disagreement
14).

### Carrying

A frame is two pieces, since a socket takes part of one as often as the whole: `wire[t]` is what a
socket holds, `sending` (`_Reading.sending`) what waits for room in it, and `held` what
`Frames.feed` has of a frame not yet whole. `todo` is the list `_drew` goes round, one terminal a
step. `app` is whatever holds the run: until it has opened it, nothing can be asked to draw itself
again (`Joins`, `Redraws`). `since` and `owed` are history: what each terminal was not there for,
and who was let go of with a reason while it could be told one.

| action | code |
|---|---|
| `Drew`, `Writes` | `Held._drew`: one read of the pty, then each terminal on the list as it was |
| `Sends`, `HangsUp`, `Drops` | `Held._sends`, `_closing`, and what is over the backlog |
| `Arrived`, `Says`, `Joins`, `AnswersDetach` | `_arrived`, `_typed`, `_joins` with what was kept, `_answers` |
| `Detaches`, `Redraws` | `Held.detach` and `_redraw`, on threads of their own |
| `Opens` | the run opened, and from here on drawn again when asked |
| `Closing`, `Stops`, `Unlistened`, `Exits` | `Held.close`, which waits five seconds for the loop, and the end of the process, wherever the loop is |
| `Ends`, `Over`, `GivesUpCarrying` | `_carries` on its way out, and after too many bad rounds |
| `Dials`, `Types`, `Reads`, `SeesEnd`, `Leaves` | `attach._pumps` and `daemon.reads` at the other end: what is typed at a closed socket ends the reading there and then (`"broken"`) |

`Told`, that a terminal which could be told why it was let go of is told, is proved and has no run.
Left out: what is typed and what sizes do to the screen, and the answers to status and flows.

### Walk

`falls` is the file of fallbacks as the chain is read off it, `under` the account the agent of each
place is on, and the rest are the locals of `_falling_back` by name, one set for each conversation.
A go is `Tries` and what it `Comes` to; a failed one `Fails`, and is waited for (`Slept`), taken to
another account (`LooksFurther`, `Moves`: looking where the agent is and moving it are two steps) or
to another place (`StepsAside`, `StandsIn`). `Points` writes one fallback anew, once; `Stop` is
`AgentBase.stop`. The waits are operators over the policy (`Waits`, `Fibonacci`), in seconds.

### Watching

Every go has a `Watchdog` with a ladder of its own: `pc` is where its thread is, `at` the rung,
`doomed` the process it has armed against. The `Blocked` places are where a ticking thread may be
for longer than `_STOPPING`, so that a watchdog outlives its go; every other step is taken to be
shorter than that. An interrupt is two of them (`Interrupts` tells whoever watches the turn,
`Cuts` ends what the conversation is on by then), and a transport told to go may raise instead and
put nothing down (`PutsDown`, `"balked"`). `hurt` is history: what a watchdog has done to a go
that is not its own. `rides` names the process each go has, which may be the one before's; a
profile says whether a backend restarts, shares its process, and has one here at all. `Holds`,
`LetsGo` and `MovesOn` are `Watchdog.held`, whose count and clock are put back in two steps and
read with no lock.

### Server

A server is a number, and what it has said is `wire`; what it may say (`Answers`, `Speaks`,
`Finishes`, `Wonders`) and that it may go (`Dies`) is all there is of it. A conversation goes
through `CodexSession._stream`: a server is taken, shared or started (`Takes`, `Shares`, `Joins`),
the thread is opened on it (`Opens`, `Opening`), the turn begun and read (`Begins`, `Reads`), and
left (`Leaves`). `Pumps` and `Tells` are the one thread that reads the stream; `Stops`, `LetsGo`
and `Moved` are a stop, a watchdog's letting go and a change of account, each of which takes
servers off the list (`Lists`) before `PutsDown` stops them. The account goes to and fro, and each
time what runs is dropped from the list once it is found to be of another; a server may refuse to
be introduced to (`Answers`), may report an idle thread as it opens one, and may say what names no
thread (`Note`), which goes to the one turn being read where there is one. A world says which
conversations were picked up from a run before, how many turns each takes and what may befall
them. `adrift` is history: the servers let go of with nobody to stop them (disagreement 12).

Left out: `pursue` and the steps of a goal, approvals and questions beyond that one may be asked
and answered with nothing, usage, and steering.

### Epic

A record is the run's own or a call's, and its `lines` are what is written in its file. A save
(`State.save`) reads what is there (`Begin`), makes the file beside (`Beside`), writes it
(`Fills`) and puts it over the other (`Replaces`), with a death possible between any two.
`Appends` is a flow changing a list it holds, which only the save at the end writes down. `Dies`
leaves what is on disk, and `Begins` the next run reads it (`Kept`, `Resumed`).

A call runs on its caller's thread or on one of its own, as a flow that a tool of an agent's calls
does (`Thread`). What one thread does in a save, or in opening or closing a record, nothing else
of that thread comes between (`Free`); another thread's save may, and the two share the file and
the file beside it: one may empty, fill or move what the other is writing. `lost` is history: the
flows of which the last save may be lost so, until each is saved again alone. A call may outlive
the one that made it, and a flow may be called twice.

Left out: links to transcripts, settings, reading lines for display, and a tool's thread that
outlives its run into the next one of the same process. What a flow left behind is read in one step
with its being handed over.

### Mirror

A file is the version of it that was written, since what the code compares (size and mtime) changes
with every write; `hole` says that here it is a placeholder, with the stamps and none of the bytes.
`work` is the handler the supervisor's one thread is in, and every request to the target is a step
of its own: what other processes do falls between. A call that was let through (`let`) is made by
the kernel later (`Opens`, `Overwrites`, `Moves`), and an open descriptor used later still (`Uses`).

| action | code |
|---|---|
| `Requests` | a system call the supervisor stops at |
| `Lists`, `Applies` | `_apply_listing` of what the target answered, with `_is_intact` for what to leave |
| `Lacks`, `Fetches`, `Replaces` | `ensure_content` |
| `Unpushed`, `Pushes`, `Pushed`, `Flushed` | `flush` and `_push`, one file a step, in any order |
| `Replays`, `Lets`, `Refuses` | what `handlers.py` does before and after each call |
| `BeginsRemoteExec`, `ReleasesStalled`, `FlushesFinal` | the supervisor, for a command and at the end |
| `Changes`, `Returns` | a command on the target |

`newest`, `reached`, `exposed` and `strayed` are history: the versions there are, those the target
has had, those the code does not look after, and names no longer the agent's to speak of. A
version is exposed that is written while the supervisor is in another call, or after it has
changed its books since letting this one through, or over a placeholder that was never fetched, or
into the zeroes of one; a name is strayed that was removed or renamed under such circumstances.
The supervisor has no lock against the processes it lets go on, so of these nothing better can be
said, and `mirror_kept` shows one of them lost. What is left is what the four properties are
about.

One directory: links, directories and modes, and which paths are whose, are left out.

### Standing

`proc[p]` is a process as ptrace has it, `cmd[p]` the command at the target, `sup` where the loop
is and on whom. `Asks`, `Starts`, `Parks` and `Steps` are an execve turned into a stand-in (`park`
waits on the process itself, so a death there is told to nobody else: `taken`). `Told`,
`Delivers`, `Pours` and `Finishes` are the threads of `ExecProxy`, `Releases` the loop taking what
they queued, `Relays` the signals pending against a process carried over, `Reaps` and `Hears` what
`waitpid` says. Each death, signal, lost connection and end of the agent may come at any step.

What may go otherwise than was meant is in the model. A piece of output is written or dropped
(`given`, `spilt`). A process let go of with its command's signal may ignore or block it, and then
ends well (`EndsWith`, worlds with somebody `deaf`). One with no room for the path of the stub
stays at its own execve (`"stayed"`), where a signal runs the program here. A signal for a command
that is slow to begin is let go of at the target (`Misses`). And other processes of the agent's
may stop at calls of their own as often as they like (`Crowds`, `Serves`), which keeps the loop
from relaying.

Left out: a pid coming round again, a first process that itself turns into a command, and a
background child that keeps the output open.

## 3. Runs

| run | what it asks | bounds | states |
|---|---|---|---|
| `daemon` | do racing starts keep the promise beside a kill, and is whoever asked for a daemon told | 2 starts, 1 kill, any process dying anywhere | 454 000 |
| `carrying` | does each terminal read everything drawn since it came, and is the run held up by none | 2 terminals, one of which may be a question; 2 drawings; 3 pieces in a socket and in the backlog | 928 000 |
| `turn` | does a cut-off reach the command, and do the skills stay down as long as they must and no longer | 2 turns, 2 goes, a stand-in, one budget; 4 worlds of who else is there | 984 000 |
| `walk` | is no account passed over, and does every turn come to something | 2 conversations, 3 accounts, 1 further place, goes of 0 or 1 s; 8 worlds of chains, waits and failures | 187 000 |
| `watching` | does a stuck go end, as what it was, and what may reach the next one | 2 goes, 2 ticks of silence, 1 window granted, the clock stopped for up to 2 ticks; 4 kinds of backend | 957 000 |
| `server` | does each reader get its own and hear of the end, and is no server or thread lost | 2 conversations, 3 turns, 3 servers, 2 messages unread, 1 question; 8 worlds | 2 657 000 |
| `calls` | the branch, the records and the agents under every order of calls | 4 calls, 2 agents, 2 rungs, branches of 3 | 534 000 |
| `epic` | do the records read back, and does the next run carry on | 2 runs, 2 calls, 3 versions; 5 worlds of which flow, under whom and on whose thread | 1 031 000 |
| `remote` | is each of those who asked answered once, told of the loss, and is nothing left there | 1 call, 1 file, 1 command; 4 worlds of two of them, or one and a listener | 325 000 |
| `mirror` | are edits there before a command and what commands did here after, with no edit lost between | 2 files, one of which the target refuses; 4 versions; one process that edits and one that runs commands | 3 160 000 |
| `standing` | does no process report an end its command did not have, and does each hear of its own | 2 processes, 1 piece of output; 3 worlds | 336 000 |
| `mirror_kept` | is every edit the agent makes kept (no) | as `mirror`, with the editing process alone | |

Why the bounds are enough to be interesting:

- A workspace needs a daemon coming up and one looking, and a kill needs one to kill and one to come
  up behind it; a start that dies is the daemon that went.
- A turn needs a second turn for anything late to land in, and a second go for anything to come
  between two. Each world has the two hands whose order matters to each other; three at once share
  no flag that two of them do not.
- Chains end, come round or name nobody, and there is a world of each; a third account is the first
  that can be passed over. A second conversation is what moves the agent under the first.
- A watchdog that outlives its go needs one go after it. Two ticks are the least in which the
  clock may be stopped half-way through a silence.
- Two sibling calls and a call under one of them are the smallest case in which sharing is neither a
  chain nor a fork, and the fourth call is there for a task that outlives its caller.
- Requests over a connection touch one another through `_pending`, the sinks and the order of the
  channel alone, so a pair of different kinds meets every case a request can make for another.
- A socket of three pieces takes a frame and half of the next, and a backlog of three drops a
  terminal after one frame that could not be sent.
- Two files are the least for a rename over another, and four versions give each two edits.
- An account that goes and comes back needs a turn before, between and after, so three turns, and a
  server for each.
- Two saves that meet, and one after them that meets no other, are three versions.

Only the constants are bounds: no counter grows without one. `CHECK_DEADLOCK FALSE` is set in all of
them because each actor does what it does once and the system then really has nothing more to do.

### Disagreements

Where the code and its words differ. The first has a run of its own, whose counterexample is in
`PROJECT.json` under `findings`; of the rest most are cases a property leaves out, for the reason
given.

1. *An edit fetched over* (`mirror_kept`). A placeholder opened to be emptied is not fetched, and
   its record goes on saying that its bytes are not here. Opened to be read before the next flush,
   it is fetched from the target over what was written (`shadow.py:137`). `specs/coganchor.md:17`
   says the tool keeps the two in step, and `:97` that an edit is pushed before any command runs.
2. *A kill tidies without the lock.* `daemon/__init__.py:188` looks whether the process has gone
   and then unlinks the socket and the record. A `start` in between has the lock the moment the
   process goes, and loses both files: "a daemon somebody cannot find" (`specs/daemon.md:73`). So
   may a start behind a carrying thread that gives up after `close` has stopped waiting for it
   (`serve.py:222`, `:285`). `HeldIsFindable` and `NeverTakesALiveSocket` are stated of a
   workspace nobody has come to tidying without the lock.
3. *A cut-off does not reach the stand-in's command.* A moved turn is taken by `_falling_back`, so
   the stand-in's session never has `_working` set, and the interrupt handed on to it
   (`base.py:853`) returns at once. `CutReaches` and `CutSettles` leave such a turn out.
4. *A budget that runs out between two commands.* It sets `_over` and not `_cut`; the next command
   is ended as it starts and its wreckage raised as a failure (`base.py:1355`), where
   `docs/features/budgets.md:85` has "a turn ended by its budget landed; it did not fail".
5. *A wait for a command that nobody ends.* The thread that reads the answers fails what is waiting
   as it ends, once. A command asked for after that, whose request the socket still took, is
   waited for without limit (`machines/mapped.py:254`). `LossIsTold` is of what was waiting then.
6. *Settled against the agent and not the caller.* `runs_at` reads the agent, which where two
   calls beside each other hold it is set up as the flow above both. Each of the two then runs at
   what the flow above settled, where `specs/flows.md:307` has "Two calls holding one agent at
   once MUST each get what it declared"; and a call the tighter of them makes meanwhile is settled
   against that, where `:305` has it measured "against what the calling flow settled".
   `SettledUnderTheCaller` is of a call whose agent only the flows above it have.
7. *A flow called twice in one run.* Both calls have a `State` of one part of the file, whichever
   saves last has it, and the first is saved again over the second as the run ends (`epic.py:787`).
   `CarriesOn` is of what was saved last, whichever call's that is. And a task that outlives the
   record it was called under is not saved again when it is over, where `specs/SPEC.md:670` has what
   is written inside a value "saved again when the run ends".
8. *A stream that ends badly.* A line of JSON cut off half-way, or an answer that cannot be written,
   raises out of Codex's pump before anybody is told, where `zcode.py:569` has a `finally` for that
   very reason. `NobodyLeftWaiting` is of a stream read to its end.
9. *Two conversations moving one agent.* Where the agent is and moving it are two steps
   (`base.py:1539` and `:1550`), so the later of two `fall_back`s can drag it back onto an account
   somebody has left, which the comment between them says it must not. `WalkedAlone` is of a
   turn during which nobody else moved the agent.
10. *Saves that meet.* A flow that an agent's tool calls runs on a thread of the tool's
   (`docs/weaver/tools.md:58`), and a `State` keeps out another save of itself alone (`epic.py:440`,
   `:485`). Two saves on two threads read one file and write one file beside it: either may
   lose the other's flow, and what is left may be no JSON at all, which is read as nothing. "Neither
   writes the other's" (`specs/SPEC.md:665`). `CarriesOn` is, of each flow, from its next save that
   meets no other.
11. *Let go of and not told.* A terminal that joins between everybody being listed and the loop
    being told to end learns of it by its socket closing (`serve.py:218`), as does one whose
    goodbye would follow part of a frame, and one that types at the closed socket before it has
    read the goodbye (`attach.py:160`). One that has connected and not been accepted when the
    carrying gives up is left waiting as long as the run goes on (`serve.py:285`), which the
    comment there says must not be. `Told` leaves these out.
12. *A server let go of and not stopped.* One that will not be introduced to (`codex.py:234`) is
    raised about before it is put on the list, or given a finalizer, and goes on running. One
    started for another account is dropped from the list (`:1486`) and stopped by its finalizer
    alone, so that it is still there, holding its threads, when the account comes back and they
    are opened on a third. `NothingForgotten` and `OneHome` leave out servers let go of so
    (`adrift`).
13. *An interrupt or a kill that comes late.* A watchdog's interrupt tells whoever watches the
    turn before it ends what the conversation is on (`base.py:847`). Where that takes longer than
    the five seconds the go's end waits for the watchdog, what it ends is the next go's; and a
    process told to go, which stayed and carries the next go, is killed under it.
    `watchdog.py:411` calls that "the one thing worse than doing nothing". `HandsOff` is of
    everything else. A session whose `_lets_go` raises is not asked again (`watchdog.py:520`), and
    the go stays stuck: `StuckEnds` leaves it out.
14. *A command that is over with others still there.* Where a command's own process has exited and
    what it started goes on, holding its output, the session is still there and shutting it down
    signals nobody (`sessions.py:186`), where `specs/coganchor.md:93` has "when coganchor exits
    nothing it started is left running". `NothingLeft` is of the groups of commands that were
    killed.
15. *Output dropped.* Where a descriptor could not be taken from the process, or writing to it
    fails, output is dropped and the status is still the command's (`execproxy.py:180`, `:270`),
    where `specs/coganchor.md:83` has "the same output". `Honest` is of output written or dropped
    so, none of it still on its way.
16. *A signal that does not land.* A stand-in that ignores or blocks the signal its command ended
    of runs the stub, which exits with 0 (`supervisor.py:475`), and one with no room for the
    stub's path (`standin.py:84`) runs the program on this machine; "a command killed there kills
    its local counterpart the same way" (`specs/coganchor.md:87`). One for a command that takes
    more than five seconds to begin is dropped at the target, the kill too (`sessions.py:183`),
    and none is relayed while other processes keep the loop busy (`supervisor.py:264`), where
    `:86` has "signals travel both ways". A process whose death `park` itself was told of is not
    taken off the loop's books, and its command goes on. `Honest`, `NeverLosesTrack` and
    `SignalsTravel` say of each what does hold.

## 4. Fairness

Weak fairness everywhere, of threads of humanize's own that have something to do and nobody to stop
them. No other program is owed anything unless it says so below.

- `Daemon`: the caller's steps and nothing else. `start` is a straight line with a limit on its
  one wait; a detached child may be wedged, killed or merely slow, and `StartSettles` has to
  hold all the same.
- `Carrying`: the loop, and its going round the terminals it has read something for, as long as
  the process is there; what it asks the run for in answer to a terminal's question returns.
  Terminals are owed nothing: `RunDraws` has to hold for one that never reads.
- `Turn`: the thread driving the turn, and an interrupt once it has begun. A backend is owed
  nothing: `CutSettles` has to hold for one that never says another word.
- `Walk`: each conversation's thread; a go is one step of it, since what ends one is `Turn`'s.
- `Watching`: the clock, each watchdog's thread and whoever it tells of an interrupt, each holder
  letting go of the clock, and the thread reading a go noticing that it has ended. A stuck backend
  does nothing.
- `Server`: the conversations' threads, those that read each server's stream, and the stopping of a
  server that was taken off the list. The servers themselves are owed nothing: every claim about
  them has to hold for one that never answers, and there is no property that one does.
- `Remote`: the thread that reads the answers, `close` once it has begun, and each step of whoever
  asked that sends or waits, a call's limit among them. The target and the line are owed nothing.
- `Standing`: the loop, which comes to these processes however many others stop (that it relays
  signals is only claimed where the others leave off), the threads of each proxy, and noticing a
  lost connection; of the kernel that a process let go of ends, and of the target that it starts
  what it is asked to and that a kill ends a command. No command ends of itself.
- `Calls`, `Epic`, `Mirror`: none; what is said of them is of safety.

## 5. Proofs

Every invariant and every action property of a passing run, and both refinements, are proved for
every value of the constants that the named assumptions of the modules allow. A type theorem is
proved for each module as well. What each theorem says is in `PROJECT.json` under `theorems`; here
is what it rests on.

### The daemon: `DaemonProofs`

| theorem | says |
|---|---|
| `TypeCorrect`, `CarryingTypeCorrect` | the states are ones the code can write down |
| `MutualExclusion`, `HolderListens` | `Spec => []OneHolder`, `Spec => []OnlyTheHolderListens` |
| `Findable`, `StaleIsStale` | `Spec => []HeldIsFindable`, `Spec => NeverTakesALiveSocket` |
| `Implements` | `Spec => AbstractSpec`: `Daemon` implements `Workspace` |
| `EverythingInOrder`, `ToldWhy`, `SomethingShown` | `CarryingSpec => []InOrder`, `[]Told`, `[]Shown` |

`IInv`: `OneHolder` says that the children past `where.holds` are exactly the lock's holder, and is
not inductive alone. `Forks` would put a child that is holding the lock back to the start (so
`ForksOnce`), a process that dies must take its listening socket along (so `ListensWhileUp`), and a
signal must be sent to a process that has been (so `NumbersHaveBeen`), and the carrying thread is up
only once the child is (`CarriesOnceUp`). `Findable` adds
`FilesAreIts`, how far the two files have got for each place of the holder, until somebody tidies
without the lock; its step from
`ClearsStale` to `Binds` is where the lock is needed, and it is what `SweepsSocket` breaks.

`CarryingInv` is, of the loop, what is kept for whoever comes first (`Kept`) and that a loop no
longer carrying has nobody left to see off (`Rounds`); and of each terminal three things.
`Placed`: it connects once, says one thing, is let go of once, and its socket is closed once.
`Reading`: what it has drawn and what is on its way, all in whole frames but for the one being
sent, are what was drawn since it came; and something has been shown, is on its way, or is about
to be. `Owed`: its reason is on its way or there is room for it, unless the process has gone with
the loop still at work (`Rushed`). Most steps touch one terminal, and `Apart` says what leaves the
others alone. What sequences there are to know about (that whole frames put together are whole,
that what is drawn from two is what is drawn from each, where the first whole one ends in what has
arrived) is proved first, by the least counterexample among the naturals, since the library's
induction takes an operator no prover here can instantiate.

### A turn: `TurnProofs`

| theorem | says |
|---|---|
| `TypeCorrect`, `NothingIsLeft`, `OneGoAfterAStop` | `Spec => []TypeOK`, `[]NothingStaysMounted`, `[]OneMoreAtMost` |
| `SkillsStayDown`, `CutsReach` | `Spec => []StillMounted`, `[]CutReaches` |

`IInv` is what the flags may be, that a place is gone to with a go left, that `_working` stands
exactly between `stream`'s lock and its `finally`, and that a command runs only where the thread
that started it waits on it. Each theorem adds what it is about. Skills go because somebody still
has to take them (`SomebodyTakesAway`: the turn, on its way out, or an ender that has not looked
yet); one command more is the last because the thread is then past the places a go is taken from
(`LastOne`); skills stay because a stop marks the agent before it looks whether a turn is working
(`KeptDown`); a cut-off is not lost because the command is where `_underway` finds it from being
registered to being read (`Reachable`), and is looked at again after being registered.

### After a go, and over one: `GoesProofs`

| theorem | says |
|---|---|
| `NothingToTheNext`, `CutOffFails`, `TypeCorrect` | `Watching`'s `Spec => []HandsOff`, `[]NeverPassesForShort`, `[]TypeOK` |
| `AloneAllTheWay`, `WalkTypeCorrect` | `WalkSpec => []WalkedAlone`, `[]WalkTypeOK` |

`HandsOff` needs only that a watchdog whose go is over is in one of the places in which it does
nothing more to a go (`OnlyItsOwn`), which holds because the go's end waits for the thread
wherever it is not `Blocked`. `CutOffFails` adds that the session is marked wedged before its turn
is asked to stop (`WedgedFirst`). A walk nobody came across (`Walks`) has been wherever the
accounts it was under fall to (`Leads`), but for where it is; what an agent holds of an account is
what is written down of it (`AsWritten`). That a chain as `providers.chain` gives it begins with
what its first account falls to (`ChainBegins`) is by induction on its length, and that it ends is
where `Accounts` has to be finite.

### Servers: `ServerProofs`

| theorem | says |
|---|---|
| `NoneIsForgotten`, `AtOneHome`, `RoutedRight`, `EverybodyIsTold` | `Spec => []NothingForgotten`, `[]OneHome`, `[]Routed`, `[]NobodyLeftWaiting` |
| `InItsOwnWords` | `Spec => OwnWords` |
| `TypeCorrect` | `Spec => []TypeOK` |

`SInv` is the types, where each conversation can be (`Placed`), whose each server is (`Housed`:
what is running is listed, about to be stopped, being started or let go of; each thread is held by
the server it is open on, where that was not let go of: `Homes`) and what has been heard (`Heard`:
a mailbox holds what is its own, and who listens to a server that has gone has been told so).
`InItsOwnWords` is an action property and needs `OInv`: of a conversation none of whose turns was
left, what a server runs, is asked, has said and has put in the mailbox is of the turn being
taken, in the order it was said in, and nothing follows its end (`Owned`), a thread being asked
for by one conversation alone (`Sought`).

### Calls: `CallsProofs`

| theorem | says |
|---|---|
| `GoesBackAsItCame`, `NoLooserThanTheCaller` | `Spec => []HandedBack`, `Spec => SettledUnderTheCaller` |
| `OnTheBranchOfItsCaller`, `NeverUnderASibling` | `Spec => []BranchIsTheCallers`, `[]NeverFiledUnderASibling` |
| `InTheCallersRecord`, `TypeCorrect` | `Spec => FiledUnderWhoCalled`, `[]TypeOK` |

`HInv`: what is held is held by those that have taken and not ended, and what is kept of an agent
(`_CLAIMED`) is how it was before the first of them. `BInv`: `_ON` is the flow whose code is
running in that task (`OnIsWhoRuns`), callers have run (`MadeByTheRunning`), and branches are
finite and hold those above them (`Chained`), for the depth of a branch to grow by one with each
call. `PInv` puts the two together: where each agent points is a branch all its holders share
(`Pointing`). Where its holders are a chain that is the innermost of them, and what it is set up
as is what that one settled, which is `NoLooserThanTheCaller`.

### Connections: `RemoteProofs`

| theorem | says |
|---|---|
| `ToldOnlyOnce`, `LeavesNothing`, `TypeCorrect` | `Spec => []ToldOnce`, `[]NothingLeft`, `[]TypeOK` |
| `AnsweredOnlyOnce` | `Spec => AnsweredOnce`: `Remote` implements `Exchange` |

Until close gives up waiting, a command that is still in `_pending` is about to be failed by
nobody and has been told by nobody, and one about to be failed is so by one of the two only
(`OneTeller`); `CloseWaits` is why close is never the second. `AnsweredOnlyOnce` is by what can be
where: anything at the target or on its way there has been asked for (`KnownOnlyIfBegun`), and
anything on its way back, found, or settled on has been done (`HeardOnlyIfHandled`). Then each
step of whoever asked is a step of `Exchange` or none of it, and each of the target's is `Handles`
or none. What runs or is half written at the target is still in the hands of the loop that is to
take it away (`Keeping`), and a command that is killed goes with what it started (`WithItsGroup`).

### The supervisor: `SupervisorProofs`

| theorem | says |
|---|---|
| `NothingRunsOn`, `NoFalseSuccess`, `TypeCorrect` | `Standing`'s `Spec => []NeverLosesTrack`, `[]Honest`, `[]TypeOK` |
| `EditsReachTheTarget`, `BytesAreThere`, `KeptInStep` | `MirrorSpec => []CommandsSeeTheEdits`, `[]LetThroughWhole`, `[]InStep` |
| `NoEditTaken` | `MirrorSpec => KeepsEdits` |

In `Standing`, `LInv` keeps track of each command (who would hear of its end, and that an end on
its way to the loop is of a command that has ended or was given up); `OInv` adds what is in each
thread's hands: an answer is the last thing on its wire (`Framed`), the pieces written, dropped,
queued and coming are as many as the command wrote (`Poured`), an end follows all of them
(`Answered`, `Filed`, `Closed`), and a process ends as its command's end shows in it (`Shows`).

In `Mirror` each property has an invariant of its own over `Structured`, what a handler, a call and
the books may be in each stage. For edits, `EInv`: a version about to be written is
nowhere yet (`Pending`); whoever is let through while a name is on its way has its call crossed
(`Crossing`), and otherwise has what it writes noted and what it reads here (`LetWhole`); and what
was edited here and the target has not had is among what the next flush looks at (`Looked`). For
bytes: a placeholder is known for one in the books (`HoleKnown`), also under a name it is being
moved to (`MoverKnown`) and while it is pushed (`PushedHole`). For being in step, `AInv`: what the
books say is here is what they say is there (`Books`), a listing still to be applied is what the
target has (`Listed`), and so for each name and each move under way. Two attempts at the induction
failed because `exposed` and `strayed` were too small for orders of calls the instance is too
short for; both are corrected.

### Epics: `EpicProofs`

| theorem | says |
|---|---|
| `ReadsBackWhole`, `TypeCorrect` | `Spec => []ReadsBack`, `[]TypeOK` |
| `NextCarriesOn` | `Spec => []CarriesOn` |

`ReadsBackWhole` rests on the lines of the records alone (`Told`). For `NextCarriesOn`: what a
flow holds is no older than what was saved of it (`Ahead`); a save that meets no other has the
file beside to itself, and what it is about to put in the place of the file is what was there with
its own flow written anew (`Apart`); and of each flow no save has met another's over, the newest
run that has anything has the last of it (`Last`).

### Only model-checked

`StartSettles`, `RunDraws`, `CutSettles`, `WalkEnds`, `StuckEnds`, `LossIsTold`, `Reported` and
`SignalsTravel`: liveness under fairness is beyond the prover, and so is `ENABLED`. The other way
round, TLC sees each property of a run on one small instance, with a mutation of the code it
catches.

## 6. What is not modelled

Each component in `PROJECT.json` has a note of what is and is not; the modules' own sections above
name what they leave out. In all, not modelled are:

- the terminal interface, the command line and the library: drawing, parsing and printing over the
  rest. The queue of lines typed while a turn runs is a hazard without a property;
- the checkers of flows' source and of atlases (`checking.py`, `proving.py`, `prophesying.py`):
  functions over syntax trees, of which no bounded set of inputs says much;
- finding and naming flows, tracing, telemetry and exporting: readers of files;
- the catalogues of models, prices and backends: tables;
- the wire protocols of all backends but Codex's, which the source uses and does not state;
- the network proxy, tunnels and which system calls are relayed: other programs' interfaces. Of
  tunnels it is worth knowing that input for one not connected yet is waited for in the target's
  one loop (`serve/sessions.py:334`), which holds up the rest of the connection;
- hooks, tools, people and the board, but for the choices they lead to in `Turn`.
