-------------------------------- MODULE Daemon --------------------------------
(***************************************************************************)
(* How one workspace's run is put in a process of its own, found again and *)
(* ended: hmz.daemon.start, .running, Daemon.kill and serve.hosts, over    *)
(* the three files of the daemon's directory (the lock, the socket and the *)
(* note beside it).  A process here is one call of start: its caller and   *)
(* the detached child the caller forks.  Anything may be killed at any     *)
(* point, and the number of a process that has gone may come round again.  *)
(***************************************************************************)
EXTENDS FiniteSets

CONSTANTS Procs,    \* calls of start in this workspace, each with its child
          Killers,  \* calls of Daemon.kill
          None      \* no process, no file

ASSUME NobodyAssumption == None \notin Procs \cup Killers
ASSUME ApartAssumption == Procs \cap Killers = {}

VARIABLES
    child,    \* how far the detached process of each call has got
    carrier,  \* how far the thread that carries its run has got
    lock,     \* who holds the directory's flock
    sock,     \* whose socket the path names (a file outlives its owner), or None
    note,     \* whose pid the record names, or None
    listens,  \* the processes whose own listening socket is open
    pipe,     \* what the pipe to each waiting caller holds
    caller,   \* how far each call of start has got
    killer,   \* how far each call of kill has got
    seen,     \* the pid each killer read off the record
    reused    \* dead processes whose number somebody else has now

vars == <<child, carrier, lock, sock, note, listens, pipe, caller, killer, seen, reused>>

-----------------------------------------------------------------------------
(* Types.                                                                  *)

\* The child between taking the lock and letting it go: in `hosts`, or on its way out of a
\* process that could not go on there.
Opening == {"holding", "cleared", "bound", "listening", "noted"}
Shutting == {"over", "closed", "unsocketed", "unnoted"}
Hosting == Opening \cup {"running", "failing"} \cup Shutting

ChildStates == {"unborn", "forked", "leaving", "dead"} \cup Hosting
\* The carrying thread: on its way out of giving up with the lock held, and without it.
CarrierStates == {"off", "on", "deaf", "socketless", "over"} \cup {"straying", "strayed"}
CallerStates == {"idle", "connecting", "looked", "waiting", "rereading",
                 "reconnecting", "held", "refused", "failed"}
KillerStates == {"idle", "connecting", "found", "termed", "killed",
                 "sweeping", "swept", "done"}

TypeOK ==
    /\ child \in [Procs -> ChildStates]
    /\ carrier \in [Procs -> CarrierStates]
    /\ lock \in Procs \cup {None}
    /\ sock \in Procs \cup {None}
    /\ note \in Procs \cup {None}
    /\ listens \in SUBSET Procs
    /\ pipe \in [Procs -> {"open", "listening", "error", "eof"}]
    /\ caller \in [Procs -> CallerStates]
    /\ killer \in [Killers -> KillerStates]
    /\ seen \in [Killers -> Procs \cup {None}]
    /\ reused \in SUBSET Procs

Init ==
    /\ child = [p \in Procs |-> "unborn"]
    /\ carrier = [p \in Procs |-> "off"]
    /\ lock = None
    /\ sock = None
    /\ note = None
    /\ listens = {}
    /\ pipe = [p \in Procs |-> "open"]
    /\ caller = [p \in Procs |-> "idle"]
    /\ killer = [k \in Killers |-> "idle"]
    /\ seen = [k \in Killers |-> None]
    /\ reused = {}

-----------------------------------------------------------------------------
(* Helpers.                                                                *)

\* where.alive: a process of that number is there, whoever it is.
Alive(p) == child[p] \notin {"unborn", "dead"} \/ p \in reused

\* where.held: the record names a process that is there.
Noted == note # None /\ Alive(note)

\* _listening: a connect to the path is taken.
Answers == sock \in listens

\* What the kernel does with whatever ends: its threads, the flock and the listening socket
\* go with the process, the two files stay, and a pipe nothing was said on reads as ended.
Gone(p) ==
    /\ child' = [child EXCEPT ![p] = "dead"]
    /\ carrier' = [carrier EXCEPT ![p] = IF @ \in {"straying", "strayed"} THEN "strayed" ELSE "over"]
    /\ lock' = IF lock = p THEN None ELSE lock
    /\ listens' = listens \ {p}
    /\ pipe' = [pipe EXCEPT ![p] = IF @ = "open" THEN "eof" ELSE @]

\* Everything but the directory and the child is left as it was.
Steps(p, from, to) ==
    /\ child[p] \in from
    /\ child' = [child EXCEPT ![p] = to]
    /\ UNCHANGED <<carrier, pipe, caller, killer, seen, reused>>

\* What went wrong goes down the pipe before the process does.
Complains(p, from, to) ==
    /\ child[p] \in from
    /\ child' = [child EXCEPT ![p] = to]
    /\ pipe' = [pipe EXCEPT ![p] = "error"]
    /\ UNCHANGED <<carrier, lock, listens, note, caller, killer, seen, reused>>

-----------------------------------------------------------------------------
(* Faulty forms of the definitions below, each one a plausible edit.  The  *)
(* runs put them in place of the sound ones to show which property breaks. *)

\* The workspace is looked at rather than locked.
FaultHolds(p) ==
    /\ ~(Noted /\ Answers)
    /\ Steps(p, {"forked"}, "holding")
    /\ lock' = p
    /\ UNCHANGED <<sock, note, listens>>

\* The stale socket is cleared whether or not the lock was taken.
FaultRefused(p) ==
    /\ lock # None
    /\ Complains(p, {"forked"}, "leaving")
    /\ sock' = None

\* The run is announced with nothing written down about it.
FaultNotes(p) ==
    /\ Steps(p, {"listening"}, "noted")
    /\ UNCHANGED <<lock, sock, note, listens>>

\* No limit on how long the caller waits for its child.
FaultTimesOut(p) == FALSE /\ UNCHANGED vars

-----------------------------------------------------------------------------
(* The detached child: serve.hosts.                                        *)

\* where.holds takes the flock, or raises and the child says why and exits.
Holds(p) ==
    /\ lock = None
    /\ Steps(p, {"forked"}, "holding")
    /\ lock' = p
    /\ UNCHANGED <<sock, note, listens>>

Refused(p) ==
    /\ lock # None
    /\ Complains(p, {"forked"}, "leaving")
    /\ UNCHANGED sock

\* _listens: whatever socket file is there is stale and goes; then bind; then listen.
ClearsStale(p) ==
    /\ Steps(p, {"holding"}, "cleared")
    /\ sock' = None
    /\ UNCHANGED <<lock, note, listens>>

Binds(p) ==
    /\ sock = None
    /\ Steps(p, {"cleared"}, "bound")
    /\ sock' = p
    /\ UNCHANGED <<lock, note, listens>>

Listens(p) ==
    /\ Steps(p, {"bound"}, "listening")
    /\ listens' = listens \cup {p}
    /\ UNCHANGED <<lock, sock, note>>

\* where.wrote: written beside and moved into place, so one step to anybody reading.
Notes(p) ==
    /\ Steps(p, {"listening"}, "noted")
    /\ note' = p
    /\ UNCHANGED <<lock, sock, listens>>

\* "listening" down the pipe, and the run is opened, with a thread to carry it.
Tells(p) ==
    /\ child[p] = "noted"
    /\ child' = [child EXCEPT ![p] = "running"]
    /\ carrier' = [carrier EXCEPT ![p] = "on"]
    /\ pipe' = [pipe EXCEPT ![p] = "listening"]
    /\ UNCHANGED <<lock, sock, note, listens, caller, killer, seen, reused>>

\* A directory that cannot be written, a path that cannot be bound: `_detaches` says so down
\* the pipe and the process goes, whatever files it had made and the lock with it.
FailsToHold(p) ==
    /\ \/ Complains(p, {"forked"}, "leaving")
       \/ Complains(p, Opening, "failing")
    /\ UNCHANGED sock

\* Held._carries after _WRONG bad rounds in a row: nothing can be carried any more, so
\* the carrying thread stops anything being told there is a run here to read, by taking away
\* what is there.  close waits for it no longer than _PATIENCE, so it may come to that with
\* the lock let go of.
Carries(p, from, to) ==
    /\ child[p] # "dead" /\ carrier[p] \in from
    /\ carrier' = [carrier EXCEPT ![p] = to]
    /\ UNCHANGED <<child, lock, pipe, caller, killer, seen, reused>>

GivesUp(p) ==
    /\ Carries(p, {"on"}, "deaf")
    /\ listens' = listens \ {p}
    /\ UNCHANGED <<sock, note>>

DropsSocket(p) ==
    /\ Carries(p, {"deaf"}, IF lock = p THEN "socketless" ELSE "straying")
    /\ sock' = None
    /\ UNCHANGED <<note, listens>>

DropsNote(p) ==
    /\ Carries(p, {"socketless", "straying"},
               IF lock = p /\ carrier[p] = "socketless" THEN "over" ELSE "strayed")
    /\ note' = None
    /\ UNCHANGED <<sock, listens>>

Carrier(p) == GivesUp(p) \/ DropsSocket(p) \/ DropsNote(p)

\* The run is over: it ended, it raised, or somebody asked it to stop.
RunEnds(p) ==
    /\ Steps(p, {"running"}, "over")
    /\ UNCHANGED <<lock, sock, note, listens>>

\* Held.close, Held._unlisten and then the lock, in that order.  Told that it is over, the
\* carrying thread comes out of its loop, unless close has waited for it in vain.
StopsListening(p) ==
    /\ child[p] = "over"
    /\ child' = [child EXCEPT ![p] = "closed"]
    /\ carrier' \in {carrier, [carrier EXCEPT ![p] = IF @ = "on" THEN "over" ELSE @]}
    /\ listens' = listens \ {p}
    /\ UNCHANGED <<lock, sock, note, pipe, caller, killer, seen, reused>>

TakesSocket(p) ==
    /\ Steps(p, {"closed"}, "unsocketed")
    /\ sock' = None
    /\ UNCHANGED <<lock, note, listens>>

TakesNote(p) ==
    /\ Steps(p, {"unsocketed"}, "unnoted")
    /\ note' = None
    /\ UNCHANGED <<lock, sock, listens>>

LetsGo(p) ==
    /\ Steps(p, {"unnoted"}, "leaving")
    /\ lock' = None
    /\ UNCHANGED <<sock, note, listens>>

\* os._exit, of a process that has let go of the lock, never had it, or leaves it to the kernel.
Goes(p) ==
    /\ child[p] \in {"leaving", "failing"}
    /\ Gone(p)
    /\ UNCHANGED <<sock, note, caller, killer, seen, reused>>

\* Killed where it stands: by the machine, by a signal, by anything.
Dies(p) ==
    /\ child[p] \notin {"unborn", "dead"}
    /\ Gone(p)
    /\ UNCHANGED <<sock, note, caller, killer, seen, reused>>

\* A number comes round: a dead process's pid is somebody else's from here on, which
\* tells nothing to anybody unless the record or a killer still goes by it.
NumberComesRound(p) ==
    /\ child[p] = "dead"
    /\ p = note \/ \E k \in Killers : p = seen[k] /\ killer[k] \notin {"swept", "done"}
    /\ reused' = reused \cup {p}
    /\ UNCHANGED <<child, carrier, lock, sock, note, listens, pipe, caller, killer, seen>>

Child(p) ==
    \/ Holds(p) \/ Refused(p) \/ ClearsStale(p) \/ Binds(p) \/ Listens(p)
    \/ Notes(p) \/ Tells(p) \/ FailsToHold(p) \/ RunEnds(p) \/ StopsListening(p)
    \/ TakesSocket(p) \/ TakesNote(p) \/ LetsGo(p) \/ Goes(p)

-----------------------------------------------------------------------------
(* The caller: hmz.daemon.start, which reads the directory before the fork *)
(* and again once the child has said something, each time in the two       *)
(* looks _read takes: at the record, then at the socket.                   *)

Calls(p, from, to) ==
    /\ caller[p] = from
    /\ caller' = [caller EXCEPT ![p] = to]
    /\ UNCHANGED <<carrier, lock, sock, note, listens, pipe, killer, seen, reused>>

Looks(p) ==
    /\ Calls(p, "idle", IF Noted THEN "connecting" ELSE "looked")
    /\ UNCHANGED child

\* EADDRINUSE for a run already held, and on to the fork for one that is not.
Connects(p) ==
    /\ Calls(p, "connecting", IF Answers THEN "refused" ELSE "looked")
    /\ UNCHANGED child

Forks(p) ==
    /\ Calls(p, "looked", "waiting")
    /\ child' = [child EXCEPT ![p] = "forked"]

\* _waits: "listening" or nothing more to come goes on to read the directory again; a
\* reason is raised; and a child that says nothing in time is not waited on for ever.
Hears(p) ==
    /\ pipe[p] \in {"listening", "eof"}
    /\ Calls(p, "waiting", "rereading")
    /\ UNCHANGED child

HearsWhy(p) ==
    /\ pipe[p] = "error"
    /\ Calls(p, "waiting", "failed")
    /\ UNCHANGED child

TimesOut(p) ==
    /\ pipe[p] = "open"
    /\ Calls(p, "waiting", "rereading")
    /\ UNCHANGED child

LooksAgain(p) ==
    /\ Calls(p, "rereading", IF Noted THEN "reconnecting" ELSE "failed")
    /\ UNCHANGED child

ConnectsAgain(p) ==
    /\ Calls(p, "reconnecting", IF Answers THEN "held" ELSE "failed")
    /\ UNCHANGED child

Caller(p) ==
    \/ Looks(p) \/ Connects(p) \/ Forks(p) \/ Hears(p) \/ HearsWhy(p)
    \/ TimesOut(p) \/ LooksAgain(p) \/ ConnectsAgain(p)

-----------------------------------------------------------------------------
(* Somebody ending it the last way there is: running() and Daemon.kill.    *)

Kills(k, from, to) ==
    /\ killer[k] \in from
    /\ killer' = [killer EXCEPT ![k] = to]
    /\ UNCHANGED <<caller, reused>>

Finds(k) ==
    /\ Noted
    /\ Kills(k, {"idle"}, "connecting")
    /\ seen' = [seen EXCEPT ![k] = note]
    /\ UNCHANGED <<child, carrier, lock, sock, note, listens, pipe>>

Reaches(k) ==
    /\ Kills(k, {"connecting"}, IF Answers THEN "found" ELSE "done")
    /\ UNCHANGED <<child, carrier, lock, sock, note, listens, pipe, seen>>

\* A signal ends the process, or (SIGTERM only) the process goes on regardless; one
\* sent to a number that has come round is somebody else's, and not followed here.
Signals(k, from, to, mayLive) ==
    LET p == seen[k] IN
    /\ Kills(k, from, to)
    /\ \/ /\ child[p] # "dead"
          /\ Gone(p)
       \/ /\ child[p] = "dead" \/ mayLive
          /\ UNCHANGED <<child, carrier, lock, listens, pipe>>
    /\ UNCHANGED <<sock, note, seen>>

Terms(k) == Signals(k, {"found"}, "termed", TRUE)

\* _gone ran out of time with the process still there.
KillsOutright(k) ==
    /\ killer[k] = "termed"
    /\ Alive(seen[k])
    /\ Signals(k, {"termed"}, "killed", FALSE)

\* Still there after that: a number that has come round, and nothing is tidied.
LeavesBe(k) ==
    /\ Kills(k, {"killed"}, "done")
    /\ Alive(seen[k])
    /\ UNCHANGED <<child, carrier, lock, sock, note, listens, pipe, seen>>

\* Gone: the two files go, whosever they are by now, and the lock is not asked for.
SweepsSocket(k) ==
    /\ Kills(k, {"termed", "killed"}, "sweeping")
    /\ ~Alive(seen[k])
    /\ sock' = None
    /\ UNCHANGED <<child, carrier, lock, note, listens, pipe, seen>>

SweepsNote(k) ==
    /\ Kills(k, {"sweeping"}, "swept")
    /\ note' = None
    /\ UNCHANGED <<child, carrier, lock, sock, listens, pipe, seen>>

Killer(k) ==
    \/ Finds(k) \/ Reaches(k) \/ Terms(k) \/ KillsOutright(k) \/ LeavesBe(k)
    \/ SweepsSocket(k) \/ SweepsNote(k)

-----------------------------------------------------------------------------
Next ==
    \/ \E p \in Procs : Child(p) \/ Carrier(p) \/ Caller(p) \/ Dies(p) \/ NumberComesRound(p)
    \/ \E k \in Killers : Killer(k)

\* Only the caller's own steps are owed: a detached child may be wedged for ever.
Spec == Init /\ [][Next]_vars /\ \A p \in Procs : WF_vars(Caller(p))

-----------------------------------------------------------------------------
(* Properties.                                                             *)

\* One daemon per workspace: of all the processes that have got past the lock and have
\* not gone, there is one, it holds the lock, and no lock is left by one that has gone
\* (where.holds; src/specs/daemon.md:72-77).
OneHolder == \A p \in Procs : child[p] \in Hosting <=> lock = p

\* A listening socket is only ever the lock holder's, so what a terminal reaches through
\* the path is the one run there is (serve._listens).
OnlyTheHolderListens == \A p \in listens : lock = p

\* Nobody has come to tidying the directory without the lock: a kill, or a carrying thread
\* that gives up after close has given up waiting for it.
NobodyTidied ==
    /\ \A k \in Killers : killer[k] \notin {"sweeping", "swept"}
    /\ \A p \in Procs : carrier[p] \notin {"straying", "strayed"}

\* A run that is going on and can be read is one somebody can find: the path is its own socket, open, and
\* the record names it (src/specs/daemon.md:72-74, "a daemon somebody cannot find is a
\* daemon nobody can stop").
HeldIsFindable ==
    NobodyTidied =>
        \A p \in Procs : child[p] = "running" /\ carrier[p] = "on" =>
            sock = p /\ p \in listens /\ note = p

\* A socket something still listens on is never taken off the path: what _listens clears
\* as stale is never one a daemon coming up beside it has bound (serve._listens).
NeverTakesALiveSocket ==
    [][sock' # sock /\ sock \in Procs /\ NobodyTidied' => sock \notin listens']_vars

\* Whoever asked for a daemon is told, even by a child that never gets to say anything
\* (_waits, src/specs/daemon.md "MUST be told whether it came up").
StartSettles ==
    \A p \in Procs : caller[p] = "waiting" ~> caller[p] \in {"held", "failed"}

\* One run in a workspace at a time, whoever starts, dies, gives up or is killed, and a
\* workspace that nobody is in is free: what a process does there, and not the lock it does it
\* under, is what is one at a time (where.holds; src/specs/daemon.md:72-77).
Abstract == INSTANCE Workspace WITH
    inside <- {p \in Procs : child[p] \in Hosting},
    been <- {p \in Procs : child[p] \notin {"unborn", "forked"}},
    free <- lock = None
AbstractSpec == Abstract!Spec
=============================================================================
