------------------------------ MODULE Standing ------------------------------
(***************************************************************************)
(* The processes that stand in for commands running on the target: the      *)
(* loop of coganchor/supervisor.py, the parking of a process in              *)
(* coganchor/standin.py, and the threads of coganchor/execproxy.py that      *)
(* carry a command's streams and its end.                                   *)
(*                                                                         *)
(* One thread runs the loop and may be inside a handler while anything else *)
(* happens: a process may be killed or signalled at any of its stops, the   *)
(* connection may go, and answers and output arrive on threads of their     *)
(* own.  A process starts one command; the target's end is Remote's.        *)
(***************************************************************************)
EXTENDS Naturals, Sequences, FiniteSets

CONSTANTS Procs,    \* the agent's processes that may start a command each
          Pieces,   \* the pieces of output a command writes at most
          Worlds    \* which of them do, which are signalled or killed, which command reads
                    \* until its input ends and which writes, which takes more than five
                    \* seconds to begin, which process may have no room for the stub's path,
                    \* which one a signal to cancel it does not end, and whether others of
                    \* the agent's are at work, in each world

ASSUME PiecesAssumption == Pieces \in Nat
ASSUME WorldsAssumption ==
    Worlds \subseteq [asks : SUBSET Procs, cut : SUBSET Procs, readers : SUBSET Procs,
                     writers : SUBSET Procs, slow : SUBSET Procs, full : SUBSET Procs,
                     deaf : SUBSET Procs, others : BOOLEAN]

VARIABLES
    proc,      \* each process, as the kernel has it
    status,    \* what each that stood in for a command has ended with
    world,     \* the one of Worlds this is
    root,      \* whether the agent's first process is there
    busy,      \* whether another of its processes has stopped at a call of its own
    pending,   \* the signals queued against each
    known,     \* Supervisor._tracees
    proxied,   \* the tracees whose proxy is set
    sup,       \* where the loop is, and on which process
    taken,     \* those whose death park's own wait was told of
    cmd,       \* each command on the target
    how,       \* what each has ended with
    made,      \* the pieces of output each has written
    input,     \* the input of each: open, ended by the agent, or its end sent
    wire,      \* what is on its way back of each
    awaited,   \* the commands RemoteClient waits for an answer of
    sent,      \* the signals sent to each, ExecProxy._forwarded and the kill
    missed,    \* those of them the target let go of, the command not having begun
    outbox,    \* ExecProxy._outbox
    result,    \* ExecProxy._result
    given,     \* the pieces written to the process's own descriptors
    spilt,     \* those dropped there, for want of one or because it would not take them
    pump,      \* the thread that hands them over
    finished,  \* Supervisor._completions
    link       \* the connection: there, lost, or known here to be lost

kernel == <<proc, status, pending, root, busy, world>>
loop == <<known, proxied, sup, taken>>
target == <<cmd, how, made, wire, missed>>
proxy == <<outbox, result, given, spilt, pump, finished>>
vars == <<kernel, loop, target, input, awaited, sent, proxy, link>>

Cancels == "term"   \* a signal an agent cancels a command with
Idle == [at |-> "idle", on |-> {}]
At(stage, p) == [at |-> stage, on |-> {p}]

\* Killed, and reaped or not: nothing more happens to it.
Dead(p) == proc[p] \in {"dead", "reaped"}

Init ==
    /\ proc = [p \in Procs |-> "running"] /\ status = [p \in Procs |-> "none"]
    /\ pending = [p \in Procs |-> {}] /\ root = TRUE /\ busy = FALSE /\ world \in Worlds
    /\ known = Procs /\ proxied = {} /\ sup = Idle /\ taken = {}
    /\ cmd = [p \in Procs |-> "none"] /\ how = [p \in Procs |-> "none"]
    /\ made = [p \in Procs |-> 0] /\ input = [p \in Procs |-> "open"]
    /\ wire = [p \in Procs |-> <<>>] /\ awaited = {} /\ sent = [p \in Procs |-> {}]
    /\ missed = [p \in Procs |-> {}]
    /\ outbox = [p \in Procs |-> <<>>] /\ result = [p \in Procs |-> "failed"]
    /\ given = [p \in Procs |-> 0] /\ spilt = [p \in Procs |-> 0] /\ pump = [p \in Procs |-> "off"]
    /\ finished = <<>> /\ link = "up"

-----------------------------------------------------------------------------
(* The agent: its processes start commands, are signalled and killed, end   *)
(* their input, and the first of them goes.                                 *)

\* The filter stops it at the execve, until the loop hears of it.
Asks(p) ==
    /\ p \in world.asks /\ proc[p] = "running" /\ cmd[p] = "none" /\ p \notin proxied
    /\ proc' = [proc EXCEPT ![p] = "asking"]
    /\ UNCHANGED <<status, pending, root, busy, world, loop, target, input, awaited, sent, proxy, link>>

Stopped(p) == proc[p] \in {"asking", "held", "launched", "stayed", "parked"}

Signalled(p) ==
    /\ p \in world.cut /\ Stopped(p) /\ pending[p] = {}
    /\ pending' = [pending EXCEPT ![p] = {Cancels}]
    /\ UNCHANGED <<proc, status, root, busy, world, loop, target, input, awaited, sent, proxy, link>>

Killed(p) ==
    /\ p \in world.cut /\ Stopped(p)
    /\ proc' = [proc EXCEPT ![p] = "dead"] /\ status' = [status EXCEPT ![p] = "kill"]
    /\ UNCHANGED <<pending, root, busy, world, loop, target, input, awaited, sent, proxy, link>>

EndsInput(p) ==
    /\ input[p] = "open" /\ p \in world.readers
    /\ input' = [input EXCEPT ![p] = "ended"]
    /\ UNCHANGED <<kernel, loop, target, awaited, sent, proxy, link>>

\* Let go of by the loop, it exits or dies of the signal it was continued with.
Exits(p) ==
    /\ proc[p] = "leaving"
    /\ proc' = [proc EXCEPT ![p] = "dead"]
    /\ UNCHANGED <<status, pending, root, busy, world, loop, target, input, awaited, sent, proxy, link>>

Goes ==
    /\ root /\ root' = FALSE
    /\ UNCHANGED <<proc, status, pending, busy, world, loop, target, input, awaited, sent, proxy, link>>

\* Another of its processes makes a call the filter stops, as often as it likes.
Crowds ==
    /\ world.others /\ root /\ ~busy /\ busy' = TRUE
    /\ UNCHANGED <<proc, status, pending, root, world, loop, target, input, awaited, sent, proxy, link>>

Agent(p) == Asks(p) \/ Signalled(p) \/ Killed(p) \/ EndsInput(p)

-----------------------------------------------------------------------------
(* The target, and the connection to it.                                    *)

Begins(p) ==
    /\ cmd[p] = "asked" /\ link = "up"
    /\ \/ cmd' = [cmd EXCEPT ![p] = "running"] /\ UNCHANGED <<how, wire>>
       \/ /\ cmd' = [cmd EXCEPT ![p] = "over"]      \* no such program there
          /\ how' = [how EXCEPT ![p] = "refused"]
          /\ wire' = [wire EXCEPT ![p] = Append(@, "refused")]
    /\ UNCHANGED <<kernel, loop, made, missed, input, awaited, sent, proxy, link>>

Writes(p) ==
    /\ p \in world.writers /\ cmd[p] = "running" /\ made[p] < Pieces
    /\ made' = [made EXCEPT ![p] = @ + 1]
    /\ wire' = [wire EXCEPT ![p] = Append(@, "piece")]
    /\ UNCHANGED <<kernel, loop, cmd, how, missed, input, awaited, sent, proxy, link>>

\* A signal waits five seconds for its command to begin, and is let go of.
Misses(p) ==
    /\ p \in world.slow /\ cmd[p] = "asked" /\ link = "up"
    /\ \E signal \in sent[p] : missed' = [missed EXCEPT ![p] = @ \cup {signal}]
    /\ UNCHANGED <<kernel, loop, cmd, how, made, wire, input, awaited, sent, proxy, link>>

\* A command ends of itself, of a signal it is sent there, or of one that has reached it.
Ends(p, end) ==
    /\ cmd[p] = "running"
    /\ \/ end \in {"ok", "failed"} /\ (p \in world.readers => input[p] = "sent")
       \/ end = Cancels /\ p \in world.cut
       \/ end \in sent[p] \ missed[p]
    /\ cmd' = [cmd EXCEPT ![p] = "over"] /\ how' = [how EXCEPT ![p] = end]
    /\ wire' = [wire EXCEPT ![p] = Append(@, end)]
    /\ UNCHANGED <<kernel, loop, made, missed, input, awaited, sent, proxy, link>>

\* The target shuts down what a connection that went was running; what was on its way may
\* be read still, or not.
Loses ==
    /\ link = "up" /\ link' = "lost"
    /\ LET left == {p \in Procs : cmd[p] \in {"asked", "running"}}
       IN  /\ cmd' = [p \in Procs |-> IF p \in left THEN "over" ELSE cmd[p]]
           /\ how' = [p \in Procs |-> IF p \in left THEN "lost" ELSE how[p]]
    /\ wire' \in {wire, [p \in Procs |-> <<>>]}
    /\ UNCHANGED <<kernel, loop, made, missed, input, awaited, sent, proxy>>

Target(p) == Begins(p) \/ Writes(p) \/ Misses(p) \/ \E end \in {"ok", "failed", "term", "kill"} : Ends(p, end)

-----------------------------------------------------------------------------
(* What the threads here do with it.                                        *)

\* What on_exit makes of the answer: a command that could not be started is told so on the
\* process's own standard error, and is a failure.
Outcome(answer) == IF answer \in {"refused", "lost"} THEN "failed" ELSE answer
FaultTold(answer) == IF answer \in {"refused", "lost"} THEN <<"why">> ELSE <<"end">>
Told(answer) == IF answer \in {"refused", "lost"} THEN <<"why", "end">> ELSE <<"end">>

Delivers(p) ==
    /\ wire[p] # <<>> /\ link # "noticed"
    /\ LET frame == Head(wire[p])
       IN  IF frame = "piece"
           THEN /\ outbox' = [outbox EXCEPT ![p] = Append(@, frame)]
                /\ UNCHANGED <<awaited, result>>
           ELSE /\ outbox' = [outbox EXCEPT ![p] = @ \o Told(frame)]
                /\ result' = [result EXCEPT ![p] = Outcome(frame)]
                /\ awaited' = awaited \ {p}
    /\ wire' = [wire EXCEPT ![p] = Tail(@)]
    /\ UNCHANGED <<kernel, loop, cmd, how, made, missed, input, sent, given, spilt, pump, finished, link>>

\* Everybody still waited for is told that the target has gone.
Notices ==
    /\ link = "lost" /\ \A p \in Procs : wire[p] = <<>>
    /\ link' = "noticed" /\ awaited' = {}
    /\ outbox' = [p \in Procs |-> IF p \in awaited THEN outbox[p] \o Told("lost") ELSE outbox[p]]
    /\ result' = [p \in Procs |-> IF p \in awaited THEN Outcome("lost") ELSE result[p]]
    /\ UNCHANGED <<kernel, loop, target, input, sent, given, spilt, pump, finished>>

\* A piece is written, or dropped: no descriptor was to be had, nobody reads from it, or
\* there is no room behind it.
Pours(p) ==
    /\ pump[p] = "on" /\ outbox[p] # <<>> /\ Head(outbox[p]) # "end"
    /\ outbox' = [outbox EXCEPT ![p] = Tail(@)]
    /\ LET piece == IF Head(outbox[p]) = "piece" THEN 1 ELSE 0
       IN  \/ given' = [given EXCEPT ![p] = @ + piece] /\ UNCHANGED spilt
           \/ spilt' = [spilt EXCEPT ![p] = @ + piece] /\ UNCHANGED given
    /\ UNCHANGED <<kernel, loop, target, input, awaited, sent, result, pump, finished, link>>

\* The pump's end: the other pump is joined, the descriptors closed, the loop told.
FaultFinishes(p) ==
    /\ pump[p] = "on" /\ \E i \in 1 .. Len(outbox[p]) : outbox[p][i] = "end"
    /\ pump' = [pump EXCEPT ![p] = "over"]
    /\ finished' = Append(finished, [on |-> p, with |-> result[p]])
    /\ UNCHANGED <<kernel, loop, target, input, awaited, sent, outbox, result, given, spilt, link>>
Finishes(p) ==
    /\ pump[p] = "on" /\ outbox[p] # <<>> /\ Head(outbox[p]) = "end"
    /\ pump' = [pump EXCEPT ![p] = "over"]
    /\ finished' = Append(finished, [on |-> p, with |-> result[p]])
    /\ UNCHANGED <<kernel, loop, target, input, awaited, sent, outbox, result, given, spilt, link>>

\* The other pump, at the end of the process's standard input.
Feeds(p) ==
    /\ pump[p] = "on" /\ input[p] = "ended" /\ link # "noticed"
    /\ input' = [input EXCEPT ![p] = "sent"]
    /\ UNCHANGED <<kernel, loop, target, awaited, sent, proxy, link>>

Threads(p) == Delivers(p) \/ Pours(p) \/ Finishes(p) \/ Feeds(p)

-----------------------------------------------------------------------------
(* The loop: what the threads have finished, whatever process has stopped   *)
(* or died, and, with neither, the signals.  A thread may finish between     *)
(* any two of its steps, so either of the first two may come next.           *)

\* What a process let go of ends with.  Continued with the signal its command ended of, one
\* that ignores or blocks it runs the stub, which ends well; one still at its own execve is
\* past where a signal can be put, and runs what it asked for on this machine.
EndsWith(p, end) ==
    IF end \in {"ok", "failed"} THEN end
    ELSE IF proc[p] = "stayed" THEN "here"
    ELSE IF end = Cancels /\ p \in world.deaf THEN "ok" ELSE end

\* A process that is where its number can be rewritten is let go of with its command's end;
\* one that is dead already is not there to be.
Releases ==
    /\ sup = Idle /\ finished # <<>>
    /\ LET p == Head(finished).on
           heard == p \in known \cap proxied
       IN  /\ proxied' = proxied \ (IF heard THEN {p} ELSE {})
           /\ IF heard /\ proc[p] \in {"stayed", "parked"}
              THEN /\ proc' = [proc EXCEPT ![p] = "leaving"]
                   /\ status' = [status EXCEPT ![p] = EndsWith(p, Head(finished).with)]
              ELSE UNCHANGED <<proc, status>>
    /\ finished' = Tail(finished)
    /\ UNCHANGED <<pending, root, busy, world, known, sup, taken, target, input, awaited, sent,
                   outbox, result, given, spilt, pump, link>>

Waitable == {p \in Procs : proc[p] \in {"dead", "asking"}}

FaultAbandon(left) ==
    /\ outbox' = [p \in Procs |-> IF p \in left THEN Append(outbox[p], "end") ELSE outbox[p]]
    /\ UNCHANGED sent
\* ExecProxy.abandon, of each of these that has started its command.
Abandon(left) ==
    /\ sent' = [p \in Procs |-> IF p \in left /\ cmd[p] # "none"
                                THEN sent[p] \cup {"kill"} ELSE sent[p]]
    /\ outbox' = [p \in Procs |-> IF p \in left THEN Append(outbox[p], "end") ELSE outbox[p]]

FaultReaps(p) ==
    /\ sup = Idle /\ proc[p] = "dead"
    /\ proc' = [proc EXCEPT ![p] = "reaped"]
    /\ known' = known \ {p} /\ UNCHANGED sup
    /\ UNCHANGED <<status, pending, root, busy, world, proxied, taken, target, input, awaited, sent, proxy, link>>
Reaps(p) ==
    /\ sup = Idle /\ proc[p] = "dead"
    /\ proc' = [proc EXCEPT ![p] = "reaped"]
    /\ known' = known \ {p} /\ proxied' = proxied \ {p} /\ UNCHANGED sup
    /\ Abandon({p} \cap known \cap proxied)
    /\ UNCHANGED <<status, pending, root, busy, world, taken, target, input, awaited, result, given, spilt, pump,
                   finished, link>>

Hears(p) ==
    /\ sup = Idle /\ proc[p] = "asking"
    /\ proc' = [proc EXCEPT ![p] = "held"] /\ sup' = At("start", p)
    /\ UNCHANGED <<status, pending, root, busy, world, known, proxied, taken, target, input, awaited, sent,
                   proxy, link>>

\* The command is asked for, or the connection is known to be no use and the execve fails.
Starts(p) ==
    /\ sup = At("start", p)
    /\ proxied' = proxied \cup {p} /\ awaited' = awaited \cup {p}
    /\ \/ /\ cmd' = [cmd EXCEPT ![p] = IF link = "up" THEN "asked" ELSE "over"]
          /\ how' = [how EXCEPT ![p] = IF link = "up" THEN "none" ELSE "lost"]
          /\ pump' = [pump EXCEPT ![p] = "on"] /\ sup' = At("park", p)
          /\ UNCHANGED proc
       \/ /\ link # "up" /\ sup' = Idle
          /\ proc' = [proc EXCEPT ![p] = IF @ = "held" THEN "running" ELSE @]
          /\ UNCHANGED <<cmd, how, pump>>
    /\ UNCHANGED <<status, pending, root, busy, world, known, taken, made, wire, missed, input, sent, outbox, result,
                   given, spilt, finished, link>>

\* standin.park, up to where the execve is let go: a process already dead has no memory to
\* write the stub's path in, and one with no room for it stays where it is.
Parks(p) ==
    /\ sup = At("park", p)
    /\ \/ proc[p] = "held" /\ proc' = [proc EXCEPT ![p] = "launched"] /\ sup' = At("step", p)
       \/ /\ proc[p] = "held" /\ p \in world.full
          /\ proc' = [proc EXCEPT ![p] = "stayed"] /\ sup' = Idle
       \/ proc[p] = "dead" /\ UNCHANGED proc /\ sup' = Idle
    /\ UNCHANGED <<status, pending, root, busy, world, known, proxied, taken, target, input, awaited, sent,
                   proxy, link>>

\* The rest of it.  A signal met on the way to where the stub would begin loses control of
\* the process, which is killed, and one that is blocked is not met; a process that was
\* killed meanwhile may be waited for here.
Steps(p) ==
    /\ sup = At("step", p) /\ sup' = Idle
    /\ \/ /\ proc[p] = "launched" /\ (pending[p] = {} \/ p \in world.deaf)
          /\ proc' = [proc EXCEPT ![p] = "parked"] /\ UNCHANGED <<status, taken>>
       \/ /\ proc[p] = "launched" /\ pending[p] # {}
          /\ proc' = [proc EXCEPT ![p] = "dead"] /\ status' = [status EXCEPT ![p] = "kill"]
          /\ UNCHANGED taken
       \/ /\ proc[p] = "dead"
          /\ \/ proc' = [proc EXCEPT ![p] = "reaped"] /\ taken' = taken \cup {p}
             \/ UNCHANGED <<proc, taken>>
          /\ UNCHANGED status
    /\ UNCHANGED <<pending, root, busy, world, known, proxied, target, input, awaited, sent, proxy, link>>

\* The agent has gone: what still stands in for a command gives it up.
EndsLoop ==
    /\ sup = Idle /\ ~root /\ sup' = [sup EXCEPT !.at = "ended"]
    /\ Abandon(known \cap proxied)
    /\ UNCHANGED <<kernel, known, proxied, taken, target, input, awaited, result, given, spilt, pump,
                   finished, link>>

\* With nothing to do for _IDLE_SECONDS, what is queued against the processes is passed on,
\* each signal once.
Relays ==
    /\ sup = Idle /\ finished = <<>> /\ root /\ Waitable = {} /\ ~busy
    /\ sent' = [p \in Procs |-> IF p \in known \cap proxied /\ cmd[p] # "none"
                                THEN sent[p] \cup (pending[p]) ELSE sent[p]]
    /\ UNCHANGED <<kernel, loop, target, input, awaited, proxy, link>>

Loop ==
    \/ Releases \/ EndsLoop \/ Relays
    \/ \E p \in Procs : Reaps(p) \/ Hears(p) \/ Starts(p) \/ Parks(p) \/ Steps(p)

\* The call of another process answered.
Serves ==
    /\ sup = Idle /\ busy /\ busy' = FALSE
    /\ UNCHANGED <<proc, status, pending, root, world, loop, target, input, awaited, sent, proxy, link>>

Next ==
    \/ Loop \/ Serves \/ Crowds \/ Goes \/ Loses \/ Notices
    \/ \E p \in Procs : Agent(p) \/ Exits(p) \/ Target(p) \/ Threads(p)

\* The loop comes to what it has of these processes and their commands to see to, however
\* many calls of others it answers, and the threads run; a process that is let go of ends;
\* the target begins what it is asked and a kill that reaches a command ends it.  Nothing
\* makes a command end, the agent do anything, or its other processes leave off.
Spec ==
    /\ Init /\ [][Next]_vars /\ WF_vars(Loop) /\ WF_vars(Notices)
    /\ \A p \in Procs : /\ WF_vars(Exits(p)) /\ WF_vars(Begins(p) \/ Ends(p, "kill"))
                         /\ WF_vars(Delivers(p)) /\ WF_vars(Pours(p) \/ Finishes(p))

-----------------------------------------------------------------------------
(* Properties.                                                              *)

Stages == {"running", "asking", "held", "launched", "stayed", "parked", "leaving", "dead",
           "reaped"}
Closings == {"ok", "failed", "term", "kill"}

KernelOK ==
    /\ proc \in [Procs -> Stages] /\ world \in Worlds /\ root \in BOOLEAN /\ busy \in BOOLEAN
    /\ status \in [Procs -> Closings \cup {"none", "here"}] /\ pending \in [Procs -> SUBSET {Cancels}]
LoopOK ==
    /\ known \subseteq Procs /\ proxied \subseteq Procs /\ taken \subseteq Procs
    /\ sup \in {Idle, [Idle EXCEPT !.at = "ended"]}
              \cup {At(stage, p) : stage \in {"start", "park", "step"}, p \in Procs}
TargetOK ==
    /\ cmd \in [Procs -> {"none", "asked", "running", "over"}]
    /\ how \in [Procs -> Closings \cup {"none", "refused", "lost"}]
    /\ made \in [Procs -> 0 .. Pieces] /\ missed \in [Procs -> SUBSET {Cancels, "kill"}]
    /\ wire \in [Procs -> Seq(Closings \cup {"piece", "refused"})]
SentOK ==
    /\ input \in [Procs -> {"open", "ended", "sent"}] /\ awaited \subseteq Procs
    /\ sent \in [Procs -> SUBSET {Cancels, "kill"}] /\ link \in {"up", "lost", "noticed"}
ProxyOK ==
    /\ outbox \in [Procs -> Seq({"piece", "why", "end"})]
    /\ result \in [Procs -> Closings] /\ given \in [Procs -> Nat]
    /\ spilt \in [Procs -> Nat]
    /\ pump \in [Procs -> {"off", "on", "over"}]
    /\ finished \in Seq([on : Procs, with : Closings])

TypeOK == KernelOK /\ LoopOK /\ TargetOK /\ SentOK /\ ProxyOK

Going(p) == cmd[p] \in {"asked", "running"}

\* "A command never reports a success it did not achieve" (specs/coganchor.md:90): whoever
\* waits for a process that ended well, or of the signal a command was cancelled with, waited
\* for a command that ended so, and none of its output was still on its way: it had been
\* written, or dropped at the process's own descriptors.  A process that ignores or blocks
\* that signal ends well for a command that was cancelled.
Honest ==
    \A p \in Procs :
        status[p] \in {"ok", Cancels} =>
            /\ \/ how[p] = status[p]
               \/ p \in world.deaf /\ status[p] = "ok" /\ how[p] = Cancels
            /\ given[p] + spilt[p] = made[p]

\* Nothing runs on the target that nobody here would hear of or put an end to: there is a
\* process standing in for it, or it has been sent the kill (which one that takes more than
\* five seconds to begin may miss), and "when coganchor exits
\* nothing it started is left running" (specs/coganchor.md:92-93).
NeverLosesTrack ==
    \A p \in Procs : Going(p) => \/ p \in known \cap proxied /\ sup.at # "ended"
                                 \/ "kill" \in sent[p]

\* Asked for of a target already gone, by a request that nothing will ever answer.
Adrift(p) == link = "noticed" /\ p \in awaited

\* A process waits no longer than its command: when that has ended, been refused, or been
\* lost with the connection, it ends too.
Reported ==
    \A p \in Procs : pump[p] = "on" /\ cmd[p] = "over"
                        ~> Dead(p) \/ Adrift(p) \/ sup.at = "ended"

\* "Signals travel both ways" (specs/coganchor.md:86): a command whose process is killed is
\* ended on the target, unless park was told of that death or the target let go of the kill
\* before the command began; and one whose process is sent a signal to cancel it is sent it,
\* where the agent's other processes do not stop for ever.
SignalsTravel ==
    \A p \in Procs :
        /\ Dead(p) /\ Going(p) ~> cmd[p] = "over" \/ p \in taken \/ "kill" \in missed[p]
        /\ <>[]~busy =>
             (proc[p] \in {"stayed", "parked"} /\ Cancels \in pending[p] /\ Going(p)
                ~> Cancels \in sent[p] \/ ~Going(p) \/ Dead(p) \/ sup.at = "ended")
=============================================================================
