------------------------------- MODULE Mirror -------------------------------
(***************************************************************************)
(* The mirror an agent works in: one directory of the target's workspace    *)
(* as coganchor/shadow.py keeps it on this machine, the system calls that   *)
(* coganchor/handlers.py answers before it lets them through, the one       *)
(* thread of coganchor/supervisor.py that answers them, and the commands    *)
(* the agent runs on the target meanwhile.                                  *)
(*                                                                         *)
(* A call the supervisor has let through is made by the kernel later, while *)
(* the supervisor is already answering somebody else's; an open descriptor  *)
(* is read or written later still.  Every request to the target is a step   *)
(* of its own, so all of that falls between the two ends of it.             *)
(*                                                                         *)
(* A file is the version of it that was written: what the code compares     *)
(* (size and mtime) changes with every write, so the version stands for     *)
(* both the bytes and the stamps.  A placeholder has the version's stamps   *)
(* and none of its bytes.                                                   *)
(***************************************************************************)
EXTENDS Integers, FiniteSets

CONSTANTS Names,       \* what is in the directory
          Seeded,      \* the version each is to begin with, where the target has it
          Refused,     \* the names the target will not have written
          Tracees,     \* the agent's processes
          Calls,       \* the system calls each of them makes
          Versions     \* how many versions of files there are, the first one included

Gone == 0
ASSUME NamesAssumption == IsFiniteSet(Names)
ASSUME SeededAssumption == Seeded \in [Names -> Gone .. Cardinality(Names)]

VARIABLES remote,      \* the directory on the target
          local,       \* the mirror: a version, and whether it is only a placeholder
          files,       \* ShadowTree._files: what was last known of each name
          candidates,  \* ShadowTree._dirty_candidates
          fresh,       \* the listing is of this generation
          work,        \* the handler the supervisor is in, and how far it has got
          call,        \* the call each process is making
          newest,      \* how many versions there are so far
          reached,     \* the versions that have been on the target
          exposed,     \* the versions written in a way nothing here protects
          strayed      \* the names removed or renamed here after somebody else's change, and
                       \* those a file of such a name has been given since

mirror == <<remote, local, files, candidates, fresh, work, call, newest, reached, exposed, strayed>>

Nothing == [v |-> Gone, hole |-> FALSE]
Unknown == [seen |-> Gone, own |-> Gone, present |-> FALSE]
Fetched(v) == [v |-> v, hole |-> FALSE]
Knows(v) == [seen |-> v, own |-> v, present |-> TRUE]
NoList == [n \in {} |-> Gone]
Off == [stage |-> "off", op |-> "none", p |-> {}, left |-> {}, why |-> "none",
        n |-> {}, list |-> NoList]
NoCall == [at |-> "idle", op |-> "none", n |-> {}, m |-> {}, v |-> Gone, fd |-> {},
           crossed |-> FALSE]

MirrorInit ==
  /\ remote = Seeded
  /\ local = [n \in Names |-> Nothing]
  /\ files = [n \in Names |-> Unknown]
  /\ candidates = {} /\ fresh = FALSE
  /\ work = Off
  /\ call = [p \in Tracees |-> NoCall]
  /\ newest = Cardinality(Names) /\ reached = 1 .. newest /\ exposed = {} /\ strayed = {}

\* A regular file here that is not as it was when it was last known: what flush pushes.
Unpushed(n) == local[n].v > Gone /\ files[n].own # local[n].v

\* The calls let through, or with a descriptor open, while the supervisor changed the
\* mirror or its books under them.
Crosses == [p \in Tracees |->
              IF call[p].at \in {"let", "open"} THEN [call[p] EXCEPT !.crossed = TRUE]
              ELSE call[p]]
\* ... and the descriptors that are open on none of the names any more.
Cuts(calls, gone) == [p \in Tracees |-> [calls[p] EXCEPT !.fd = @ \ gone]]

----------------------------------------------------------------------------
(* The supervisor: one stopped call at a time.                              *)

\* Something removed or renamed on the target and in the books is still to be so here.
Moving == \E p \in Tracees : call[p].at = "let" /\ call[p].op \in {"unlink", "rename"}

Become(calls, ps, at) ==
  [p \in Tracees |-> IF p \notin ps THEN calls[p]
                     ELSE IF at = "idle" THEN NoCall ELSE [calls[p] EXCEPT !.at = at]]

\* A plausible slip: a file that is only edited is not noted.
FaultLets(w, calls, dirty) ==
  /\ work' = Off
  /\ call' = Become(calls, w.p, IF w.op = "stat" THEN "idle" ELSE "let")
  /\ candidates' = IF w.op = "write" THEN dirty \cup w.n ELSE dirty

\* The handler is done, and the call is the kernel's to make: what is about to be written
\* has been noted by then (ShadowTree.note_write), under the name the call gave.  A stat
\* changes nothing, so it is made here and now.
Lets(w, calls, dirty) ==
  /\ work' = Off
  /\ call' = Become(calls, w.p, IF w.op = "stat" THEN "idle" ELSE "let")
  /\ candidates' = IF w.op \in {"edit", "write"} THEN dirty \cup w.n ELSE dirty

\* A file whose bytes were never fetched: ShadowTree.ensure_content.
Lacks(books, n) == books[n].seen > Gone /\ ~books[n].present

\* What is left once the directory holding the name has been seen to: the content, for a
\* call that reads; the target's word and a flush before it, for one that changes names.
Onward(w, calls, books, dirty) ==
  IF w.op \in {"unlink", "rename"}
  THEN /\ work' = [w EXCEPT !.stage = "flush", !.why = "replay", !.left = dirty]
       /\ call' = calls /\ candidates' = dirty
  ELSE IF w.op \in {"read", "edit"} /\ \E n \in w.n : Lacks(books, n)
  THEN /\ work' = [w EXCEPT !.stage = "fetch"]
       /\ call' = calls /\ candidates' = dirty
  ELSE Lets(w, calls, dirty)

\* A process stops at a call (Supervisor._on_seccomp, SyscallDispatcher.dispatch).  The
\* directory is listed at most once a generation, and what was written here goes out before
\* what is there comes in (ShadowTree.ensure_directory).
Stops(p, op, n, m, v) ==
  LET said == [call EXCEPT ![p] = [NoCall EXCEPT !.at = "stopped", !.op = op, !.n = n, !.m = m,
                                               !.v = IF v = 1 THEN newest + 1 ELSE Gone,
                                               !.crossed = Moving]]
      w == [Off EXCEPT !.stage = "flush", !.op = op, !.p = {p}, !.n = n, !.left = candidates]
  IN /\ work.stage = "off" /\ call[p].at = "idle"
     /\ newest + v <= Versions /\ newest' = newest + v
     /\ IF op # "exec" /\ fresh THEN Onward(w, said, files, candidates)
        ELSE /\ work' = [w EXCEPT !.why = IF op = "exec" THEN "start" ELSE "list"]
             /\ call' = said
             /\ UNCHANGED candidates
     /\ UNCHANGED <<remote, local, files, fresh, reached, exposed, strayed>>

\* ShadowTree.flush: the next candidate that is not as it was known goes to the target;
\* one found to be as it was is not looked at again.
Pushes ==
  /\ work.stage = "flush"
  /\ \E n \in work.left \ Refused, clean \in SUBSET work.left :
       /\ Unpushed(n) /\ \A x \in clean : ~Unpushed(x)
       /\ remote' = [remote EXCEPT ![n] = local[n].v]
       /\ reached' = reached \cup {local[n].v}
       /\ work' = [work EXCEPT !.stage = "pushed", !.left = @ \ ({n} \cup clean),
                               !.list = [x \in {n} |-> local[n].v]]
  /\ UNCHANGED <<local, files, candidates, fresh, call, newest, exposed, strayed>>

\* ShadowTree._push, once the target has answered: the file is known as it is here by now.
Pushed ==
  /\ work.stage = "pushed"
  /\ files' = [n \in Names |->
                 IF n \in DOMAIN work.list
                 THEN [seen |-> work.list[n], own |-> local[n].v, present |-> TRUE]
                 ELSE files[n]]
  /\ work' = [work EXCEPT !.stage = "flush", !.list = NoList]
  /\ call' = Crosses
  /\ UNCHANGED <<remote, local, candidates, fresh, newest, reached, exposed, strayed>>

\* A plausible slip: the directory is listed without what was written here going out first.
FaultFlushed(why) ==
  /\ work.stage = "flush" /\ work.why = why
  /\ why = "list" \/ \A n \in work.left : ~Unpushed(n)

Flushed(why) == work.stage = "flush" /\ work.why = why /\ \A n \in work.left : ~Unpushed(n)
Blocked == work.stage = "flush" /\ \E n \in work.left \cap Refused : Unpushed(n)

\* A push the target refuses ends the flush, and fails the call it was for.
Refuses ==
  /\ Blocked /\ work.why \in {"list", "replay"}
  /\ work' = Off /\ call' = Become(call, work.p, "idle")
  /\ UNCHANGED <<remote, local, files, candidates, fresh, newest, reached, exposed, strayed>>

\* fsops.listdir, on the target.
Lists ==
  /\ Flushed("list")
  /\ work' = [work EXCEPT !.stage = "apply", !.left = {}, !.list = remote]
  /\ UNCHANGED <<remote, local, files, candidates, fresh, call, newest, reached, exposed, strayed>>

\* A plausible slip: what the target says of a file is not compared, only the mirror's copy.
FaultIntact(n, e) == files[n].seen # Gone /\ local[n].v = files[n].own

\* Known as the target lists it, and untouched here since.
Intact(n, e) == files[n].seen = e /\ local[n].v = files[n].own

\* ShadowTree._apply_listing: what is not as it was known becomes a placeholder, in the
\* file that is there, and what the target has not got goes.
Applies ==
  /\ work.stage = "apply"
  /\ LET lost == {n \in Names : work.list[n] = Gone /\ local[n].v # Gone}
         new == {n \in Names : work.list[n] # Gone /\ ~Intact(n, work.list[n])}
     IN /\ local' = [n \in Names |->
                       CASE n \in lost -> Nothing
                         [] n \in new -> [v |-> work.list[n], hole |-> TRUE]
                         [] OTHER -> local[n]]
        /\ files' = [n \in Names |->
                       CASE n \in lost -> Unknown
                         [] n \in new -> [Knows(work.list[n]) EXCEPT !.present = FALSE]
                         [] OTHER -> files[n]]
        /\ fresh' = TRUE
        /\ Onward([work EXCEPT !.list = NoList], Cuts(Crosses, lost), files', candidates \ lost)
  /\ UNCHANGED <<remote, newest, reached, exposed, strayed>>

\* fsops.read, on the target.
Fetches ==
  /\ work.stage = "fetch"
  /\ \E n \in work.n :
       IF remote[n] = Gone
       THEN work' = Off /\ call' = Become(call, work.p, "idle")
       ELSE /\ work' = [work EXCEPT !.stage = "replace",
                                    !.list = [x \in {n} |-> remote[n]]]
            /\ UNCHANGED call
  /\ UNCHANGED <<remote, local, files, candidates, fresh, newest, reached, exposed, strayed>>

\* The bytes take the name over from whatever file has it here.
Replaces ==
  /\ work.stage = "replace"
  /\ LET got == DOMAIN work.list
     IN /\ local' = [n \in Names |-> IF n \in got THEN Fetched(work.list[n]) ELSE local[n]]
        /\ files' = [n \in Names |-> IF n \in got THEN Knows(work.list[n]) ELSE files[n]]
        /\ Lets(work, Cuts(Crosses, got), candidates)
  /\ UNCHANGED <<remote, fresh, newest, reached, exposed, strayed>>

\* A plausible slip: a file renamed loses what was known of it.
FaultReplays ==
  /\ Flushed("replay")
  /\ \E p \in work.p, n \in work.n :
       IF remote[n] = Gone
       THEN /\ work' = Off /\ call' = Become(call, {p}, "idle")
            /\ UNCHANGED <<remote, files, candidates>>
       ELSE LET m == call[p].m
            IN /\ remote' = [x \in Names |-> CASE x \in m -> remote[n]
                                               [] x = n -> Gone [] OTHER -> remote[x]]
               /\ files' = [x \in Names |-> IF x = n \/ x \in m THEN Unknown ELSE files[x]]
               /\ Lets(work, Crosses, IF n \in candidates THEN (candidates \ {n}) \cup m
                                      ELSE candidates \ m)
  /\ UNCHANGED <<local, fresh, newest, reached, exposed, strayed>>

\* SyscallDispatcher._replay: the target first, and then the books (ShadowTree.forget and
\* ShadowTree.rename); what the target refuses, the call is refused.
Replays ==
  /\ Flushed("replay")
  /\ \E p \in work.p, n \in work.n :
       IF remote[n] = Gone
       THEN /\ work' = Off /\ call' = Become(call, {p}, "idle")
            /\ UNCHANGED <<remote, files, candidates>>
       ELSE LET m == call[p].m
            IN /\ remote' = [x \in Names |-> CASE x \in m -> remote[n]
                                               [] x = n -> Gone [] OTHER -> remote[x]]
               /\ files' = [x \in Names |-> CASE x \in m -> files[n]
                                              [] x = n -> Unknown [] OTHER -> files[x]]
               /\ Lets(work, Crosses, IF n \in candidates THEN (candidates \ {n}) \cup m
                                      ELSE candidates \ m)
  /\ UNCHANGED <<local, fresh, newest, reached, exposed, strayed>>

\* Supervisor.begin_remote_exec, once what was written here has been pushed or could not
\* be: the process stands in for a command that runs on the target.
BeginsRemoteExec ==
  /\ Flushed("start") \/ (Blocked /\ work.why = "start")
  /\ work' = Off /\ call' = Become(call, work.p, "parked")
  /\ UNCHANGED <<remote, local, files, candidates, fresh, newest, reached, exposed, strayed>>

\* Supervisor._release_stalled: what the command did invalidates every listing.
ReleasesStalled(p) ==
  /\ work.stage = "off" /\ call[p].at = "done"
  /\ call' = [call EXCEPT ![p] = NoCall]
  /\ fresh' = FALSE
  /\ UNCHANGED <<remote, local, files, candidates, work, newest, reached, exposed, strayed>>

\* The agent has exited: Supervisor._flush_final, and the session is over.
FlushesFinal ==
  /\ work.stage = "off"
  /\ \A p \in Tracees : call[p].at \in {"idle", "parked", "done"}
  /\ work' = [Off EXCEPT !.stage = "flush", !.why = "final", !.left = candidates]
  /\ UNCHANGED <<remote, local, files, candidates, fresh, call, newest, reached, exposed, strayed>>

Supervisor ==
  \/ Pushes \/ Pushed \/ Refuses \/ Lists \/ Applies \/ Fetches \/ Replaces
  \/ Replays \/ BeginsRemoteExec \/ FlushesFinal
  \/ \E p \in Tracees : ReleasesStalled(p)

----------------------------------------------------------------------------
(* The agent's processes: what they ask for, and the kernel making the call *)
(* once it has been let through.                                            *)

Requests(p) ==
  \/ \E op \in Calls[p] \cap {"stat", "read"}, n \in Names : Stops(p, op, {n}, {}, 0)
  \/ \E op \in Calls[p] \cap {"edit", "write"}, n \in Names : Stops(p, op, {n}, {}, 1)
  \/ \E n \in Names : "unlink" \in Calls[p] /\ Stops(p, "unlink", {n}, {}, 0)
  \/ \E n, m \in Names : "rename" \in Calls[p] /\ n # m /\ Stops(p, "rename", {n}, {m}, 0)
  \/ "exec" \in Calls[p] /\ Stops(p, "exec", {}, {}, 0)

\* What is written while the supervisor is busy with another call, or after it has changed
\* the mirror since letting this one through, or over a placeholder whose bytes were never
\* fetched, or into the zeroes of one, is where the code does not look after it.
Exposed(p, names) ==
  \/ work.stage # "off" \/ call[p].crossed
  \/ \E n \in call[p].n : Lacks(files, n)
  \/ call[p].op = "edit" /\ \E n \in names : local[n].hole

WritesTo(p, names) ==
  /\ local' = [n \in Names |-> IF n \in names
                               THEN [v |-> call[p].v,
                                     hole |-> call[p].op = "edit" /\ local[n].hole]
                               ELSE local[n]]
  /\ exposed' = IF Exposed(p, names) THEN exposed \cup {call[p].v} ELSE exposed

\* The file of that name, if there is one here.
There(p) == {n \in call[p].n : local[n].v > Gone}

Opens(p) ==
  /\ call[p].at = "let" /\ call[p].op \in {"read", "edit"}
  /\ call' = [call EXCEPT ![p] = IF There(p) = {} THEN NoCall
                                 ELSE [@ EXCEPT !.at = "open", !.fd = There(p)]]
  /\ UNCHANGED <<remote, local, files, candidates, fresh, work, newest, reached, exposed, strayed>>

Uses(p) ==
  /\ call[p].at = "open"
  /\ IF call[p].op = "edit" THEN WritesTo(p, call[p].fd) ELSE UNCHANGED <<local, exposed>>
  /\ call' = [call EXCEPT ![p] = NoCall]
  /\ UNCHANGED <<remote, files, candidates, fresh, work, newest, reached, strayed>>

\* An open that truncates, or creates, and what is written through it.
Overwrites(p) ==
  /\ call[p].at = "let" /\ call[p].op = "write"
  /\ WritesTo(p, call[p].n)
  /\ call' = [call EXCEPT ![p] = NoCall]
  /\ UNCHANGED <<remote, files, candidates, fresh, work, newest, reached, strayed>>

\* A file removed, or given the other name: a descriptor open on it goes with it.
Moves(p) ==
  /\ call[p].at = "let" /\ call[p].op \in {"unlink", "rename"}
  /\ \E n \in call[p].n :
       LET m == call[p].m
           there == local[n].v # Gone
           goes(d) == IF n \in d THEN m ELSE d \ m
           astray == call[p].crossed \/ ~there \/ work.stage # "off" \/ n \in strayed
       IN /\ local' = [x \in Names |-> CASE there /\ x \in m -> local[n]
                                         [] there /\ x = n -> Nothing
                                         [] OTHER -> local[x]]
          /\ call' = [q \in Tracees |->
                        IF q = p THEN NoCall
                        ELSE IF there THEN [call[q] EXCEPT !.fd = goes(@)] ELSE call[q]]
          /\ strayed' = IF astray THEN strayed \cup {n} \cup m ELSE strayed
  /\ UNCHANGED <<remote, files, candidates, fresh, work, newest, reached, exposed>>

Process(p) == Requests(p) \/ Opens(p) \/ Uses(p) \/ Overwrites(p) \/ Moves(p)

----------------------------------------------------------------------------
(* The commands the agent's processes stand in for, on the target.          *)

Changes(p) ==
  /\ call[p].at = "parked"
  /\ \E n \in Names :
       \/ /\ newest < Versions /\ newest' = newest + 1
          /\ remote' = [remote EXCEPT ![n] = newest + 1]
          /\ reached' = reached \cup {newest + 1}
       \/ /\ remote[n] # Gone
          /\ remote' = [remote EXCEPT ![n] = Gone]
          /\ UNCHANGED <<newest, reached>>
  /\ UNCHANGED <<local, files, candidates, fresh, work, call, exposed, strayed>>

Returns(p) ==
  /\ call[p].at = "parked"
  /\ call' = [call EXCEPT ![p].at = "done"]
  /\ UNCHANGED <<remote, local, files, candidates, fresh, work, newest, reached, exposed, strayed>>

Command(p) == Changes(p) \/ Returns(p)

MirrorNext == Supervisor \/ \E p \in Tracees : Process(p) \/ Command(p)

MirrorSpec == MirrorInit /\ [][MirrorNext]_mirror

----------------------------------------------------------------------------
(* Properties.                                                              *)

\* "A file the agent modifies is pushed in full before any command runs on the target, and
\* again when the session ends" (specs/coganchor.md:97): when a flush has got through, with
\* nothing the target refused in its way, every file here is one the target has had, but for
\* the versions the code does not look after.
CommandsSeeTheEdits ==
  Flushed("start") \/ Flushed("final") =>
    \A n \in Names : local[n].v > Gone => local[n].v \in reached \cup exposed

\* A file is let through to be read or edited with its bytes, not with the zeroes of a
\* placeholder, unless the supervisor changed the mirror again before the kernel got to it.
LetThroughWhole ==
  \A p \in Tracees :
    /\ call[p].at \in {"let", "open"} /\ call[p].op \in {"read", "edit"}
    /\ ~call[p].crossed
    => \A n \in (IF call[p].at = "open" THEN call[p].fd ELSE There(p)) \ strayed :
         local[n].hole => local[n].v \in exposed

\* "What a command changes on the target becomes visible to the agent once it exits"
\* (specs/coganchor.md:91-92): with no command running and no call on its way, a directory
\* listed in this generation holds what the target's holds, or what flush is going to push.
InStep ==
  /\ fresh /\ work.stage = "off" /\ \A p \in Tracees : call[p].at = "idle"
  => \A n \in Names :
       \/ local[n].v = remote[n]
       \/ n \in candidates /\ Unpushed(n)
       \/ local[n].v \in exposed \/ n \in strayed

\* The steps in which it is the supervisor that changes the mirror.
Rewritten(n) == local[n].v > Gone /\ local'[n] # local[n] /\ (Applies \/ Replaces)

\* Bringing in what the target has never takes an edit that has not been there: flush goes
\* before every listing, and a file whose bytes are here is never fetched over.
KeepsEdits == [][\A n \in Names : Rewritten(n) => local[n].v \in reached \cup exposed]_mirror

\* The same with nothing excepted, which a file overwritten before it was ever read breaks:
\* "keeps the two in step" (specs/coganchor.md:17).
KeepsEveryEdit == [][\A n \in Names : Rewritten(n) => local[n].v \in reached]_mirror
=============================================================================
