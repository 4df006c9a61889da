------------------------------ MODULE Workspace ------------------------------
(***************************************************************************)
(* What the daemon promises of one workspace, with none of how: one run is *)
(* in it at a time, a process has one there at most once in its life, and  *)
(* a workspace is taken just as long as somebody is in it                  *)
(* (src/specs/daemon.md, "one daemon per workspace").                      *)
(***************************************************************************)

CONSTANT Procs  \* the processes that may run something in this workspace

VARIABLES inside, \* those that have got in and have not put everything away
          been,   \* those that have been in, or will never be
          free    \* whether the workspace may be taken

vars == <<inside, been, free>>

Init == inside = {} /\ been = {} /\ free = TRUE

\* A process gets into a workspace nobody is in.
Enters(p) == /\ inside = {} /\ free
             /\ p \notin been
             /\ inside' = {p} /\ been' = been \cup {p} /\ free' = FALSE

\* It is out again, having put everything away or having gone where it stood.
Leaves(p) == /\ p \in inside
             /\ inside' = inside \ {p} /\ free' = TRUE
             /\ UNCHANGED been

\* One is turned away, or goes before it has come to asking.
Passes(p) == /\ p \notin been
             /\ been' = been \cup {p}
             /\ UNCHANGED <<inside, free>>

Next == \E p \in Procs : Enters(p) \/ Leaves(p) \/ Passes(p)

Spec == Init /\ [][Next]_vars
=============================================================================
