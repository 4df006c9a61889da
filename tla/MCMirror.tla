------------------------------ MODULE MCMirror ------------------------------
(* Instances of Mirror for TLC. *)
EXTENDS Mirror, TLC

CONSTANTS editor, shell

MCSeeded == "a" :> 1 @@ "b" :> 2

\* One process that changes files, and one that reads them and runs commands beside it.
MCCalls == editor :> {"stat", "edit", "write", "unlink", "rename"} @@ shell :> {"read", "exec"}
=============================================================================
