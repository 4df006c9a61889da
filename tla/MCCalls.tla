-------------------------------- MODULE MCCalls -------------------------------
(* A few calls over two agents for TLC: one tight and one that keeps what  *)
(* it was handed among them, and one of a flow that brings no skills.      *)
EXTENDS Calls, TLC

CONSTANTS tight, loose, plain, nested, left, right

MCDrives == tight :> {left} @@ loose :> {left} @@ plain :> {left, right} @@ nested :> {left}
MCRung == tight :> 0 @@ loose :> 1 @@ plain :> 1 @@ nested :> 1
=============================================================================
