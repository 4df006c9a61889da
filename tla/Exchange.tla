------------------------------- MODULE Exchange --------------------------------
(***************************************************************************)
(* What asking a target for something promises, with none of how: whoever  *)
(* asked is answered once, and only with what the target really did; one   *)
(* told that it failed may find that it was done all the same, then or     *)
(* later (src/specs/coganchor.md, "A request that goes unanswered is       *)
(* abandoned here, not there").                                            *)
(***************************************************************************)
CONSTANT Reqs

VARIABLES outcome,  \* what each request has come to for whoever made it
          handled   \* the requests the target has done with

vars == <<outcome, handled>>

Init == outcome = [r \in Reqs |-> "none"] /\ handled = {}

Asks(r) ==
    /\ outcome[r] = "none"
    /\ outcome' = [outcome EXCEPT ![r] = "asked"]
    /\ UNCHANGED handled

\* At the target, which does not know who is still waiting.
Handles(r) ==
    /\ outcome[r] # "none" /\ r \notin handled
    /\ handled' = handled \cup {r}
    /\ UNCHANGED outcome

Answered(r) ==
    /\ outcome[r] = "asked" /\ r \in handled
    /\ outcome' = [outcome EXCEPT ![r] = "answered"]
    /\ UNCHANGED handled

\* Refused as it was made, or given up on at any time after.
Failed(r) ==
    /\ outcome[r] \in {"none", "asked"}
    /\ outcome' = [outcome EXCEPT ![r] = "failed"]
    /\ UNCHANGED handled

Next == \E r \in Reqs : Asks(r) \/ Handles(r) \/ Answered(r) \/ Failed(r)

Spec == Init /\ [][Next]_vars
=============================================================================
